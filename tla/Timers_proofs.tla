---------------------------- MODULE Timers_proofs ----------------------------
(***************************************************************************)
(* Proofs about Timers, for any number of timers, any intervals, counts,   *)
(* clock width and number of script VMs: that the manager's iterator stays *)
(* in its list, that a count is kept to exactly, and that firings keep     *)
(* their distance short of the clock's end.                                *)
(***************************************************************************)
EXTENDS Timers, WellFoundedInduction, TLAPS

LEMMA Bounds ==
  /\ MaxTimers \in Nat /\ Modulus \in Nat /\ Modulus > 0 /\ MaxActs \in Nat
  /\ VMs \in Nat /\ VMs > 0
  /\ 0 \in Time /\ \A i \in Interval : i \in Time
  /\ Repeating \subseteq Nat
BY TimersAssumption DEF TimersAssumption, Time

LEMMA TimersAreNaturals ==
  /\ Timer \subseteq Nat /\ Timer \subseteq 0 .. End
  /\ End \in Nat /\ End \in 0 .. End /\ 0 \in 0 .. End
  /\ End \notin Timer /\ 0 \notin Timer
BY Bounds DEF Timer, End

LEMMA LeastIsIn ==
  ASSUME NEW S \in SUBSET Nat, S # {}
  PROVE  Least(S) \in S /\ \A u \in S : Least(S) <= u
<1>1. PICK t \in S : \A u \in S : ~ (<<u, t>> \in OpToRel(<, Nat))
  BY NatLessThanWellFounded, WFMin, Zenon
<1>2. ASSUME NEW u \in S PROVE t <= u
  <2>1. ~ (<<u, t>> \in {p \in Nat \X Nat : p[1] < p[2]})
    BY <1>1 DEF OpToRel
  <2>2. <<u, t>> \in Nat \X Nat /\ u \in Nat /\ t \in Nat
    OBVIOUS
  <2> QED BY <2>1, <2>2
<1> QED BY <1>2 DEF Least

(* The iterator moves to a timer of the list, or past its end.             *)
LEMMA AfterIsHeld ==
  ASSUME NEW t \in Nat, NEW S \in SUBSET Timer
  PROVE  After(t, S) \in S \cup {End}
<1> DEFINE later == {u \in S : u > t}
<1>1. later \subseteq S /\ later \in SUBSET Nat
  BY TimersAreNaturals
<1>2. CASE later = {}
  BY <1>2 DEF After
<1>3. CASE later # {}
  <2>1. Least(later) \in later
    BY <1>1, <1>3, LeastIsIn
  <2> QED BY <2>1, <1>1, <1>3 DEF After
<1> QED BY <1>2, <1>3

LEMMA WrappedIsTime == \A n \in Nat : n % Modulus \in Time
BY Bounds DEF Time
-----------------------------------------------------------------------------
(* Type correctness.                                                       *)

(* A callback runs only for a timer the iterator stands on.                *)
CallsOnTimer == calls > 0 => iter \in Timer

LEMMA ScriptTypeOK == TypeOK /\ Script => TypeOK'
<1> SUFFICES ASSUME TypeOK, Script PROVE TypeOK'
  OBVIOUS
<1>1. ASSUME NEW i \in Interval, NEW n \in Repeating, Create(i, n)
      PROVE  TypeOK'
  <2>1. created' \in Timer /\ created' \in 0 .. MaxTimers
    BY <1>1, Bounds DEF Create, TypeOK, Timer
  <2>2. i \in Time /\ n \in Nat
    BY <1>1, Bounds
  <2> QED BY <1>1, <2>1, <2>2 DEF Create, TypeOK, pulse, time
<1>2. ASSUME NEW t \in Timer, Using(t)
      PROVE  broken' \in BOOLEAN /\ acts' \in 0 .. MaxActs
  BY <1>2, Bounds DEF Using, TypeOK
<1>3. ASSUME NEW t \in Timer, Start(t) \/ Pause(t) \/ Resume(t) \/ Stop(t)
      PROVE  TypeOK'
  <2>1. broken' \in BOOLEAN /\ acts' \in 0 .. MaxActs
    BY <1>2, <1>3 DEF Start, Pause, Resume, Stop
  <2>2. CASE Start(t)
    BY <2>1, <2>2 DEF Start, TypeOK, manager, pulse, time
  <2>3. CASE Pause(t)
    BY <2>1, <2>3 DEF Pause, TypeOK, manager, pulse, time
  <2>4. CASE Resume(t)
    BY <2>1, <2>4 DEF Resume, TypeOK, manager, pulse, time
  <2>5. CASE Stop(t)
    BY <2>1, <2>5 DEF Stop, TypeOK, pulse, time
  <2> QED BY <1>3, <2>2, <2>3, <2>4, <2>5
<1> QED BY <1>1, <1>3 DEF Script

LEMMA KeepOrDropTypeOK ==
  ASSUME TypeOK, NEW t \in Timer, Keep(t) \/ Drop(t)
  PROVE  /\ created' = created
         /\ list' \subseteq Timer /\ live' \subseteq Timer
         /\ iter' \in list' \cup {End} /\ iter' \in 0 .. End
<1>1. list' \subseteq Timer /\ live' \subseteq Timer /\ created' = created
  BY DEF Keep, Drop, TypeOK, manager
<1>2. iter' = After(t, list')
  BY DEF Keep, Drop, manager
<1>3. t \in Nat
  BY TimersAreNaturals
<1>4. iter' \in list' \cup {End}
  BY <1>1, <1>2, <1>3, AfterIsHeld
<1> QED BY <1>1, <1>4, TimersAreNaturals

LEMMA MainLoopTypeOK == TypeOK /\ MainLoop => TypeOK'
<1> SUFFICES ASSUME TypeOK, MainLoop PROVE TypeOK'
  OBVIOUS
<1>1. CASE BeginPulse
  <2>1. After(0, list) \in list \cup {End}
    BY AfterIsHeld DEF TypeOK
  <2>2. iter' \in 0 .. End
    BY <1>1, <2>1, TimersAreNaturals DEF BeginPulse, TypeOK
  <2> QED BY <1>1, <2>2 DEF BeginPulse, TypeOK, manager, fields
<1>2. CASE NextVM
  <2>1. calls' \in 0 .. VMs
    BY <1>2, Bounds DEF NextVM, TypeOK
  <2> QED BY <1>2, <2>1 DEF NextVM, TypeOK, manager, fields, time
<1>3. CASE EndPulse
  <2>1. iter' \in 0 .. End
    BY <1>3, TimersAreNaturals DEF EndPulse
  <2> QED BY <1>3, <2>1 DEF EndPulse, TypeOK, manager, fields
<1>4. ASSUME NEW t \in Timer, VisitSilent(t) \/ VisitEarly(t)
      PROVE  TypeOK'
  BY <1>4, KeepOrDropTypeOK DEF VisitSilent, VisitEarly, TypeOK, fields, time
<1>5. ASSUME NEW t \in Timer, Fire(t)
      PROVE  TypeOK'
  <2>1. calls' \in 0 .. VMs /\ uiNow' \in Time
    BY <1>5, Bounds DEF Fire, TypeOK
  <2>2. since' \in [Timer -> 0 .. Modulus]
    BY <1>5, Bounds DEF Fire, TypeOK
  <2>3. fired' \in [Timer -> Nat]
    BY <1>5 DEF Fire, TypeOK
  <2> QED BY <1>5, <2>1, <2>2, <2>3 DEF Fire, TypeOK, manager, fields
<1>6. ASSUME NEW t \in Timer, Return(t)
      PROVE  TypeOK'
  <2>1. Keep(t) \/ Drop(t)
    BY <1>6 DEF Return
  <2>2. calls' \in 0 .. VMs /\ broken' \in BOOLEAN
    BY <1>6, Bounds DEF Return
  <2>3. lastPulse' \in [Timer -> Time] /\ left' \in [Timer -> Nat]
    BY <1>6 DEF Return, TypeOK
  <2> QED BY <1>6, <2>1, <2>2, <2>3, KeepOrDropTypeOK DEF Return, TypeOK, time
<1> QED BY <1>1, <1>2, <1>3, <1>4, <1>5, <1>6 DEF MainLoop

LEMMA TickTypeOK == TypeOK /\ Tick => TypeOK'
<1> SUFFICES ASSUME TypeOK, Tick PROVE TypeOK'
  OBVIOUS
<1>1. clock \in Nat /\ clock + 1 \in Nat
  BY DEF TypeOK, Time
<1>2. clock' \in Time
  BY <1>1, WrappedIsTime DEF Tick
<1>3. since' \in [Timer -> 0 .. Modulus]
  BY Bounds DEF Tick, TypeOK
<1> QED BY <1>2, <1>3 DEF Tick, TypeOK, manager, fields, pulse

LEMMA InitTypeOK == Init => TypeOK
<1>1. /\ Zero \in [Timer -> Nat] /\ Zero \in [Timer -> Time]
      /\ Zero \in [Timer -> 0 .. Modulus]
  BY Bounds DEF Zero
<1>2. No \in [Timer -> BOOLEAN]
  BY DEF No
<1>3. 0 \in 0 .. MaxTimers /\ 0 \in 0 .. VMs /\ 0 \in 0 .. MaxActs
  BY Bounds
<1> QED BY <1>1, <1>2, <1>3, Bounds, TimersAreNaturals DEF Init, TypeOK

LEMMA NextTypeOK == TypeOK /\ [Next]_vars => TypeOK'
<1>1. TypeOK /\ UNCHANGED vars => TypeOK'
  BY DEF TypeOK, vars, manager, fields, pulse, time
<1> QED BY <1>1, ScriptTypeOK, MainLoopTypeOK, TickTypeOK DEF Next

(* The variables keep their types: in particular the clock and all that is *)
(* read from it stay within its width, and the iterator stays in range.    *)
THEOREM TypeCorrect == Spec => []TypeOK
BY InitTypeOK, NextTypeOK, PTL DEF Spec
-----------------------------------------------------------------------------
(* The iterator, with careful scripts.                                     *)

HeldInv == TypeOK /\ CallsOnTimer /\ IteratorHeld

LEMMA NextCallsOnTimer ==
  TypeOK /\ CallsOnTimer /\ [Next]_vars => CallsOnTimer'
<1> SUFFICES ASSUME TypeOK, CallsOnTimer, [Next]_vars PROVE CallsOnTimer'
  OBVIOUS
<1>1. CASE UNCHANGED vars
  BY <1>1 DEF CallsOnTimer, vars, pulse
<1>2. CASE Script
  BY <1>2 DEF Script, Create, Start, Pause, Resume, Stop, CallsOnTimer, pulse
<1>3. CASE BeginPulse \/ EndPulse
  BY <1>3, TimersAreNaturals, Bounds
     DEF BeginPulse, EndPulse, CallsOnTimer, TypeOK
<1>4. CASE NextVM
  BY <1>4 DEF NextVM, CallsOnTimer, TypeOK
<1>5. ASSUME NEW t \in Timer,
             VisitSilent(t) \/ VisitEarly(t) \/ Fire(t) \/ Return(t)
      PROVE  CallsOnTimer'
  BY <1>5 DEF VisitSilent, VisitEarly, Visit, Fire, Return, CallsOnTimer
<1>6. CASE Tick
  BY <1>6 DEF Tick, CallsOnTimer, pulse
<1> QED BY <1>1, <1>2, <1>3, <1>4, <1>5, <1>6 DEF Next, MainLoop

LEMMA NextIteratorHeld ==
  ASSUME Careful, HeldInv, [Next]_vars
  PROVE  IteratorHeld'
<1> USE DEF HeldInv
<1>1. CASE UNCHANGED vars
  BY <1>1 DEF IteratorHeld, vars, pulse, manager
<1>2. ASSUME NEW i \in Interval, NEW n \in Repeating, Create(i, n)
      PROVE  IteratorHeld'
  BY <1>2 DEF Create, IteratorHeld, pulse
<1>3. ASSUME NEW t \in Timer, Start(t) \/ Pause(t) \/ Resume(t)
      PROVE  IteratorHeld'
  BY <1>3 DEF Start, Pause, Resume, Using, IteratorHeld, manager, pulse
<1>4. ASSUME NEW t \in Timer, Stop(t)
      PROVE  IteratorHeld'
  BY <1>4 DEF Stop, Using, IteratorHeld, pulse
<1>5. CASE BeginPulse
  <2>1. After(0, list) \in list \cup {End}
    BY AfterIsHeld DEF TypeOK
  <2> QED BY <1>5, <2>1 DEF BeginPulse, IteratorHeld, manager
<1>6. CASE NextVM \/ EndPulse \/ Tick
  BY <1>6 DEF NextVM, EndPulse, Tick, IteratorHeld, manager, pulse
<1>7. ASSUME NEW t \in Timer, VisitSilent(t) \/ VisitEarly(t) \/ Return(t)
      PROVE  IteratorHeld'
  <2>1. Keep(t) \/ Drop(t)
    BY <1>7 DEF VisitSilent, VisitEarly, Return
  <2>2. iter' \in list' \cup {End}
    BY <2>1, KeepOrDropTypeOK
  <2>3. list' = live'
    BY <2>1 DEF Keep, Drop, manager, IteratorHeld
  <2>4. ~ broken'
    BY <1>7, TimersAreNaturals
       DEF VisitSilent, VisitEarly, Return, IteratorHeld
  <2> QED BY <2>2, <2>3, <2>4 DEF IteratorHeld
<1>8. ASSUME NEW t \in Timer, Fire(t)
      PROVE  IteratorHeld'
  BY <1>8 DEF Fire, IteratorHeld, manager
<1> QED BY <1>1, <1>2, <1>3, <1>4, <1>5, <1>6, <1>7, <1>8
        DEF Next, Script, MainLoop

LEMMA InitHeld == Init => HeldInv
BY InitTypeOK DEF Init, HeldInv, CallsOnTimer, IteratorHeld

(* Scripts that stop no timer in its own callback, and let go of a timer   *)
(* that is gone, never make CTimerManager::Pulse step from, or call into,  *)
(* a timer that was freed - whatever else a callback creates, stops or     *)
(* pauses in the middle of the loop.                                       *)
THEOREM IteratorStays == Careful => (Spec => []IteratorHeld)
<1>1. ASSUME Careful PROVE HeldInv /\ [Next]_vars => HeldInv'
  BY <1>1, NextTypeOK, NextCallsOnTimer, NextIteratorHeld DEF HeldInv
<1>2. HeldInv => IteratorHeld
  BY DEF HeldInv
<1> SUFFICES ASSUME Careful PROVE Spec => []IteratorHeld
  OBVIOUS
<1>3. HeldInv /\ [Next]_vars => HeldInv'
  BY <1>1
<1> QED BY <1>2, <1>3, InitHeld, PTL DEF Spec
-----------------------------------------------------------------------------
(* The counts.                                                             *)

(* Nothing is known of a timer before it is created.                       *)
Unborn ==
  /\ \A t \in live : t <= created
  /\ \A t \in Timer : t > created => fired[t] = 0 /\ ~ running[t]

Firing(t) == iter = t /\ calls > 0

(* While its callback runs, a timer has fired once more than it has been   *)
(* counted down.                                                           *)
CountOf(t) ==
  /\ reps[t] = 0 => left[t] = 0 /\ fired[t] = 0
  /\ reps[t] > 0 /\ t \in live =>
       /\ left[t] > 0
       /\ left[t] + fired[t] = reps[t] + (IF Firing(t) THEN 1 ELSE 0)
  /\ t \notin live =>
       /\ fired[t] <= reps[t]
       /\ t <= created /\ ~ Silent(t) => reps[t] > 0 /\ fired[t] = reps[t]

CountInv == HeldInv /\ Unborn /\ \A t \in Timer : CountOf(t)

LEMMA InitCount == Init => CountInv
<1> SUFFICES ASSUME Init PROVE CountInv
  OBVIOUS
<1>1. ASSUME NEW t \in Timer
      PROVE  /\ fired[t] = 0 /\ reps[t] = 0 /\ left[t] = 0
             /\ ~ running[t] /\ t \notin live
  BY DEF Init, Zero, No
<1>2. ASSUME NEW t \in Timer PROVE CountOf(t)
  <2>1. Silent(t)
    BY <1>1 DEF Silent
  <2> QED BY <1>1, <2>1 DEF CountOf
<1> QED BY <1>1, <1>2, InitHeld DEF Init, CountInv, Unborn

(* A timer that nothing is done to keeps its count.                        *)
LEMMA CountKept ==
  ASSUME CountInv, NEW t \in Timer,
         reps'[t] = reps[t], left'[t] = left[t], fired'[t] = fired[t],
         t \in live' <=> t \in live,
         t \notin live /\ t <= created' /\ ~ Silent(t)'
           => t <= created /\ ~ Silent(t),
         Firing(t)' <=> Firing(t)
  PROVE  CountOf(t)'
BY DEF CountInv, CountOf

LEMMA CreateCount ==
  ASSUME CountInv, NEW i \in Interval, NEW n \in Repeating, Create(i, n)
  PROVE  Unborn' /\ \A t \in Timer : CountOf(t)'
<1>1. PICK new \in Timer : new = created + 1 /\ created' = new
  BY Bounds DEF Create, CountInv, HeldInv, TypeOK, Timer
<1>2. created \in Nat /\ n \in Nat /\ new > created
  BY <1>1, Bounds DEF CountInv, HeldInv, TypeOK
<1>3. new \notin live /\ fired[new] = 0 /\ ~ running[new]
  BY <1>1, <1>2 DEF CountInv, Unborn
<1>4. live' = live \cup {new} /\ UNCHANGED <<fired, running, paused, pulse>>
  BY <1>1 DEF Create
<1>5. /\ left' = [left EXCEPT ![new] = n]
      /\ reps' = [reps EXCEPT ![new] = n]
  BY <1>1 DEF Create
<1>6. Unborn'
  <2>1. \A t \in live' : t <= created'
    BY <1>1, <1>2, <1>4, TimersAreNaturals
       DEF CountInv, Unborn, HeldInv, TypeOK
  <2>2. \A t \in Timer : t > created' => t > created
    BY <1>1, <1>2, TimersAreNaturals
  <2> QED BY <1>4, <2>1, <2>2 DEF CountInv, Unborn
<1>7. iter # new
  BY <1>3, TimersAreNaturals DEF CountInv, HeldInv, IteratorHeld
<1>8. CountOf(new)'
  <2>1. reps'[new] = n /\ left'[new] = n /\ fired'[new] = 0
    BY <1>3, <1>4, <1>5 DEF CountInv, HeldInv, TypeOK
  <2>2. new \in live' /\ ~ Firing(new)'
    BY <1>4, <1>7 DEF Firing, pulse
  <2> QED BY <1>2, <2>1, <2>2 DEF CountOf
<1>9. ASSUME NEW t \in Timer, t # new
      PROVE  CountOf(t)'
  <2>1. t <= created' => t <= created
    BY <1>1, <1>2, <1>9, TimersAreNaturals
  <2>2. reps'[t] = reps[t] /\ left'[t] = left[t] /\ fired'[t] = fired[t]
    BY <1>4, <1>5, <1>9 DEF CountInv, HeldInv, TypeOK
  <2>3. /\ t \in live' <=> t \in live
        /\ Silent(t)' <=> Silent(t)
        /\ Firing(t)' <=> Firing(t)
    BY <1>4, <1>9 DEF Silent, Firing, pulse
  <2> QED BY <2>1, <2>2, <2>3, CountKept
<1> QED BY <1>6, <1>8, <1>9

LEMMA ScriptActCount ==
  ASSUME Careful, CountInv, NEW t \in Timer,
         Start(t) \/ Pause(t) \/ Resume(t) \/ Stop(t)
  PROVE  Unborn' /\ \A u \in Timer : CountOf(u)'
<1>1. t \in live /\ t <= created
  BY DEF Start, Pause, Resume, Stop, Using
<1>2. created' = created /\ live' \subseteq live /\ fired' = fired
      /\ left' = left /\ reps' = reps /\ UNCHANGED pulse
  BY DEF Start, Pause, Resume, Stop, manager
<1>3. \A u \in Timer : u # t =>
        running'[u] = running[u] /\ paused'[u] = paused[u]
  BY DEF Start, Pause, Resume, Stop, CountInv, HeldInv, TypeOK
<1>4. Unborn'
  BY <1>1, <1>2, <1>3, TimersAreNaturals
     DEF CountInv, Unborn, HeldInv, TypeOK
<1>5. \A u \in Timer : Firing(u)' <=> Firing(u)
  BY <1>2 DEF Firing, pulse
<1>6. ASSUME NEW u \in Timer, u # t
      PROVE  CountOf(u)'
  <2>1. u \in live' <=> u \in live
    BY <1>6 DEF Start, Pause, Resume, Stop, manager
  <2> QED BY <1>2, <1>3, <1>5, <1>6, <2>1, CountKept DEF Silent
<1>7. CountOf(t)'
  <2>1. CASE Stop(t)
    <3>1. t \notin live' /\ Silent(t)'
      BY <2>1 DEF Stop, Silent, CountInv, HeldInv, TypeOK
    <3>2. ~ Firing(t)
      BY <2>1 DEF Stop, Firing
    <3>3. fired[t] \in Nat /\ left[t] \in Nat /\ reps[t] \in Nat
      BY DEF CountInv, HeldInv, TypeOK
    <3>4. fired[t] <= reps[t]
      BY <1>1, <3>2, <3>3 DEF CountInv, CountOf
    <3> QED BY <1>2, <3>1, <3>4 DEF CountInv, CountOf
  <2>2. CASE Start(t) \/ Pause(t) \/ Resume(t)
    <3>1. live' = live
      BY <2>2 DEF Start, Pause, Resume, manager
    <3> QED BY <1>1, <1>2, <1>5, <3>1, CountKept
  <2> QED BY <2>1, <2>2
<1> QED BY <1>4, <1>6, <1>7

LEMMA FireCount ==
  ASSUME CountInv, NEW t \in Timer, Fire(t)
  PROVE  Unborn' /\ \A u \in Timer : CountOf(u)'
<1>1. t \in live /\ ~ Firing(t) /\ Firing(t)'
  BY TimersAreNaturals, Bounds
     DEF Fire, Visit, Firing, CountInv, HeldInv, IteratorHeld
<1>2. Unborn'
  <2>1. t <= created
    BY <1>1 DEF CountInv, Unborn
  <2>2. \A u \in Timer : u > created => u # t
    BY <2>1, TimersAreNaturals DEF CountInv, HeldInv, TypeOK
  <2> QED BY <2>2 DEF Fire, CountInv, Unborn, manager, fields, HeldInv, TypeOK
<1>3. ASSUME NEW u \in Timer, u # t
      PROVE  CountOf(u)'
  <2>1. fired'[u] = fired[u] /\ ~ Firing(u) /\ ~ Firing(u)'
    BY <1>3 DEF Fire, Firing, CountInv, HeldInv, TypeOK
  <2> QED BY <1>3, <2>1, CountKept DEF Fire, Silent, manager, fields
<1>4. CountOf(t)'
  <2>1. fired[t] \in Nat /\ left[t] \in Nat /\ reps[t] \in Nat
    BY DEF CountInv, HeldInv, TypeOK
  <2>2. fired'[t] = IF reps[t] = 0 THEN fired[t] ELSE fired[t] + 1
    BY DEF Fire, CountInv, HeldInv, TypeOK
  <2>3. reps' = reps /\ left' = left /\ live' = live
    BY DEF Fire, manager, fields
  <2> QED BY <1>1, <2>1, <2>2, <2>3 DEF CountInv, CountOf
<1> QED BY <1>2, <1>3, <1>4

(* The timer the iterator stands on is kept, or dropped when it is silent  *)
(* or has fired often enough.                                              *)
LEMMA VisitCount ==
  ASSUME CountInv, NEW t \in Timer, VisitSilent(t) \/ VisitEarly(t)
  PROVE  Unborn' /\ \A u \in Timer : CountOf(u)'
<1>1. /\ created' = created /\ UNCHANGED <<fields, fired, reps>>
      /\ calls = 0 /\ calls' = 0
  BY DEF VisitSilent, VisitEarly, Visit, Keep, Drop, manager
<1>2. \A u \in Timer : ~ Firing(u) /\ ~ Firing(u)'
  BY <1>1 DEF Firing
<1>3. live' \subseteq live /\ \A u \in Timer : u # t => (u \in live' <=> u \in live)
  BY DEF VisitSilent, VisitEarly, Keep, Drop, manager
<1>4. Unborn'
  BY <1>1, <1>3 DEF CountInv, Unborn, fields
<1>5. ASSUME NEW u \in Timer, u \in live' <=> u \in live
      PROVE  CountOf(u)'
  <2>1. Silent(u)' <=> Silent(u)
    BY <1>1 DEF Silent, fields
  <2> QED BY <1>1, <1>2, <1>5, <2>1, CountKept DEF fields
<1>6. ASSUME VisitSilent(t), t \in live
      PROVE  CountOf(t)'
  <2>1. Silent(t)' /\ t \notin live'
    BY <1>1, <1>6 DEF VisitSilent, Drop, Silent, fields
  <2>2. fired[t] \in Nat /\ left[t] \in Nat /\ reps[t] \in Nat
    BY DEF CountInv, HeldInv, TypeOK
  <2>3. fired[t] <= reps[t]
    BY <1>2, <1>6, <2>2 DEF CountInv, CountOf
  <2> QED BY <1>1, <2>1, <2>3 DEF CountInv, CountOf, fields
<1>7. CountOf(t)'
  <2>1. VisitEarly(t) => live' = live
    BY DEF VisitEarly, Keep, manager
  <2> QED BY <1>3, <1>5, <1>6, <2>1
<1> QED BY <1>3, <1>4, <1>5, <1>7

LEMMA ReturnCount ==
  ASSUME CountInv, NEW t \in Timer, Return(t)
  PROVE  Unborn' /\ \A u \in Timer : CountOf(u)'
<1>1. /\ created' = created /\ UNCHANGED <<fired, reps, paused, running>>
      /\ calls = 1 /\ calls' = 0 /\ iter = t
  BY DEF Return, Keep, Drop, manager
<1>2. t \in live /\ Firing(t)
  BY <1>1, TimersAreNaturals DEF CountInv, HeldInv, IteratorHeld, Firing
<1>3. /\ \A u \in Timer : ~ Firing(u)'
      /\ \A u \in Timer : u # t => ~ Firing(u)
  BY <1>1 DEF Firing
<1>4. /\ live' \subseteq live
      /\ \A u \in Timer : u # t => (u \in live' <=> u \in live)
  BY DEF Return, Keep, Drop, manager
<1>5. Unborn'
  BY <1>1, <1>4 DEF CountInv, Unborn
<1>6. ASSUME NEW u \in Timer, u # t
      PROVE  CountOf(u)'
  <2>1. left'[u] = left[u]
    BY <1>6 DEF Return, CountInv, HeldInv, TypeOK
  <2>2. Silent(u)' <=> Silent(u)
    BY <1>1 DEF Silent
  <2> QED BY <1>1, <1>3, <1>4, <1>6, <2>1, <2>2, CountKept
<1>7. CountOf(t)'
  <2>1. fired[t] \in Nat /\ left[t] \in Nat /\ reps[t] \in Nat
    BY DEF CountInv, HeldInv, TypeOK
  <2>2. left'[t] = IF left[t] > 0 THEN left[t] - 1 ELSE left[t]
    BY DEF Return, CountInv, HeldInv, TypeOK
  <2>3. IF left[t] = 1 THEN t \notin live' ELSE t \in live'
    BY <1>2 DEF Return, Last, Keep, Drop, manager
  <2>4. CASE reps[t] = 0
    BY <1>1, <1>2, <2>2, <2>3, <2>4 DEF CountInv, CountOf
  <2>5. CASE reps[t] > 0
    <3>1. left[t] > 0 /\ left[t] + fired[t] = reps[t] + 1
      BY <1>2, <2>5 DEF CountInv, CountOf
    <3>2. left'[t] + fired[t] = reps[t] /\ left'[t] \in Nat
      <4>1. left'[t] = left[t] - 1
        BY <2>2, <3>1
      <4>2. \A l, f, r \in Nat :
              l > 0 /\ l + f = r + 1 => l - 1 + f = r /\ l - 1 \in Nat
        OBVIOUS
      <4> QED BY <2>1, <3>1, <4>1, <4>2
    <3>3. IF left'[t] = 0 THEN t \notin live' ELSE t \in live'
      BY <2>1, <2>2, <2>3, <3>1
    <3> QED BY <1>1, <1>3, <2>1, <2>5, <3>2, <3>3 DEF CountOf
  <2> QED BY <2>1, <2>4, <2>5
<1> QED BY <1>5, <1>6, <1>7

LEMMA NextCount ==
  ASSUME Careful, CountInv, [Next]_vars
  PROVE  CountInv'
<1>1. HeldInv'
  BY NextTypeOK, NextCallsOnTimer, NextIteratorHeld DEF CountInv, HeldInv
<1> SUFFICES Unborn' /\ \A t \in Timer : CountOf(t)'
  BY <1>1 DEF CountInv
<1>2. ASSUME UNCHANGED <<live, created, running, paused, left, reps, fired>>,
             \A t \in Timer : Firing(t)' <=> Firing(t)
      PROVE  Unborn' /\ \A t \in Timer : CountOf(t)'
  <2>1. \A t \in Timer : Silent(t)' <=> Silent(t)
    BY <1>2 DEF Silent
  <2>2. \A t \in Timer : CountOf(t)'
    BY <1>2, <2>1, CountKept
  <2> QED BY <1>2, <2>2 DEF CountInv, Unborn
<1>3. CASE UNCHANGED vars \/ Tick
  BY <1>2, <1>3 DEF vars, Tick, manager, fields, pulse, Firing
<1>4. CASE BeginPulse \/ EndPulse
  <2>1. \A t \in Timer : ~ Firing(t) /\ ~ Firing(t)'
    BY <1>4, TimersAreNaturals
       DEF BeginPulse, EndPulse, Firing, CountInv, HeldInv, CallsOnTimer, TypeOK
  <2> QED BY <1>2, <1>4, <2>1 DEF BeginPulse, EndPulse, manager, fields
<1>5. CASE NextVM
  <2>1. \A t \in Timer : Firing(t)' <=> Firing(t)
    BY <1>5 DEF NextVM, Firing, CountInv, HeldInv, TypeOK
  <2> QED BY <1>2, <1>5, <2>1 DEF NextVM, manager, fields
<1> QED BY <1>3, <1>4, <1>5, CreateCount, ScriptActCount, VisitCount,
           FireCount, ReturnCount DEF Next, Script, MainLoop

(* With careful scripts, a timer asked to fire n times never fires more    *)
(* often, and one that was neither paused nor stopped, nor left unstarted, *)
(* is gone only once it has fired n times - and never, if no n was asked   *)
(* for - for every n, whatever the callbacks do to other timers.           *)
THEOREM CountsExact == Careful => (Spec => []FiresExactly)
<1> SUFFICES ASSUME Careful PROVE Spec => []FiresExactly
  OBVIOUS
<1>1. CountInv /\ [Next]_vars => CountInv'
  BY NextCount
<1>2. CountInv => FiresExactly
  <2> SUFFICES ASSUME CountInv, NEW t \in 1 .. created
               PROVE  /\ fired[t] <= reps[t]
                      /\ t \notin live /\ ~ Silent(t)
                           => reps[t] > 0 /\ fired[t] = reps[t]
    BY DEF FiresExactly
  <2>1. t \in Timer /\ t <= created /\ CountOf(t)
    BY Bounds DEF CountInv, HeldInv, TypeOK, Timer
  <2>2. fired[t] \in Nat /\ left[t] \in Nat /\ reps[t] \in Nat
    BY <2>1 DEF CountInv, HeldInv, TypeOK
  <2> QED BY <2>1, <2>2 DEF CountOf
<1> QED BY <1>1, <1>2, InitCount, PTL DEF Spec
-----------------------------------------------------------------------------
(* The gaps.                                                               *)

(* The time from which since[t] is counted: of the firing that is under    *)
(* way, or of the last one.                                                *)
From(t) == IF Firing(t) THEN uiNow ELSE lastPulse[t]

(* Less than a turn of the clock ago, up to the clock or once round it.    *)
AgeOf(t) ==
  since[t] < Modulus => From(t) + since[t] \in {clock, clock + Modulus}

GapInv == TypeOK /\ CallsOnTimer /\ \A t \in Timer : AgeOf(t)

LEMMA InitGap == Init => GapInv
<1> SUFFICES ASSUME Init PROVE GapInv
  OBVIOUS
<1>1. ASSUME NEW t \in Timer PROVE AgeOf(t)
  BY DEF Init, AgeOf, From, Firing, Zero
<1> QED BY <1>1, InitTypeOK DEF GapInv, CallsOnTimer, Init

LEMMA AgeKept ==
  ASSUME GapInv, NEW t \in Timer,
         From(t)' = From(t), since'[t] = since[t], clock' = clock
  PROVE  AgeOf(t)'
BY DEF GapInv, AgeOf

LEMMA TickAge ==
  ASSUME GapInv, Tick, NEW t \in Timer
  PROVE  AgeOf(t)'
<1>1. From(t)' = From(t)
  BY DEF Tick, From, Firing, fields, pulse
<1>2. /\ From(t) \in Nat /\ From(t) < Modulus
      /\ clock \in Nat /\ clock < Modulus
      /\ since[t] \in Nat /\ since[t] <= Modulus
  BY Bounds DEF GapInv, TypeOK, From, Time
<1>3. since'[t] = IF since[t] < Modulus THEN since[t] + 1 ELSE Modulus
  BY DEF Tick
<1>4. clock' = IF clock + 1 = Modulus THEN 0 ELSE clock + 1
  <2>1. \A m \in Nat \ {0} : \A c \in 0 .. m - 1 :
          (c + 1) % m = IF c + 1 = m THEN 0 ELSE c + 1
    OBVIOUS
  <2>2. Modulus \in Nat \ {0} /\ clock \in 0 .. Modulus - 1
    BY <1>2, Bounds
  <2> QED BY <2>1, <2>2 DEF Tick
<1>5. since[t] < Modulus => From(t) + since[t] \in {clock, clock + Modulus}
  BY DEF GapInv, AgeOf
<1>6. since'[t] < Modulus => From(t) + since'[t] \in {clock', clock' + Modulus}
  <2>1. \A f, m, c, s \in Nat :
          /\ f < m /\ c < m /\ s + 1 < m
          /\ f + s = c \/ f + s = c + m
          => \/ c + 1 = m /\ f + (s + 1) = 0 + m
             \/ c + 1 # m /\ f + (s + 1) = c + 1
             \/ c + 1 # m /\ f + (s + 1) = c + 1 + m
    OBVIOUS
  <2> SUFFICES ASSUME since'[t] < Modulus
               PROVE  From(t) + since'[t] \in {clock', clock' + Modulus}
    OBVIOUS
  <2>2. since[t] < Modulus /\ since'[t] = since[t] + 1
        /\ since[t] + 1 < Modulus
    BY <1>2, <1>3, Bounds
  <2>3. From(t) + since[t] = clock \/ From(t) + since[t] = clock + Modulus
    BY <1>5, <2>2
  <2> QED BY <1>2, <1>4, <2>1, <2>2, <2>3, Bounds
<1> QED BY <1>1, <1>6 DEF AgeOf

LEMMA NextGap == GapInv /\ [Next]_vars => GapInv'
<1> SUFFICES ASSUME GapInv, [Next]_vars
             PROVE  \A t \in Timer : AgeOf(t)'
  BY NextTypeOK, NextCallsOnTimer DEF GapInv
<1>1. ASSUME UNCHANGED <<iter, calls, uiNow, lastPulse, since, clock>>
      PROVE  \A t \in Timer : AgeOf(t)'
  BY <1>1, AgeKept DEF From, Firing
<1>2. CASE UNCHANGED vars \/ Script
  BY <1>1, <1>2 DEF vars, Script, Create, Start, Pause, Resume, Stop, fields,
                    pulse, time
<1>3. CASE BeginPulse \/ EndPulse
  <2>1. \A t \in Timer : ~ Firing(t) /\ ~ Firing(t)'
    BY <1>3, TimersAreNaturals
       DEF BeginPulse, EndPulse, Firing, GapInv, CallsOnTimer, TypeOK
  <2> QED BY <1>3, <2>1, AgeKept DEF BeginPulse, EndPulse, From, fields
<1>4. CASE NextVM
  <2>1. \A t \in Timer : Firing(t)' <=> Firing(t)
    BY <1>4 DEF NextVM, Firing, GapInv, TypeOK
  <2> QED BY <1>4, <2>1, AgeKept DEF NextVM, From, fields, time
<1>5. ASSUME NEW u \in Timer, VisitSilent(u) \/ VisitEarly(u)
      PROVE  \A t \in Timer : AgeOf(t)'
  <2>1. calls = 0 /\ calls' = 0 /\ UNCHANGED <<lastPulse, since, clock>>
    BY <1>5 DEF VisitSilent, VisitEarly, Visit, fields, time
  <2>2. \A t \in Timer : ~ Firing(t) /\ ~ Firing(t)'
    BY <2>1 DEF Firing
  <2> QED BY <2>1, <2>2, AgeKept DEF From
<1>6. ASSUME NEW u \in Timer, Fire(u), NEW t \in Timer
      PROVE  AgeOf(t)'
  <2>1. iter' = iter /\ iter = u /\ calls = 0 /\ calls' > 0 /\ uiNow' = clock
        /\ lastPulse' = lastPulse /\ clock' = clock
    BY <1>6, Bounds DEF Fire, Visit, fields
  <2>2. CASE t = u
    <3>1. From(t)' = clock /\ since'[t] = 0
      BY <1>6, <2>1, <2>2 DEF From, Firing, Fire, GapInv, TypeOK
    <3>2. clock \in Nat
      BY DEF GapInv, TypeOK, Time
    <3> QED BY <2>1, <3>1, <3>2 DEF AgeOf
  <2>3. CASE t # u
    <3>1. From(t)' = From(t) /\ since'[t] = since[t]
      BY <1>6, <2>1, <2>3 DEF From, Firing, Fire, GapInv, TypeOK
    <3> QED BY <2>1, <3>1, AgeKept
  <2> QED BY <2>2, <2>3
<1>7. ASSUME NEW u \in Timer, Return(u), NEW t \in Timer
      PROVE  AgeOf(t)'
  <2>1. calls = 1 /\ calls' = 0 /\ iter = u /\ UNCHANGED <<since, clock>>
        /\ lastPulse' = [lastPulse EXCEPT ![u] = uiNow]
    BY <1>7 DEF Return, time
  <2>2. From(t)' = From(t)
    BY <2>1 DEF From, Firing, GapInv, TypeOK
  <2> QED BY <2>1, <2>2, AgeKept
<1>8. CASE Tick
  BY <1>8, TickAge
<1> QED BY <1>2, <1>3, <1>4, <1>5, <1>6, <1>7, <1>8 DEF Next, MainLoop

(* The time between two firings of a timer is never less than its          *)
(* interval, with any width of the clock and whatever scripts do, as long  *)
(* as the next firing is due before the clock's end.                       *)
THEOREM GapsKept == Spec => GapKept
<1>1. GapInv /\ [Next]_vars
      => [\A t \in Timer :
           /\ iter = t /\ calls = 0 /\ calls' > 0
           /\ lastPulse[t] + interval[t] < Modulus
           => since[t] >= interval[t]]_vars
  <2> SUFFICES ASSUME GapInv, Next, NEW t \in Timer,
                      iter = t, calls = 0, calls' > 0,
                      lastPulse[t] + interval[t] < Modulus
               PROVE  since[t] >= interval[t]
    OBVIOUS
  <2>1. Fire(t)
    <3>1. calls' # calls /\ calls' # 0 /\ ~ (calls > 1) /\ calls # 1
      BY DEF GapInv, TypeOK
    <3>2. ~ Script /\ ~ Tick
      BY <3>1 DEF Script, Create, Start, Pause, Resume, Stop, Tick, pulse
    <3>3. ~ BeginPulse /\ ~ EndPulse /\ ~ NextVM
      BY <3>1 DEF BeginPulse, EndPulse, NextVM
    <3>4. ASSUME NEW u \in Timer
          PROVE  ~ VisitSilent(u) /\ ~ VisitEarly(u) /\ ~ Return(u)
      BY <3>1 DEF VisitSilent, VisitEarly, Return
    <3>5. PICK u \in Timer : Fire(u)
      BY <3>2, <3>3, <3>4 DEF Next, MainLoop
    <3>6. u = t
      BY <3>5 DEF Fire
    <3> QED BY <3>5, <3>6
  <2>2. /\ lastPulse[t] \in Nat /\ interval[t] \in Nat
        /\ clock \in Nat /\ clock < Modulus /\ since[t] \in Nat
        /\ since[t] <= Modulus
        /\ interval[t] < Modulus
    BY Bounds DEF GapInv, TypeOK, Time
  <2>3. (lastPulse[t] + interval[t]) % Modulus = lastPulse[t] + interval[t]
    <3>1. \A m \in Nat \ {0} : \A c \in 0 .. m - 1 : c % m = c
      OBVIOUS
    <3>2. /\ Modulus \in Nat \ {0}
          /\ lastPulse[t] + interval[t] \in 0 .. Modulus - 1
      BY <2>2, Bounds
    <3> QED BY ONLY <3>1, <3>2
  <2>4. clock >= lastPulse[t] + interval[t]
    BY <2>1, <2>3 DEF Fire, Due
  <2>5. since[t] < Modulus =>
          lastPulse[t] + since[t] \in {clock, clock + Modulus}
    BY DEF GapInv, AgeOf, From, Firing
  <2> QED BY <2>2, <2>4, <2>5, Bounds
<1> QED BY <1>1, InitGap, NextGap, PTL DEF Spec, GapKept
=============================================================================
