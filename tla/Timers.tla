------------------------------- MODULE Timers -------------------------------
(***************************************************************************)
(* The timers of the server: scripts create, start, pause, resume and stop *)
(* them, and the main loop pulses them all once a lap.  The callback of a  *)
(* timer that is due runs in the middle of the pulse, while the manager's  *)
(* iterator stands on that timer, and it may do to any timer whatever a    *)
(* script may do.                                                          *)
(*                                                                         *)
(* A timer is its place in the order of creation, which is the order of    *)
(* the manager's list too: a timer is only ever added at the end.  The     *)
(* clock is the process's own and wraps; its unit is no shorter than a lap *)
(* of the main loop, so every reading of it is seen by a whole pulse.      *)
(***************************************************************************)
EXTENDS Naturals

CONSTANTS
  MaxTimers,  \* bound: the timers ever created
  Interval,   \* the intervals scripts ask for
  Repeating,  \* the repetitions they ask for; 0: for ever
  Modulus,    \* the readings of the clock: 2^32 in the code
  VMs,        \* the script VMs: a callback is called in each of them
  Careful,    \* TRUE: scripts let go of a timer that is gone, and stop none
              \* in its own callback
  MaxActs     \* bound: the calls scripts make on timers

ASSUME TimersAssumption ==
  /\ MaxTimers \in Nat
  /\ Modulus \in Nat \ {0}
  /\ Interval \subseteq 0 .. Modulus - 1
  /\ Repeating \subseteq Nat
  /\ VMs \in Nat \ {0}
  /\ Careful \in BOOLEAN
  /\ MaxActs \in Nat

VARIABLES
  created,   \* the timers created so far
  list,      \* CTimerManager: the timers in its list
  live,      \* the timers whose memory has not been freed
  interval, left, paused, running, lastPulse,  \* the fields of CTimer
  iter,      \* the iterator of CTimerManager::Pulse; 0: no pulse under way
  calls,     \* the VMs the callback has yet to return from; 0: in none
  uiNow,     \* the time CTimer::Pulse has read
  broken,    \* freed memory has been used
  clock,     \* SharedUtility::GetTime
  lap,       \* since the clock's last tick a whole pulse is "none", "begun"
             \* or "done"
  reps,      \* history: the repetitions asked for
  fired,     \* history: the times a timer with a count has fired
  since,     \* history: the ticks since it last fired, up to Modulus
  acts

manager == <<created, list, live>>
fields == <<interval, left, paused, running, lastPulse>>
pulse == <<iter, calls, uiNow>>
time == <<clock, lap, since>>
vars == <<manager, fields, pulse, time, broken, reps, fired, acts>>

Timer == 1 .. MaxTimers
End == MaxTimers + 1
Time == 0 .. Modulus - 1

TypeOK ==
  /\ created \in 0 .. MaxTimers
  /\ list \subseteq Timer /\ live \subseteq Timer
  /\ interval \in [Timer -> Time] /\ lastPulse \in [Timer -> Time]
  /\ left \in [Timer -> Nat] /\ reps \in [Timer -> Nat]
  /\ fired \in [Timer -> Nat]
  /\ paused \in [Timer -> BOOLEAN] /\ running \in [Timer -> BOOLEAN]
  /\ iter \in 0 .. End
  /\ calls \in 0 .. VMs
  /\ uiNow \in Time /\ clock \in Time
  /\ lap \in {"none", "begun", "done"}
  /\ since \in [Timer -> 0 .. Modulus]
  /\ broken \in BOOLEAN
  /\ acts \in 0 .. MaxActs

Zero == [t \in Timer |-> 0]
No == [t \in Timer |-> FALSE]

Init ==
  /\ created = 0 /\ list = {} /\ live = {}
  /\ interval = Zero /\ left = Zero /\ lastPulse = Zero
  /\ paused = No /\ running = No
  /\ iter = 0 /\ calls = 0 /\ uiNow = 0
  /\ clock = 0 /\ lap = "none" /\ broken = FALSE
  /\ reps = Zero /\ fired = Zero /\ since = Zero
  /\ acts = 0
-----------------------------------------------------------------------------
(* Scripts: in an event handler, between two pulses, or in a callback.     *)

MayRun == ~ broken /\ (iter = 0 \/ calls > 0)

Create(i, n) ==
  /\ MayRun /\ created < MaxTimers
  /\ created' = created + 1
  /\ list' = list \cup {created'} /\ live' = live \cup {created'}
  /\ interval' = [interval EXCEPT ![created'] = i]
  /\ left' = [left EXCEPT ![created'] = n]
  /\ reps' = [reps EXCEPT ![created'] = n]
  /\ UNCHANGED <<paused, running, lastPulse, pulse, time, broken, fired, acts>>

(* A script calls a method of the handle it holds of t: the handle goes    *)
(* with a timer that is stopped and outlives one the manager has deleted;  *)
(* either way it is freed memory that is used.                             *)
Using(t) ==
  /\ MayRun /\ acts < MaxActs
  /\ t <= created
  /\ Careful => t \in live
  /\ acts' = acts + 1
  /\ broken' = (t \notin live)

Start(t) ==
  /\ Using(t)
  /\ running' = [running EXCEPT ![t] = TRUE]
  /\ UNCHANGED <<manager, interval, left, paused, lastPulse, pulse, time,
                 reps, fired>>

Pause(t) ==
  /\ Using(t)
  /\ paused' = [paused EXCEPT ![t] = TRUE]
  /\ UNCHANGED <<manager, interval, left, running, lastPulse, pulse, time,
                 reps, fired>>

Resume(t) ==
  /\ Using(t)
  /\ paused' = [paused EXCEPT ![t] = FALSE]
  /\ UNCHANGED <<manager, interval, left, running, lastPulse, pulse, time,
                 reps, fired>>

(* A mutant: the timer is freed and stays in the manager's list.           *)
StopUnlisted(t) ==
  /\ Using(t)
  /\ Careful => iter # t
  /\ running' = [running EXCEPT ![t] = FALSE]
  /\ live' = live \ {t}
  /\ UNCHANGED <<created, list, interval, left, paused, lastPulse, pulse, time,
                 reps, fired>>

Stop(t) ==
  /\ Using(t)
  /\ Careful => iter # t
  /\ running' = [running EXCEPT ![t] = FALSE]
  /\ list' = list \ {t} /\ live' = live \ {t}
  /\ UNCHANGED <<created, interval, left, paused, lastPulse, pulse, time,
                 reps, fired>>
-----------------------------------------------------------------------------
(* The main loop.                                                          *)

Least(S) == CHOOSE t \in S : \A u \in S : t <= u

(* The iterator's next place in a list that is S by now.                   *)
After(t, S) ==
  LET later == {u \in S : u > t}
  IN  IF later = {} THEN End ELSE Least(later)

BeginPulse ==
  /\ ~ broken /\ iter = 0
  /\ iter' = After(0, list)
  /\ lap' = IF lap = "none" THEN "begun" ELSE lap
  /\ UNCHANGED <<manager, fields, calls, uiNow, broken, clock, since, reps,
                 fired, acts>>

Silent(t) == paused[t] \/ ~ running[t]

(* A mutant: > for >=, so that a due time at the clock's end never comes.  *)
DueAfter(t) == clock > (lastPulse[t] + interval[t]) % Modulus

Due(t) == clock >= (lastPulse[t] + interval[t]) % Modulus

(* A mutant: the pulse ends with the first timer that stays.               *)
KeepLast(t) ==
  /\ iter' = End
  /\ UNCHANGED manager

(* CTimer::Pulse has returned true, or false: then the timer is deleted    *)
(* and erased.                                                             *)
Keep(t) ==
  /\ iter' = After(t, list)
  /\ UNCHANGED manager

Drop(t) ==
  /\ live' = live \ {t} /\ list' = list \ {t}
  /\ iter' = After(t, list')
  /\ UNCHANGED created

Visit == ~ broken /\ iter \in Timer /\ calls = 0

(* A timer that is paused, or not started yet, at the pulse is deleted.    *)
VisitSilent(t) ==
  /\ Visit /\ iter = t /\ Silent(t)
  /\ Drop(t)
  /\ UNCHANGED <<fields, calls, uiNow, time, broken, reps, fired, acts>>

VisitEarly(t) ==
  /\ Visit /\ iter = t /\ ~ Silent(t) /\ ~ Due(t)
  /\ Keep(t)
  /\ UNCHANGED <<fields, calls, uiNow, time, broken, reps, fired, acts>>

(* A mutant: the time is that of the last timer that fired.                *)
FireStale(t) ==
  /\ Visit /\ iter = t /\ ~ Silent(t) /\ Due(t)
  /\ calls' = VMs
  /\ since' = [since EXCEPT ![t] = 0]
  /\ fired' = [fired EXCEPT ![t] = IF reps[t] = 0 THEN @ ELSE @ + 1]
  /\ UNCHANGED <<manager, fields, iter, uiNow, broken, clock, lap, reps, acts>>

Fire(t) ==
  /\ Visit /\ iter = t /\ ~ Silent(t) /\ Due(t)
  /\ uiNow' = clock
  /\ calls' = VMs
  /\ since' = [since EXCEPT ![t] = 0]
  /\ fired' = [fired EXCEPT ![t] = IF reps[t] = 0 THEN @ ELSE @ + 1]
  /\ UNCHANGED <<manager, fields, iter, broken, clock, lap, reps, acts>>

(* A mutant: the count is compared before it is taken down.                *)
LastTooLate(t) == reps[t] > 0 /\ left[t] = 0

Last(t) == left[t] = 1

NextVM ==
  /\ ~ broken /\ calls > 1
  /\ calls' = calls - 1
  /\ UNCHANGED <<manager, fields, iter, uiNow, time, broken, reps, fired,
                 acts>>

(* The last VM returns: the rest of CTimer::Pulse, on the timer the        *)
(* iterator stands on.                                                     *)
Return(t) ==
  /\ ~ broken /\ calls = 1 /\ iter = t
  /\ calls' = 0
  /\ lastPulse' = [lastPulse EXCEPT ![t] = uiNow]
  /\ left' = [left EXCEPT ![t] = IF @ > 0 THEN @ - 1 ELSE @]
  /\ IF Last(t) THEN Drop(t) ELSE Keep(t)
  /\ broken' = (t \notin live)
  /\ UNCHANGED <<interval, paused, running, uiNow, time, reps, fired, acts>>

EndPulse ==
  /\ ~ broken /\ iter = End
  /\ iter' = 0
  /\ lap' = IF lap = "begun" THEN "done" ELSE lap
  /\ UNCHANGED <<manager, fields, calls, uiNow, broken, clock, since, reps,
                 fired, acts>>

(* A mutant: the sum is not taken to the clock's width.                    *)
TickBeyond ==
  /\ ~ broken /\ lap = "done"
  /\ clock' = clock + 1
  /\ lap' = "none"
  /\ UNCHANGED <<manager, fields, pulse, broken, since, reps, fired, acts>>

Tick ==
  /\ ~ broken /\ lap = "done"
  /\ clock' = (clock + 1) % Modulus
  /\ lap' = "none"
  /\ since' = [t \in Timer |-> IF since[t] < Modulus THEN since[t] + 1
                                                     ELSE Modulus]
  /\ UNCHANGED <<manager, fields, pulse, broken, reps, fired, acts>>
-----------------------------------------------------------------------------
Script ==
  \/ \E i \in Interval, n \in Repeating : Create(i, n)
  \/ \E t \in Timer : Start(t) \/ Pause(t) \/ Resume(t) \/ Stop(t)

MainLoop ==
  \/ BeginPulse \/ NextVM \/ EndPulse
  \/ \E t \in Timer : VisitSilent(t) \/ VisitEarly(t) \/ Fire(t) \/ Return(t)

Next == Script \/ MainLoop \/ Tick

(* The main loop goes on, callbacks return, and time passes; scripts need  *)
(* not do anything.                                                        *)
Fairness == WF_vars(MainLoop) /\ WF_vars(Tick)

Spec == Init /\ [][Next]_vars /\ Fairness
-----------------------------------------------------------------------------
(* The iterator of a pulse stands on a timer of the list or past its end,  *)
(* and no timer in the list is freed, whatever the callback that is        *)
(* running has created, stopped or paused so far.                          *)
IteratorHeld ==
  /\ ~ broken
  /\ list = live
  /\ iter \in {0, End} \cup list

(* A timer asked to fire n times never fires more often, and unless it is  *)
(* paused, stopped or never started, it is not gone before it has fired n  *)
(* times; a timer with no count is not gone at all.                        *)
FiresExactly ==
  \A t \in 1 .. created :
    /\ fired[t] <= reps[t]
    /\ t \notin live /\ ~ Silent(t) => reps[t] > 0 /\ fired[t] = reps[t]

(* Two firings of a timer are its interval apart, unless its next one is   *)
(* due past the end of the clock: then the sum wraps, and it fires at      *)
(* every pulse until the clock wraps too.                                  *)
GapKept ==
  [][\A t \in Timer :
       /\ iter = t /\ calls = 0 /\ calls' > 0
       /\ lastPulse[t] + interval[t] < Modulus
       => since[t] >= interval[t]]_vars

(* Every timer with a count is gone at last.                               *)
CountedFinish ==
  \A t \in Timer : t \in list /\ reps[t] > 0 ~> t \notin list

(* A timer that stays fires again and again.                               *)
KeepsFiring ==
  \A t \in Timer : t \in list ~> t \notin list \/ (iter = t /\ calls > 0)
=============================================================================
