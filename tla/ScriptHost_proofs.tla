-------------------------- MODULE ScriptHost_proofs --------------------------
(***************************************************************************)
(* Proofs about ScriptHost, for any resources, events and bounds: types,   *)
(* that handlers and listed resources have the VMs they rely on, that a    *)
(* call misses no handler, and what the server's stops come from.          *)
(***************************************************************************)
EXTENDS ScriptHost, SequenceTheorems, WellFoundedInduction, TLAPS

LEMMA Bounds ==
  /\ MaxVMs \in Nat /\ MaxHandlers \in Nat
  /\ MaxDepth \in Nat /\ MaxDepth > 0
  /\ None \notin VM
  /\ Lua \subseteq Resource
  /\ ScriptLoaded \in Event /\ ResourceStarted \in Event
BY ScriptHostAssumption DEF ScriptHostAssumption, VM

(* The loop of a call goes on to the oldest of the handlers before it.     *)
LEMMA LeastIsIn ==
  ASSUME NEW S, S # {}, \A h \in S : h.id \in Nat
  PROVE  Least(S) \in S /\ \A k \in S : Least(S).id <= k.id
<1> DEFINE ids == {h.id : h \in S}
<1>1. ids \subseteq Nat /\ ids # {}
  OBVIOUS
<1>2. PICK n \in ids : \A k \in ids : ~ (<<k, n>> \in OpToRel(<, Nat))
  BY <1>1, NatLessThanWellFounded, WFMin, Zenon
<1>3. ASSUME NEW k \in ids PROVE n <= k
  <2>1. ~ (<<k, n>> \in {p \in Nat \X Nat : p[1] < p[2]})
    BY <1>2 DEF OpToRel
  <2>2. <<k, n>> \in Nat \X Nat /\ k \in Nat /\ n \in Nat
    BY <1>1
  <2> QED BY <2>1, <2>2
<1>4. \E h \in S : \A k \in S : h.id <= k.id
  BY <1>3
<1> QED BY <1>4 DEF Least

LEMMA AppendTyped ==
  ASSUME NEW S, NEW s \in Seq(S), NEW x \in S
  PROVE  LET more == Append(s, x) IN
         /\ more \in Seq(S) /\ Len(more) = Len(s) + 1
         /\ \A i \in DOMAIN more :
              (i \in DOMAIN s /\ more[i] = s[i]) \/ (i = Len(s) + 1 /\ more[i] = x)
OBVIOUS

LEMMA WithoutLast ==
  ASSUME NEW S, NEW s \in Seq(S), s # <<>>
  PROVE  LET most == SubSeq(s, 1, Len(s) - 1) IN
         /\ Len(s) \in DOMAIN s /\ s[Len(s)] \in S
         /\ most \in Seq(S) /\ Len(most) = Len(s) - 1
         /\ \A i \in DOMAIN most : i \in DOMAIN s /\ most[i] = s[i]
<1> DEFINE most == SubSeq(s, 1, Len(s) - 1)
<1>1. Len(s) \in Nat /\ Len(s) > 0 /\ DOMAIN s = 1 .. Len(s)
  OBVIOUS
<1>2. most \in Seq(S) /\ Len(most) = Len(s) - 1
  BY <1>1
<1>3. \A i \in 1 .. Len(s) - 1 : most[i] = s[i]
  BY <1>1
<1>4. s[Len(s)] \in S
  BY <1>1
<1> QED BY <1>1, <1>2, <1>3, <1>4

(* The calls under way, without the innermost one.                         *)
LEMMA TopTyped ==
  ASSUME TypeOK, frames # <<>>
  PROVE  /\ Top \in Frame /\ Below \in Seq(Frame)
         /\ Len(frames) \in DOMAIN frames
         /\ Len(Below) = Len(frames) - 1
         /\ \A i \in DOMAIN Below : i \in DOMAIN frames /\ Below[i] = frames[i]
<1>1. frames \in Seq(Frame)
  BY DEF TypeOK
<1> QED BY <1>1, WithoutLast DEF Top, Below
-----------------------------------------------------------------------------
(* The invariant.                                                          *)

(* A VM that lives is the one its resource has, and that one is listed.    *)
Attached(v) ==
  v \in DOMAIN owner /\ vmOf[owner[v]] = v /\ Listed(owner[v])

VMInv ==
  /\ \A v \in alive : Attached(v)
  /\ \A r \in Resource : vmOf[r] # None => vmOf[r] \in alive /\ owner[vmOf[r]] = r
  /\ \A r \in Resource : files[r] = 0 => vmOf[r] = None
  /\ \A r \in Resource : ~ Listed(r) => files[r] = 0
  /\ \A r \in Resource : Listed(r) /\ r \notin hollow => vmOf[r] \in alive
  /\ \A i, j \in DOMAIN listed : listed[i] = listed[j] => i = j

(* A resource that is not loaded has no VM: Stop may pass it over.         *)
LoadedInv == \A r \in Resource : vmOf[r] # None => r \in loaded

HandlerInv ==
  \A h \in handlers :
    /\ h.vm \in DOMAIN owner /\ h.id <= added
    /\ owner[h.vm] \notin Lua => h.vm \in alive

(* While the server runs, so do the scripts that have been called.         *)
FrameInv ==
  stopped = "no" =>
    \A i \in DOMAIN frames : frames[i].in # None => frames[i].in \in alive

HostInv ==
  TypeOK /\ VMInv /\ LoadedInv /\ HandlerInv /\ FrameInv /\ StopsExplained

LEMMA HostInit == Init => HostInv
<1> SUFFICES ASSUME Init PROVE HostInv
  OBVIOUS
<1>1. TypeOK
  BY Bounds DEF Init, TypeOK
<1>2. VMInv
  BY DEF Init, VMInv, Listed
<1> QED BY <1>1, <1>2
       DEF Init, HostInv, LoadedInv, HandlerInv, FrameInv, StopsExplained

(* The script that runs has a VM that lives.                               *)
LEMMA RunningLives ==
  ASSUME HostInv, MayCall
  PROVE  Running \in VM /\ Running \in alive /\ Attached(Running)
<1>1. Running # None /\ stopped = "no" /\ TypeOK
  BY DEF MayCall, HostInv
<1>2. Running \in alive
  <2>1. CASE frames # <<>>
    BY <1>1, <2>1, TopTyped DEF Running, Top, HostInv, FrameInv
  <2>2. CASE frames = <<>>
    <3>1. task \in Task
      BY <1>1, <2>2 DEF Running, TypeOK
    <3>2. Running = vmOf[task.resource] /\ task.resource \in Resource
      BY <1>1, <2>2, <3>1 DEF Running, Task
    <3> QED BY <1>1, <3>2 DEF HostInv, VMInv
  <2> QED BY <2>1, <2>2
<1> QED BY <1>1, <1>2 DEF HostInv, VMInv, TypeOK
-----------------------------------------------------------------------------
(* Calls: what they change is the frames, and with a null or freed VM the  *)
(* server stops.                                                           *)

Stop == {"no", "null_VM", "null_arguments", "null_resource", "freed_VM",
         "freed_handler", "freed_event", "freed_resource", "race"}

LEMMA CallsKeep ==
  ASSUME HostInv, UNCHANGED <<resourceVars, handlers, added>>,
         frames' \in Seq(Frame), Len(frames') <= MaxDepth,
         stopped' = "no" =>
           \A i \in DOMAIN frames' :
             frames'[i].in # None => frames'[i].in \in alive,
         ran' \in [VM -> Nat], task' \in Task \cup {None},
         stopped' \in Stop,
         stopped' = "freed_VM" => Dangling(handlers),
         stopped' = "null_VM" => NullBefore
  PROVE  HostInv'
<1>1. TypeOK'
  BY DEF HostInv, TypeOK, resourceVars, Stop
<1>2. VMInv' /\ LoadedInv' /\ HandlerInv' /\ FrameInv'
  BY DEF HostInv, VMInv, LoadedInv, HandlerInv, FrameInv, resourceVars,
         Attached, Listed
<1>3. StopsExplained'
  <2>1. Dangling(handlers) =>
          \E h \in handlers : owner[h.vm] \in Lua /\ h.vm \notin alive
    BY DEF Dangling, HostInv, HandlerInv
  <2>2. NullBefore => hollow # {}
    <3> SUFFICES ASSUME NEW i \in DOMAIN listed, vmOf[listed[i]] = None
                 PROVE  listed[i] \in hollow
      BY DEF NullBefore
    <3>1. listed[i] \in Resource /\ Listed(listed[i])
      <4>1. listed \in Seq(Resource)
        BY DEF HostInv, TypeOK
      <4> QED BY <4>1 DEF Listed
    <3>2. None \notin alive
      BY Bounds DEF HostInv, TypeOK
    <3> QED BY <3>1, <3>2 DEF HostInv, VMInv
  <2> QED BY <2>1, <2>2 DEF StopsExplained, resourceVars
<1> QED BY <1>1, <1>2, <1>3 DEF HostInv

LEMMA CallTyped ==
  ASSUME HostInv, NEW e \in Event, NEW type \in Type \cup {"NATIVE"},
         NEW v \in VM \cup {None}, NEW args \in BOOLEAN,
         Call(e, type, v, args), stopped = "no"
  PROVE  /\ frames' \in Seq(Frame) /\ Len(frames') <= MaxDepth
         /\ \A i \in DOMAIN frames' :
              frames'[i].in # None => frames'[i].in \in alive
<1> DEFINE f == [event |-> e, type |-> type, vm |-> v, args |-> args,
                 at |-> 0, in |-> None, ids |-> {}]
<1>1. f \in Frame /\ f.in = None
  BY DEF Frame
<1>2. frames \in Seq(Frame) /\ frames' = Append(frames, f)
      /\ Len(frames) < MaxDepth /\ Len(frames) \in Nat
  BY DEF Call, HostInv, TypeOK
<1> HIDE DEF f
<1>3. frames' \in Seq(Frame) /\ Len(frames') = Len(frames) + 1
  BY <1>1, <1>2
<1>4. ASSUME NEW i \in DOMAIN frames', frames'[i].in # None
      PROVE  frames'[i].in \in alive
  <2>1. CASE i = Len(frames) + 1
    BY <1>1, <1>2, <1>4, <2>1
  <2>2. CASE i # Len(frames) + 1
    <3>1. i \in DOMAIN frames /\ frames'[i] = frames[i]
      BY <1>1, <1>2, <1>3, <2>2
    <3> QED BY <1>4, <3>1 DEF HostInv, FrameInv
  <2> QED BY <2>1, <2>2
<1> QED BY <1>2, <1>3, <1>4, Bounds

LEMMA ServerKeeps ==
  ASSUME HostInv, Server
  PROVE  HostInv'
<1>0. /\ TypeOK /\ FrameInv /\ ran \in [VM -> Nat] /\ task \in Task \cup {None}
      /\ \A h \in handlers : h \in Handler
  BY DEF HostInv, TypeOK
<1>1. CASE Advance
  <2> DEFINE h == Least(Ahead)
             f == [Top EXCEPT !.at = h.id, !.in = h.vm, !.ids = @ \cup {h.id}]
  <2>1. /\ stopped = "no" /\ frames # <<>> /\ Ahead # {}
        /\ frames' = Append(Below, f)
        /\ stopped' = CASE h.vm \notin alive -> "freed_VM"
                        [] h.vm \in alive /\ owner[h.vm] \in Lua /\ ~ Top.args
                             -> "null_arguments"
                        [] OTHER -> "no"
        /\ UNCHANGED <<resourceVars, ran, handlers, added, task>>
    BY <1>1 DEF Advance
  <2>2. h \in handlers /\ h.id \in Id /\ h.vm \in VM
    <3>1. Ahead \subseteq handlers /\ \A k \in Ahead : k.id \in Nat
      BY <1>0 DEF Ahead, Handler, Id
    <3>2. h \in Ahead
      BY <2>1, <3>1, LeastIsIn
    <3> QED BY <1>0, <3>1, <3>2 DEF Handler
  <2>3. /\ Top \in Frame /\ Below \in Seq(Frame)
        /\ Len(Below) = Len(frames) - 1
        /\ \A i \in DOMAIN Below : i \in DOMAIN frames /\ Below[i] = frames[i]
    BY <1>0, <2>1, TopTyped
  <2>4. f \in Frame /\ f.in = h.vm
    BY <2>2, <2>3 DEF Frame
  <2> HIDE DEF f, h
  <2>5. /\ frames' \in Seq(Frame) /\ Len(frames') = Len(frames)
        /\ \A i \in DOMAIN frames' :
             (i \in DOMAIN Below /\ frames'[i] = Below[i]) \/ frames'[i] = f
    <3>1. /\ frames' \in Seq(Frame) /\ Len(frames') = Len(Below) + 1
          /\ \A i \in DOMAIN frames' :
               (i \in DOMAIN Below /\ frames'[i] = Below[i]) \/ frames'[i] = f
      BY <2>1, <2>3, <2>4, AppendTyped
    <3>2. Len(frames) \in Nat
      BY <1>0 DEF TypeOK
    <3> QED BY <2>3, <3>1, <3>2
  <2>6. stopped' \in Stop /\ (stopped' = "freed_VM" => Dangling(handlers))
        /\ stopped' # "null_VM" /\ (stopped' = "no" => h.vm \in alive)
    BY <2>1, <2>2 DEF Stop, Dangling
  <2>7. ASSUME stopped' = "no", NEW i \in DOMAIN frames', frames'[i].in # None
        PROVE  frames'[i].in \in alive
    <3>1. CASE frames'[i] = f
      BY <2>4, <2>6, <2>7, <3>1
    <3>2. CASE i \in DOMAIN Below /\ frames'[i] = Below[i]
      BY <1>0, <2>1, <2>3, <2>7, <3>2 DEF FrameInv
    <3> QED BY <2>5, <3>1, <3>2
  <2> QED BY <1>0, <2>1, <2>5, <2>6, <2>7, CallsKeep DEF TypeOK
<1>2. CASE EndCall
  <2>1. frames # <<>> /\ frames' = Below /\ stopped = "no"
        /\ UNCHANGED <<resourceVars, ran, handlers, added, task, stopped>>
    BY <1>2 DEF EndCall
  <2>2. /\ Below \in Seq(Frame) /\ Len(Below) = Len(frames) - 1
        /\ \A i \in DOMAIN Below : i \in DOMAIN frames /\ Below[i] = frames[i]
    BY <1>0, <2>1, TopTyped
  <2>3. Len(frames') <= MaxDepth
    BY <1>0, <2>1, <2>2, Bounds DEF TypeOK
  <2>4. \A i \in DOMAIN frames' : frames'[i].in # None => frames'[i].in \in alive
    BY <1>0, <2>1, <2>2 DEF FrameInv
  <2> QED BY <1>0, <2>1, <2>2, <2>3, <2>4, CallsKeep DEF Stop
<1>3. CASE LoseCall
  BY <1>0, <1>3, CallsKeep DEF LoseCall, Stop, TypeOK
<1>4. ASSUME NEW e \in Event, CallNative(e) \/ TriggerServerEvent(e)
      PROVE  HostInv'
  <2>1. /\ stopped = "no" /\ None \in VM \cup {None} /\ TRUE \in BOOLEAN
        /\ \E type \in Type \cup {"NATIVE"} : Call(e, type, None, TRUE)
        /\ UNCHANGED <<resourceVars, ran, handlers, added, task, stopped>>
    BY <1>4 DEF CallNative, TriggerServerEvent, Resting, Type
  <2>2. /\ frames' \in Seq(Frame) /\ Len(frames') <= MaxDepth
        /\ \A i \in DOMAIN frames' :
             frames'[i].in # None => frames'[i].in \in alive
    BY <2>1, CallTyped
  <2> QED BY <1>0, <2>1, <2>2, CallsKeep DEF Stop
<1> QED BY <1>1, <1>2, <1>3, <1>4 DEF Server
-----------------------------------------------------------------------------
(* What scripts do.                                                        *)

(* The handlers that a native leaves, and perhaps one that it adds.        *)
LEMMA HandlersKeep ==
  ASSUME HostInv, stopped = "no", UNCHANGED <<resourceVars, ran, frames, task>>,
         handlers' \subseteq Handler, added' \in 0 .. MaxHandlers,
         \A h \in handlers' :
           \/ h \in handlers /\ added <= added'
           \/ h.vm \in alive /\ h.id <= added',
         stopped' \in {"no", "freed_VM"},
         stopped' = "freed_VM" => Dangling(handlers')
  PROVE  HostInv'
<1>1. TypeOK'
  BY DEF HostInv, TypeOK, resourceVars
<1>2. VMInv' /\ LoadedInv' /\ FrameInv'
  BY DEF HostInv, VMInv, LoadedInv, FrameInv, resourceVars, Attached, Listed
<1>3. HandlerInv'
  <2> SUFFICES ASSUME NEW h \in handlers'
               PROVE  /\ h.vm \in DOMAIN owner /\ h.id <= added'
                      /\ owner[h.vm] \notin Lua => h.vm \in alive
    BY DEF HandlerInv, resourceVars
  <2>1. CASE h \in handlers /\ added <= added'
    <3>1. h.id \in Nat /\ added \in Nat /\ added' \in Nat /\ h.id <= added
      BY <2>1 DEF HostInv, TypeOK, HandlerInv, Handler, Id
    <3> QED BY <2>1, <3>1 DEF HostInv, HandlerInv
  <2>2. CASE h.vm \in alive /\ h.id <= added'
    BY <2>2 DEF HostInv, VMInv, Attached
  <2> QED BY <2>1, <2>2
<1>4. StopsExplained'
  <2>1. \A h \in handlers' : h.vm \notin alive => owner[h.vm] \in Lua
    BY <1>3 DEF HandlerInv, resourceVars
  <2> QED BY <2>1 DEF StopsExplained, Dangling, resourceVars
<1> QED BY <1>1, <1>2, <1>3, <1>4 DEF HostInv

LEMMA AddKeeps ==
  ASSUME HostInv, NEW e \in Event, NEW type \in Type, NEW k \in 1 .. MaxVMs,
         AddEvent(e, type, k)
  PROVE  HostInv'
<1> DEFINE h == New(e, type, k)
<1>1. /\ MayCall /\ added < MaxHandlers
      /\ handlers' = handlers \cup {h} /\ added' = added + 1
      /\ stopped' = IF Dangling(handlers') THEN "freed_VM" ELSE "no"
      /\ UNCHANGED <<resourceVars, ran, frames, task>>
  BY DEF AddEvent
<1>2. Running \in VM /\ Running \in alive
  BY <1>1, RunningLives
<1>3. /\ added \in Nat /\ added' \in 0 .. MaxHandlers /\ added <= added'
      /\ added' \in Id
  BY <1>1, Bounds DEF HostInv, TypeOK, Id
<1>4. h \in Handler /\ h.vm \in alive /\ h.id = added'
  BY <1>1, <1>2, <1>3, Bounds DEF New, Handler
<1> HIDE DEF h
<1>5. /\ handlers' \subseteq Handler
      /\ \A g \in handlers' :
           \/ g \in handlers /\ added <= added'
           \/ g.vm \in alive /\ g.id <= added'
  BY <1>1, <1>3, <1>4, Bounds DEF HostInv, TypeOK
<1> QED BY <1>1, <1>3, <1>5, HandlersKeep DEF MayCall

LEMMA ScriptKeeps ==
  ASSUME HostInv, Script
  PROVE  HostInv'
<1>0. /\ TypeOK /\ FrameInv /\ ran \in [VM -> Nat] /\ task \in Task \cup {None}
      /\ added \in 0 .. MaxHandlers /\ added <= added
      /\ handlers \subseteq Handler
  BY Bounds DEF HostInv, TypeOK
<1>1. ASSUME NEW e \in Event, NEW type \in Type, NEW k \in 1 .. MaxVMs,
             AddEvent(e, type, k)
      PROVE  HostInv'
  BY <1>1, AddKeeps
<1>2. ASSUME NEW e \in Event,
             RemoveEvent(e) \/ \E type \in Type : RemoveTyped(e, type)
      PROVE  HostInv'
  <2>1. /\ stopped = "no" /\ handlers' \subseteq handlers
        /\ UNCHANGED <<resourceVars, ran, added, frames, task, stopped>>
    BY <1>2 DEF RemoveEvent, RemoveTyped, MayCall
  <2> QED BY <1>0, <2>1, HandlersKeep
<1>3. ASSUME NEW e \in Event, NEW type \in Type, Trigger(e, type)
      PROVE  HostInv'
  <2>1. /\ MayCall
        /\ Call(e, type, Running, FALSE) \/ Call(e, type, None, FALSE)
        /\ UNCHANGED <<resourceVars, ran, handlers, added, task, stopped>>
    BY <1>3 DEF Trigger
  <2>2. /\ Running \in VM \cup {None} /\ None \in VM \cup {None}
        /\ FALSE \in BOOLEAN /\ type \in Type \cup {"NATIVE"} /\ stopped = "no"
    BY <2>1, RunningLives DEF MayCall
  <2>3. /\ frames' \in Seq(Frame) /\ Len(frames') <= MaxDepth
        /\ \A i \in DOMAIN frames' :
             frames'[i].in # None => frames'[i].in \in alive
    BY <2>1, <2>2, CallTyped
  <2> QED BY <1>0, <2>1, <2>2, <2>3, CallsKeep DEF Stop
<1>4. CASE NullNative
  BY <1>0, <1>4, CallsKeep DEF NullNative, Stop, TypeOK
<1> QED BY <1>1, <1>2, <1>3, <1>4 DEF Script
-----------------------------------------------------------------------------
(* The commands of the console: first the list, then the VMs.              *)

LEMMA RemovedAt ==
  ASSUME NEW S, NEW s \in Seq(S), NEW i \in DOMAIN s
  PROVE  LET less == SubSeq(s, 1, i - 1) \o SubSeq(s, i + 1, Len(s)) IN
         /\ less \in Seq(S) /\ Len(less) = Len(s) - 1
         /\ \A k \in DOMAIN less : less[k] = IF k < i THEN s[k] ELSE s[k + 1]
<1> DEFINE a == SubSeq(s, 1, i - 1)
           b == SubSeq(s, i + 1, Len(s))
<1>1. i \in Nat /\ i >= 1 /\ i <= Len(s) /\ Len(s) \in Nat
  OBVIOUS
<1>2. /\ a \in Seq(S) /\ Len(a) = i - 1
      /\ \A k \in 1 .. i - 1 : a[k] = s[k]
  BY <1>1
<1>3. /\ b \in Seq(S) /\ Len(b) = Len(s) - i
      /\ \A k \in 1 .. Len(s) - i : b[k] = s[k + i]
  BY <1>1
<1> HIDE DEF a, b
<1>4. a \o b \in Seq(S) /\ Len(a \o b) = Len(s) - 1
  BY <1>1, <1>2, <1>3
<1>5. ASSUME NEW k \in 1 .. Len(s) - 1
      PROVE  (a \o b)[k] = IF k < i THEN s[k] ELSE s[k + 1]
  <2>1. CASE k < i
    BY <1>1, <1>2, <1>3, <2>1
  <2>2. CASE ~ (k < i)
    <3>1. k - (i - 1) \in 1 .. Len(s) - i
      BY <1>1, <2>2
    <3>2. b[k - (i - 1)] = s[(k - (i - 1)) + i] /\ (k - (i - 1)) + i = k + 1
      BY <1>1, <1>3, <3>1
    <3>3. (a \o b)[k] = b[k - (i - 1)]
      <4>1. k \in Len(a) + 1 .. Len(a) + Len(b) /\ Len(a) = i - 1
        BY <1>1, <1>2, <1>3, <2>2
      <4>2. k \in 1 .. Len(a) + Len(b) /\ ~ (k <= Len(a))
        BY <1>1, <1>2, <1>3, <4>1
      <4>3. (a \o b)[k] = b[k - Len(a)]
        BY <1>2, <1>3, <4>2, ConcatProperties
      <4> QED BY <4>1, <4>3
    <3> QED BY <2>2, <3>2, <3>3
  <2> QED BY <2>1, <2>2
<1> DEFINE less == a \o b
<1>6. DOMAIN less = 1 .. Len(s) - 1
  <2>1. DOMAIN less = 1 .. Len(less)
    BY <1>4
  <2> QED BY <1>4, <2>1
<1>7. less = SubSeq(s, 1, i - 1) \o SubSeq(s, i + 1, Len(s))
  BY DEF a, b
<1> QED BY <1>4, <1>5, <1>6, <1>7

(* The list and the VMs after a load or reload of r that creates a VM, or  *)
(* finds no script.                                                        *)
LEMMA StartKeeps ==
  ASSUME TypeOK, VMInv, NEW r \in Resource, LoadAndStart(r),
         listed' \in Seq(Resource),
         \A s \in Resource : Listed(s)' <=> (Listed(s) \/ s = r),
         \A i, j \in DOMAIN listed' : listed'[i] = listed'[j] => i = j
  PROVE  /\ vmOf' \in [Resource -> VM \cup {None}]
         /\ files' \in [Resource -> Nat]
         /\ owner' \in Seq(Resource) /\ Len(owner') <= MaxVMs
         /\ alive' \subseteq VM /\ hollow' \subseteq Resource
         /\ task' \in Task
         /\ VMInv'
         /\ \A v \in DOMAIN owner : v \in DOMAIN owner' /\ owner'[v] = owner[v]
         /\ alive \ {vmOf[r]} \subseteq alive'
         /\ \A v \in alive' : v \in DOMAIN owner => v \in alive
<1>0. /\ vmOf \in [Resource -> VM \cup {None}] /\ files \in [Resource -> Nat]
      /\ owner \in Seq(Resource) /\ Len(owner) \in Nat /\ alive \subseteq VM
      /\ hollow \subseteq Resource /\ MaxVMs \in Nat /\ None \notin VM
      /\ DOMAIN owner = 1 .. Len(owner)
  BY Bounds DEF TypeOK
<1>1. ASSUME Len(owner) < MaxVMs, owner' = Append(owner, r),
             alive' = (alive \ {vmOf[r]}) \cup {Len(owner')},
             vmOf' = [vmOf EXCEPT ![r] = Len(owner')],
             files' = [files EXCEPT ![r] = @ + 1], hollow' = hollow \ {r},
             task' = [resource |-> r, left |-> files'[r], step |-> "next"]
      PROVE  /\ vmOf' \in [Resource -> VM \cup {None}]
             /\ files' \in [Resource -> Nat]
             /\ owner' \in Seq(Resource) /\ Len(owner') <= MaxVMs
             /\ alive' \subseteq VM /\ hollow' \subseteq Resource
             /\ task' \in Task
             /\ VMInv'
             /\ \A v \in DOMAIN owner : v \in DOMAIN owner' /\ owner'[v] = owner[v]
             /\ alive \ {vmOf[r]} \subseteq alive'
             /\ \A v \in alive' : v \in DOMAIN owner => v \in alive
  <2> DEFINE n == Len(owner) + 1
  <2>1. /\ owner' \in Seq(Resource) /\ Len(owner') = n
        /\ owner'[n] = r /\ n \in DOMAIN owner' /\ n \notin DOMAIN owner
        /\ \A v \in DOMAIN owner : v \in DOMAIN owner' /\ owner'[v] = owner[v]
    BY <1>0, <1>1
  <2>2. n \in VM /\ n <= MaxVMs
    BY <1>0, <1>1 DEF VM
  <2> HIDE DEF n
  <2>3. /\ vmOf' \in [Resource -> VM \cup {None}] /\ vmOf'[r] = n
        /\ \A s \in Resource : s # r => vmOf'[s] = vmOf[s]
    BY <1>0, <1>1, <2>1, <2>2
  <2>4. /\ files' \in [Resource -> Nat] /\ files'[r] # 0
        /\ \A s \in Resource : s # r => files'[s] = files[s]
    BY <1>0, <1>1
  <2>5. task' \in Task
    BY <1>1, <2>4 DEF Task
  <2>6. /\ alive' = (alive \ {vmOf[r]}) \cup {n} /\ alive' \subseteq VM
        /\ n \notin alive
    BY <1>0, <1>1, <2>1, <2>2 DEF VMInv, Attached
  <2>7. ASSUME NEW v \in alive' PROVE Attached(v)'
    <3>1. CASE v = n
      BY <2>1, <2>3, <3>1 DEF Attached
    <3>2. CASE v # n
      <4>1. v \in alive /\ v # vmOf[r] /\ v \in DOMAIN owner
            /\ vmOf[owner[v]] = v /\ Listed(owner[v]) /\ owner[v] \in Resource
        BY <1>0, <2>6, <3>2 DEF VMInv, Attached
      <4>2. owner[v] # r
        BY <4>1
      <4> QED BY <2>1, <2>3, <4>1, <4>2 DEF Attached
    <3> QED BY <3>1, <3>2
  <2>8. ASSUME NEW s \in Resource, vmOf'[s] # None
        PROVE  vmOf'[s] \in alive' /\ owner'[vmOf'[s]] = s
    <3>1. CASE s = r
      BY <2>1, <2>3, <2>6, <3>1
    <3>2. CASE s # r
      <4>1. vmOf'[s] = vmOf[s] /\ vmOf[s] \in alive /\ owner[vmOf[s]] = s
        BY <2>3, <2>8, <3>2 DEF VMInv
      <4>2. vmOf[s] # vmOf[r]
        BY <1>0, <3>2, <4>1 DEF VMInv
      <4>3. vmOf[s] \in DOMAIN owner
        BY <4>1 DEF VMInv, Attached
      <4> QED BY <2>1, <2>6, <4>1, <4>2, <4>3
    <3> QED BY <3>1, <3>2
  <2>9. \A s \in Resource : files'[s] = 0 => vmOf'[s] = None
    BY <2>3, <2>4 DEF VMInv
  <2>10. \A s \in Resource : ~ Listed(s)' => files'[s] = 0
    BY <2>4 DEF VMInv
  <2>11. ASSUME NEW s \in Resource, Listed(s)', s \notin hollow'
         PROVE  vmOf'[s] \in alive'
    <3>1. CASE s = r
      BY <2>3, <2>6, <3>1
    <3>2. CASE s # r
      <4>1. vmOf[s] \in alive
        BY <1>1, <2>11, <3>2 DEF VMInv
      <4> QED BY <1>0, <2>3, <2>8, <3>2, <4>1
    <3> QED BY <3>1, <3>2
  <2>12. VMInv'
    BY <2>7, <2>8, <2>9, <2>10, <2>11 DEF VMInv
  <2>13. \A v \in alive' : v \in DOMAIN owner => v \in alive
    BY <2>1, <2>6
  <2> QED
    BY <1>0, <1>1, <2>1, <2>2, <2>3, <2>4, <2>5, <2>6, <2>12, <2>13
<1>2. ASSUME files[r] = 0, vmOf' = [vmOf EXCEPT ![r] = None],
             hollow' = hollow \cup {r},
             task' = [resource |-> r, left |-> 0, step |-> "next"],
             UNCHANGED <<files, owner, alive>>
      PROVE  /\ vmOf' \in [Resource -> VM \cup {None}]
             /\ files' \in [Resource -> Nat]
             /\ owner' \in Seq(Resource) /\ Len(owner') <= MaxVMs
             /\ alive' \subseteq VM /\ hollow' \subseteq Resource
             /\ task' \in Task
             /\ VMInv'
             /\ \A v \in DOMAIN owner : v \in DOMAIN owner' /\ owner'[v] = owner[v]
             /\ alive \ {vmOf[r]} \subseteq alive'
             /\ \A v \in alive' : v \in DOMAIN owner => v \in alive
  <2>1. vmOf[r] = None /\ vmOf' = vmOf
    BY <1>0, <1>2 DEF VMInv
  <2>2. \A v \in alive' : Attached(v)'
    <3>1. \A v \in alive : Attached(v) /\ owner[v] \in Resource
      BY <1>0 DEF VMInv, Attached
    <3> QED BY <1>2, <2>1, <3>1 DEF Attached
  <2>3. \A s \in Resource : ~ Listed(s)' => files'[s] = 0
    BY <1>2 DEF VMInv
  <2>4. \A s \in Resource : Listed(s)' /\ s \notin hollow' => vmOf'[s] \in alive'
    BY <1>2, <2>1 DEF VMInv
  <2>5. VMInv'
    BY <1>2, <2>1, <2>2, <2>3, <2>4 DEF VMInv
  <2>6. task' \in Task
    BY <1>2 DEF Task
  <2> QED BY <1>0, <1>2, <2>1, <2>5, <2>6 DEF TypeOK
<1> QED BY <1>1, <1>2 DEF LoadAndStart

LEMMA StartLoads ==
  ASSUME TypeOK, LoadedInv, NEW r \in Resource, LoadAndStart(r)
  PROVE  LoadedInv' /\ loaded' \subseteq Resource
<1>1. /\ loaded' = loaded \cup {r} /\ loaded \subseteq Resource
      /\ \A s \in Resource : s # r => vmOf'[s] = vmOf[s]
  BY DEF LoadAndStart, TypeOK
<1> QED BY <1>1 DEF LoadedInv

LEMMA DropUnloads ==
  ASSUME TypeOK, LoadedInv, NEW r \in Resource,
         vmOf' = [vmOf EXCEPT ![r] = None], loaded' = loaded \ {r}
  PROVE  LoadedInv' /\ loaded' \subseteq Resource
<1>1. /\ loaded \subseteq Resource /\ vmOf'[r] = None
      /\ \A s \in Resource : s # r => vmOf'[s] = vmOf[s]
  BY DEF TypeOK
<1> QED BY <1>1 DEF LoadedInv

(* What Stop leaves of the handlers, whether the resource is loaded or not. *)
LEMMA StoppedEvents ==
  ASSUME TypeOK, LoadedInv, stopped = "no", NEW r \in Resource, StopEvents(r)
  PROVE  /\ handlers' = Remaining(vmOf[r])
         /\ stopped' \in Stop /\ stopped' # "null_VM"
         /\ stopped' = "freed_VM" => Dangling(handlers')
<1>1. CASE r \in loaded
  BY <1>1 DEF StopEvents, RemoveResourceEvents, Stop
<1>2. CASE r \notin loaded
  <2>1. vmOf[r] = None /\ None \notin VM /\ handlers \subseteq Handler
    BY <1>2, Bounds DEF LoadedInv, TypeOK
  <2>2. \A h \in handlers : h.vm # vmOf[r]
    BY <2>1 DEF Handler
  <2> QED BY <1>2, <2>2 DEF StopEvents, Remaining, Stop
<1> QED BY <1>1, <1>2

LEMMA AppendedListed ==
  ASSUME TypeOK, VMInv, NEW r \in Resource, ~ Listed(r),
         listed' = Append(listed, r)
  PROVE  /\ listed' \in Seq(Resource)
         /\ \A s \in Resource : Listed(s)' <=> (Listed(s) \/ s = r)
         /\ \A i, j \in DOMAIN listed' : listed'[i] = listed'[j] => i = j
<1>1. listed \in Seq(Resource) /\ Len(listed) \in Nat
      /\ DOMAIN listed = 1 .. Len(listed)
  BY DEF TypeOK
<1>2. /\ listed' \in Seq(Resource)
      /\ DOMAIN listed' = 1 .. Len(listed) + 1
      /\ listed'[Len(listed) + 1] = r
      /\ \A i \in DOMAIN listed : listed'[i] = listed[i]
  BY <1>1
<1>3. \A i \in DOMAIN listed' : i \in DOMAIN listed \/ i = Len(listed) + 1
  BY <1>1, <1>2
<1>4. \A s \in Resource : Listed(s)' <=> (Listed(s) \/ s = r)
  BY <1>1, <1>2, <1>3 DEF Listed
<1>5. \A i \in DOMAIN listed : listed[i] # r
  BY DEF Listed
<1>6. \A i, j \in DOMAIN listed : listed[i] = listed[j] => i = j
  BY DEF VMInv
<1> QED BY <1>2, <1>3, <1>4, <1>5, <1>6

LEMMA LoadKeeps ==
  ASSUME HostInv, NEW r \in Resource, LoadResource(r)
  PROVE  HostInv'
<1>1. /\ TypeOK /\ VMInv /\ ~ Listed(r) /\ listed' = Append(listed, r)
      /\ LoadAndStart(r) /\ stopped = "no" /\ frames = <<>>
      /\ UNCHANGED <<ran, handlers, added, frames, stopped>>
  BY DEF LoadResource, Load, Resting, HostInv
<1>2. /\ listed' \in Seq(Resource)
      /\ \A s \in Resource : Listed(s)' <=> (Listed(s) \/ s = r)
      /\ \A i, j \in DOMAIN listed' : listed'[i] = listed'[j] => i = j
  BY <1>1, AppendedListed
<1>3. /\ vmOf' \in [Resource -> VM \cup {None}] /\ files' \in [Resource -> Nat]
      /\ owner' \in Seq(Resource) /\ Len(owner') <= MaxVMs
      /\ alive' \subseteq VM /\ hollow' \subseteq Resource /\ task' \in Task
      /\ VMInv'
      /\ \A v \in DOMAIN owner : v \in DOMAIN owner' /\ owner'[v] = owner[v]
      /\ alive \ {vmOf[r]} \subseteq alive'
  BY <1>1, <1>2, StartKeeps
<1>4. alive \subseteq alive'
  <2>1. vmOf[r] = None
    BY <1>1 DEF VMInv
  <2> QED BY <1>1, <1>3, <2>1, Bounds DEF TypeOK
<1>5. LoadedInv' /\ loaded' \subseteq Resource
  BY <1>1, StartLoads DEF HostInv
<1>6. TypeOK'
  BY <1>1, <1>2, <1>3, <1>5 DEF TypeOK
<1>7. HandlerInv'
  BY <1>1, <1>3, <1>4 DEF HandlerInv, HostInv
<1>8. FrameInv' /\ StopsExplained'
  BY <1>1 DEF FrameInv, StopsExplained
<1> QED BY <1>3, <1>5, <1>6, <1>7, <1>8 DEF HostInv

(* Whatever VM a resource has lost, no handler in Squirrel is left that    *)
(* belongs to it, and what is left of others stops the server only in Lua. *)
LEMMA RemovedKeeps ==
  ASSUME HostInv, NEW r \in Resource, handlers' = Remaining(vmOf[r]),
         added' = added,
         \A v \in DOMAIN owner : v \in DOMAIN owner' /\ owner'[v] = owner[v],
         alive \ {vmOf[r]} \subseteq alive',
         \A v \in alive' : v \in DOMAIN owner => v \in alive
  PROVE  /\ HandlerInv' /\ handlers' \subseteq Handler
         /\ Dangling(handlers') =>
              \E h \in handlers' : owner'[h.vm] \in Lua /\ h.vm \notin alive'
<1>1. /\ handlers' \subseteq handlers /\ handlers \subseteq Handler
      /\ \A h \in handlers' : h.vm # vmOf[r] \/ owner[h.vm] \in Lua
      /\ HandlerInv
  BY DEF Remaining, HostInv, TypeOK
<1>2. HandlerInv'
  BY <1>1 DEF HandlerInv
<1>3. Dangling(handlers') =>
        \E h \in handlers' : owner'[h.vm] \in Lua /\ h.vm \notin alive'
  BY <1>1 DEF HandlerInv, Dangling
<1> QED BY <1>1, <1>2, <1>3

(* The VMs after a reload that has failed.                                 *)
LEMMA DroppedKeeps ==
  ASSUME TypeOK, VMInv, NEW r \in Resource,
         alive' = alive \ {vmOf[r]}, vmOf' = [vmOf EXCEPT ![r] = None],
         hollow' = hollow \cup {r}, UNCHANGED <<files, owner, listed>>
  PROVE  VMInv'
<1>1. /\ vmOf \in [Resource -> VM \cup {None}] /\ owner \in Seq(Resource)
      /\ vmOf'[r] = None /\ \A s \in Resource : s # r => vmOf'[s] = vmOf[s]
  BY DEF TypeOK
<1>2. \A s : Listed(s)' <=> Listed(s)
  BY DEF Listed
<1>3. ASSUME NEW v \in alive' PROVE Attached(v)'
  <2>1. v \in alive /\ v # vmOf[r] /\ v \in DOMAIN owner
        /\ vmOf[owner[v]] = v /\ Listed(owner[v]) /\ owner[v] \in Resource
    BY <1>1 DEF VMInv, Attached
  <2>2. owner[v] # r
    BY <2>1
  <2> QED BY <1>1, <1>2, <2>1, <2>2 DEF Attached
<1>4. ASSUME NEW s \in Resource, vmOf'[s] # None
      PROVE  vmOf'[s] \in alive' /\ owner'[vmOf'[s]] = s
  <2>1. s # r /\ vmOf'[s] = vmOf[s]
    BY <1>1, <1>4
  <2>2. vmOf[s] \in alive /\ owner[vmOf[s]] = s
    BY <1>4, <2>1 DEF VMInv
  <2>3. vmOf[s] # vmOf[r]
    BY <1>1, <1>4, <2>1, <2>2 DEF VMInv
  <2> QED BY <2>1, <2>2, <2>3
<1>5. \A s \in Resource : files'[s] = 0 => vmOf'[s] = None
  BY <1>1 DEF VMInv
<1>6. \A s \in Resource : ~ Listed(s)' => files'[s] = 0
  BY <1>2 DEF VMInv
<1>7. ASSUME NEW s \in Resource, Listed(s)', s \notin hollow'
      PROVE  vmOf'[s] \in alive'
  <2>1. s # r /\ vmOf[s] \in alive /\ vmOf'[s] = vmOf[s]
    BY <1>1, <1>2, <1>7 DEF VMInv
  <2>2. vmOf[s] # None
    BY <2>1, Bounds DEF TypeOK
  <2> QED BY <1>4, <2>1, <2>2
<1>8. \A i, j \in DOMAIN listed' : listed'[i] = listed'[j] => i = j
  BY DEF VMInv
<1> QED BY <1>3, <1>4, <1>5, <1>6, <1>7, <1>8 DEF VMInv

LEMMA ReloadKeeps ==
  ASSUME HostInv, NEW r \in Resource, ReloadResource(r)
  PROVE  HostInv'
<1>1. /\ TypeOK /\ VMInv /\ Listed(r) /\ stopped = "no" /\ frames = <<>>
      /\ handlers' = Remaining(vmOf[r])
      /\ stopped' \in Stop /\ stopped' # "null_VM"
      /\ stopped' = "freed_VM" => Dangling(handlers')
      /\ UNCHANGED <<listed, ran, added, frames>>
  BY StoppedEvents DEF ReloadResource, Resting, HostInv
<1>2. /\ vmOf' \in [Resource -> VM \cup {None}] /\ files' \in [Resource -> Nat]
      /\ owner' \in Seq(Resource) /\ Len(owner') <= MaxVMs
      /\ alive' \subseteq VM /\ hollow' \subseteq Resource
      /\ task' \in Task \cup {None}
      /\ VMInv' /\ LoadedInv' /\ loaded' \subseteq Resource
      /\ \A v \in DOMAIN owner : v \in DOMAIN owner' /\ owner'[v] = owner[v]
      /\ alive \ {vmOf[r]} \subseteq alive'
      /\ \A v \in alive' : v \in DOMAIN owner => v \in alive
  <2>1. CASE LoadAndStart(r)
    <3>1. \A s \in Resource : Listed(s)' <=> (Listed(s) \/ s = r)
      BY <1>1 DEF Listed
    <3>2. /\ listed' \in Seq(Resource)
          /\ \A i, j \in DOMAIN listed' : listed'[i] = listed'[j] => i = j
      BY <1>1 DEF TypeOK, VMInv
    <3>3. LoadedInv' /\ loaded' \subseteq Resource
      BY <2>1, StartLoads DEF HostInv
    <3> QED BY <1>1, <2>1, <3>1, <3>2, <3>3, StartKeeps
  <2>2. CASE /\ alive' = alive \ {vmOf[r]}
             /\ vmOf' = [vmOf EXCEPT ![r] = None]
             /\ loaded' = loaded \ {r} /\ hollow' = hollow \cup {r}
             /\ UNCHANGED <<files, owner, task>>
    <3>1. VMInv'
      BY <1>1, <2>2, DroppedKeeps DEF TypeOK, Listed
    <3>2. LoadedInv' /\ loaded' \subseteq Resource
      BY <2>2, DropUnloads DEF HostInv
    <3> QED BY <1>1, <2>2, <3>1, <3>2 DEF TypeOK
  <2> QED BY <2>1, <2>2 DEF ReloadResource
<1>3. /\ HandlerInv' /\ handlers' \subseteq Handler
      /\ Dangling(handlers') =>
           \E h \in handlers' : owner'[h.vm] \in Lua /\ h.vm \notin alive'
  BY <1>1, <1>2, RemovedKeeps
<1>4. TypeOK'
  BY <1>1, <1>2, <1>3 DEF TypeOK, Stop
<1>5. FrameInv' /\ StopsExplained'
  BY <1>1, <1>3 DEF FrameInv, StopsExplained
<1> QED BY <1>2, <1>3, <1>4, <1>5 DEF HostInv

LEMMA UnloadKeeps ==
  ASSUME HostInv, NEW r \in Resource, UnloadResource(r)
  PROVE  HostInv'
<1>1. /\ TypeOK /\ VMInv /\ stopped = "no" /\ frames = <<>>
      /\ alive' = alive \ {vmOf[r]} /\ vmOf' = [vmOf EXCEPT ![r] = None]
      /\ files' = [files EXCEPT ![r] = 0] /\ hollow' = hollow \ {r}
      /\ LoadedInv' /\ loaded' \subseteq Resource
      /\ handlers' = Remaining(vmOf[r])
      /\ stopped' \in Stop /\ stopped' # "null_VM"
      /\ stopped' = "freed_VM" => Dangling(handlers')
      /\ UNCHANGED <<owner, ran, added, frames, task>>
  BY StoppedEvents, DropUnloads DEF UnloadResource, Resting, HostInv, Stop
<1>2. PICK i \in DOMAIN listed :
        /\ listed[i] = r
        /\ listed' = SubSeq(listed, 1, i - 1)
                     \o SubSeq(listed, i + 1, Len(listed))
  BY DEF UnloadResource
<1>3. /\ listed \in Seq(Resource) /\ Len(listed) \in Nat
      /\ DOMAIN listed = 1 .. Len(listed) /\ i \in 1 .. Len(listed)
      /\ listed' \in Seq(Resource) /\ Len(listed') = Len(listed) - 1
      /\ \A k \in DOMAIN listed' :
           listed'[k] = IF k < i THEN listed[k] ELSE listed[k + 1]
  <2>1. listed \in Seq(Resource)
    BY <1>1 DEF TypeOK
  <2>2. Len(listed) \in Nat /\ DOMAIN listed = 1 .. Len(listed)
    BY <2>1
  <2> DEFINE less == SubSeq(listed, 1, i - 1)
                     \o SubSeq(listed, i + 1, Len(listed))
  <2>3. /\ less \in Seq(Resource) /\ Len(less) = Len(listed) - 1
        /\ \A k \in DOMAIN less :
             less[k] = IF k < i THEN listed[k] ELSE listed[k + 1]
    BY <2>1, RemovedAt
  <2>4. listed' = less
    BY <1>2
  <2> HIDE DEF less
  <2> QED BY <2>1, <2>2, <2>3, <2>4
<1>4. DOMAIN listed' = 1 .. Len(listed) - 1
  <2>1. DOMAIN listed' = 1 .. Len(listed')
    BY <1>3
  <2> QED BY <1>3, <2>1
<1>5. \A j, k \in DOMAIN listed : listed[j] = listed[k] => j = k
  BY <1>1 DEF VMInv
<1>6. \A j, k \in DOMAIN listed' : listed'[j] = listed'[k] => j = k
  <2> SUFFICES ASSUME NEW j \in DOMAIN listed', NEW k \in DOMAIN listed',
                      listed'[j] = listed'[k]
               PROVE  j = k
    OBVIOUS
  <2> DEFINE x == IF j < i THEN j ELSE j + 1
             y == IF k < i THEN k ELSE k + 1
  <2>1. x \in DOMAIN listed /\ y \in DOMAIN listed
    BY <1>3, <1>4
  <2>2. listed[x] = listed[y]
    BY <1>3
  <2>3. x = y
    BY <1>5, <2>1, <2>2
  <2> QED BY <1>3, <1>4, <2>3
<1>7. \A s \in Resource : s # r /\ Listed(s) => Listed(s)'
  <2> SUFFICES ASSUME NEW k \in DOMAIN listed, listed[k] # r
               PROVE  \E j \in DOMAIN listed' : listed'[j] = listed[k]
    BY DEF Listed
  <2> DEFINE j == IF k < i THEN k ELSE k - 1
  <2>1. k # i
    BY <1>2
  <2>2. j \in DOMAIN listed' /\ (IF j < i THEN j ELSE j + 1) = k
    BY <1>3, <1>4, <2>1
  <2> QED BY <1>3, <2>2
<1>8. \A s \in Resource : Listed(s)' => Listed(s) /\ s # r
  <2> SUFFICES ASSUME NEW j \in DOMAIN listed'
               PROVE  \E k \in DOMAIN listed : listed[k] = listed'[j] /\ listed[k] # r
    BY DEF Listed
  <2> DEFINE k == IF j < i THEN j ELSE j + 1
  <2>1. k \in DOMAIN listed /\ k # i /\ listed'[j] = listed[k]
    BY <1>3, <1>4
  <2> QED BY <1>2, <1>5, <2>1
<1>9. VMInv'
  <2>1. vmOf \in [Resource -> VM \cup {None}] /\ files \in [Resource -> Nat]
        /\ owner \in Seq(Resource) /\ r \in Resource
    BY <1>1 DEF TypeOK
  <2>2. \A v \in alive' : Attached(v)'
    <3> SUFFICES ASSUME NEW v \in alive' PROVE Attached(v)'
      OBVIOUS
    <3>1. v \in alive /\ v # vmOf[r] /\ v \in DOMAIN owner
          /\ vmOf[owner[v]] = v /\ Listed(owner[v]) /\ owner[v] \in Resource
      BY <1>1, <2>1 DEF VMInv, Attached
    <3>2. owner[v] # r
      BY <3>1
    <3> QED BY <1>1, <1>7, <2>1, <3>1, <3>2 DEF Attached
  <2>3. \A s \in Resource :
          vmOf'[s] # None => vmOf'[s] \in alive' /\ owner'[vmOf'[s]] = s
    BY <1>1, <2>1 DEF VMInv
  <2>4. \A s \in Resource : files'[s] = 0 => vmOf'[s] = None
    BY <1>1, <2>1 DEF VMInv
  <2>5. \A s \in Resource : ~ Listed(s)' => files'[s] = 0
    BY <1>1, <1>7, <2>1 DEF VMInv
  <2>6. \A s \in Resource : Listed(s)' /\ s \notin hollow' => vmOf'[s] \in alive'
    <3> SUFFICES ASSUME NEW s \in Resource, Listed(s)', s \notin hollow'
                 PROVE  vmOf'[s] \in alive'
      OBVIOUS
    <3>1. s # r /\ vmOf[s] \in alive
      BY <1>1, <1>8 DEF VMInv
    <3>2. vmOf'[s] = vmOf[s] /\ vmOf[s] # None
      BY <1>1, <2>1, <3>1, Bounds DEF TypeOK
    <3> QED BY <2>3, <3>2
  <2> QED BY <1>6, <2>2, <2>3, <2>4, <2>5, <2>6 DEF VMInv
<1>10. /\ HandlerInv' /\ handlers' \subseteq Handler
       /\ Dangling(handlers') =>
            \E h \in handlers' : owner'[h.vm] \in Lua /\ h.vm \notin alive'
  BY <1>1, RemovedKeeps
<1>11. TypeOK'
  BY <1>1, <1>3, <1>10 DEF TypeOK, Stop
<1>12. FrameInv' /\ StopsExplained'
  BY <1>1, <1>10 DEF FrameInv, StopsExplained
<1> QED BY <1>1, <1>9, <1>10, <1>11, <1>12 DEF HostInv

LEMMA ConsoleKeeps ==
  ASSUME HostInv, Console
  PROVE  HostInv'
<1>0. /\ TypeOK /\ FrameInv /\ ran \in [VM -> Nat] /\ task \in Task \cup {None}
      /\ vmOf \in [Resource -> VM \cup {None}]
  BY DEF HostInv, TypeOK
<1>1. ASSUME NEW r \in Resource,
             LoadResource(r) \/ ReloadResource(r) \/ UnloadResource(r)
      PROVE  HostInv'
  BY <1>1, LoadKeeps, ReloadKeeps, UnloadKeeps
<1>2. ASSUME NEW r \in Resource, ReloadAbsent(r) PROVE HostInv'
  BY <1>0, <1>2, CallsKeep DEF ReloadAbsent, Resting, Stop, TypeOK
<1>3. ASSUME RunScript \/ EndScript \/ CallStarted
      PROVE  task \in Task /\ stopped = "no" /\ vmOf[task.resource] \in VM \cup {None}
             /\ TRUE \in BOOLEAN
             /\ UNCHANGED <<resourceVars, handlers, added, stopped>>
  <2>1. task \in Task /\ stopped = "no"
        /\ UNCHANGED <<resourceVars, handlers, added, stopped>>
    BY <1>0, <1>3 DEF RunScript, EndScript, CallStarted, Starting
  <2>2. task.resource \in Resource
    BY <2>1 DEF Task
  <2> QED BY <1>0, <2>1, <2>2
<1>4. CASE RunScript
  <2>1. task' \in Task
    <3>1. task.left \in Nat /\ task.left > 0 /\ task.resource \in Resource
      BY <1>3, <1>4 DEF RunScript, Task
    <3>2. task.left - 1 \in Nat
      BY <3>1
    <3>3. task' = [resource |-> task.resource, left |-> task.left - 1,
                   step |-> "script"]
      BY <1>3, <1>4 DEF RunScript, Task
    <3> QED BY <3>1, <3>2, <3>3 DEF Task
  <2>2. ran' \in [VM -> Nat]
    <3> DEFINE v == vmOf[task.resource]
    <3>1. ran' = [ran EXCEPT ![v] = ran[v] + 1]
      BY <1>4 DEF RunScript
    <3> HIDE DEF v
    <3>2. CASE v \in VM
      <4>1. ran[v] + 1 \in Nat
        BY <1>0, <3>2
      <4> QED BY <1>0, <3>1, <4>1
    <3>3. CASE v \notin VM
      BY <1>0, <3>1, <3>3
    <3> QED BY <3>2, <3>3
  <2> QED BY <1>0, <1>3, <1>4, <2>1, <2>2, CallsKeep
      DEF RunScript, Stop, TypeOK, FrameInv
<1>5. CASE EndScript \/ CallStarted
  <2>1. /\ task' \in Task /\ ran' = ran
        /\ \/ \E e \in Event : Call(e, "NATIVE", vmOf[task.resource], TRUE)
           \/ UNCHANGED frames
    BY <1>3, <1>5, Bounds DEF EndScript, CallStarted, Task
  <2>2. /\ frames' \in Seq(Frame) /\ Len(frames') <= MaxDepth
        /\ \A i \in DOMAIN frames' :
             frames'[i].in # None => frames'[i].in \in alive
    <3>1. CASE UNCHANGED frames
      BY <1>0, <1>3, <1>5, <3>1 DEF TypeOK, FrameInv
    <3>2. CASE \E e \in Event : Call(e, "NATIVE", vmOf[task.resource], TRUE)
      <4>1. "NATIVE" \in Type \cup {"NATIVE"}
        OBVIOUS
      <4> QED BY <1>3, <1>5, <3>2, <4>1, CallTyped
    <3> QED BY <2>1, <3>1, <3>2
  <2> QED BY <1>0, <1>3, <1>5, <2>1, <2>2, CallsKeep DEF Stop
<1>6. CASE EndStart \/ Race
  BY <1>0, <1>6, CallsKeep
  DEF EndStart, Race, Starting, Stop, TypeOK, FrameInv
<1> QED BY <1>1, <1>2, <1>4, <1>5, <1>6 DEF Console

LEMMA HostStep == HostInv /\ [Next]_vars => HostInv'
<1> SUFFICES ASSUME HostInv, [Next]_vars PROVE HostInv'
  OBVIOUS
<1>1. CASE Next
  BY <1>1, ScriptKeeps, ServerKeeps, ConsoleKeeps DEF Next
<1>2. CASE UNCHANGED vars
  <2>1. UNCHANGED <<resourceVars, ran, handlers, added, frames, task, stopped>>
    BY <1>2 DEF vars
  <2> QED BY <2>1 DEF HostInv, TypeOK, VMInv, LoadedInv, HandlerInv, FrameInv,
          StopsExplained, resourceVars, Attached, Listed
<1> QED BY <1>1, <1>2

LEMMA HostAlways == Spec => []HostInv
BY HostInit, HostStep, PTL DEF Spec
-----------------------------------------------------------------------------
(* The lists, VMs, handlers and calls stay what the code takes them for.   *)
THEOREM TypeCorrect == Spec => []TypeOK
<1>1. HostInv => TypeOK
  BY DEF HostInv
<1> QED BY <1>1, HostAlways, PTL

(* RemoveResourceEvents, before the VM is destroyed, leaves no handler in  *)
(* Squirrel behind.                                                        *)
THEOREM HandlersStayLive == Spec => []HandlersLive
<1>1. HostInv => HandlersLive
  BY DEF HostInv, HandlersLive, HandlerInv, VMInv, Attached
<1> QED BY <1>1, HostAlways, PTL

(* Only a load without script, or a failed reload, leaves a resource in    *)
(* the list that has no VM.                                                *)
THEOREM ListedKeepVMs == Spec => []ListedHaveVM
<1>1. ASSUME HostInv PROVE ListedHaveVM
  <2> SUFFICES ASSUME NEW r \in Resource, Listed(r), r \notin hollow
               PROVE  vmOf[r] \in alive /\ owner[vmOf[r]] = r
    BY DEF ListedHaveVM
  <2>1. vmOf[r] \in alive
    BY <1>1 DEF HostInv, VMInv
  <2>2. vmOf[r] # None
    BY <1>1, <2>1, Bounds DEF HostInv, TypeOK
  <2> QED BY <1>1, <2>1, <2>2 DEF HostInv, VMInv
<1> QED BY <1>1, HostAlways, PTL

(* What scripts and commands, one at a time, stop the server with.         *)
THEOREM StopsAreExplained == Spec => []StopsExplained
<1>1. HostInv => StopsExplained
  BY DEF HostInv
<1> QED BY <1>1, HostAlways, PTL
-----------------------------------------------------------------------------
(* Calls miss nothing: what is before the iterator has been called.        *)

Passed(f, S) == \A h \in S : Wanted(f, h) /\ h.id <= f.at => h.id \in f.ids

CallInv ==
  \A i \in DOMAIN frames : frames[i].at <= added /\ Passed(frames[i], handlers)

(* Handlers that are removed are not waited for, and one that is added is  *)
(* ahead of every iterator.                                                *)
LEMMA SameCalls ==
  ASSUME TypeOK, CallInv, UNCHANGED frames, added' \in Nat, added <= added',
         \A h \in handlers' : h \in handlers \/ (h.id \in Nat /\ h.id > added)
  PROVE  CallInv'
<1> SUFFICES ASSUME NEW i \in DOMAIN frames
             PROVE  frames[i].at <= added' /\ Passed(frames[i], handlers')
  BY DEF CallInv
<1>1. frames[i] \in Frame
  BY DEF TypeOK
<1>2. frames[i].at \in Nat /\ frames[i].at <= added /\ added \in Nat
      /\ Passed(frames[i], handlers)
  BY <1>1, Bounds DEF CallInv, TypeOK, Frame, Id
<1>3. Passed(frames[i], handlers')
  BY <1>2 DEF Passed
<1> QED BY <1>2, <1>3

LEMMA NewCall ==
  ASSUME TypeOK, CallInv, UNCHANGED <<handlers, added>>,
         NEW e, NEW type, NEW v, NEW args, Call(e, type, v, args)
  PROVE  CallInv' /\ Len(frames') = Len(frames) + 1
<1> DEFINE f == [event |-> e, type |-> type, vm |-> v, args |-> args,
                 at |-> 0, in |-> None, ids |-> {}]
<1>1. f.at = 0
  OBVIOUS
<1>2. frames \in Seq(Frame) /\ frames' = Append(frames, f)
  BY DEF Call, TypeOK
<1> HIDE DEF f
<1>3. Passed(f, handlers) /\ f.at <= added
  BY <1>1 DEF TypeOK, Handler, Id, Passed
<1>4. DOMAIN frames' = 1 .. Len(frames) + 1 /\ Len(frames) \in Nat
      /\ DOMAIN frames = 1 .. Len(frames) /\ Len(frames') = Len(frames) + 1
  BY <1>2
<1>5. ASSUME NEW i \in DOMAIN frames'
      PROVE  frames'[i].at <= added /\ Passed(frames'[i], handlers)
  <2>1. CASE i = Len(frames) + 1
    BY <1>2, <1>3, <2>1
  <2>2. CASE i # Len(frames) + 1
    BY <1>2, <1>4, <2>2 DEF CallInv
  <2> QED BY <2>1, <2>2
<1> QED BY <1>4, <1>5 DEF CallInv

LEMMA AdvanceCalls ==
  ASSUME HostInv, CallInv, Advance
  PROVE  CallInv' /\ Len(frames') = Len(frames)
<1> DEFINE h == Least(Ahead)
           f == [Top EXCEPT !.at = h.id, !.in = h.vm, !.ids = @ \cup {h.id}]
<1>1. /\ frames # <<>> /\ Ahead # {} /\ frames' = Append(Below, f)
      /\ UNCHANGED <<handlers, added>>
  BY DEF Advance
<1>2. /\ TypeOK /\ Len(frames) \in Nat /\ frames \in Seq(Frame)
      /\ \A k \in handlers : k.id \in Nat /\ k.id <= added
  BY DEF HostInv, TypeOK, HandlerInv, Handler, Id
<1>3. /\ Top \in Frame /\ Below \in Seq(Frame)
      /\ Len(frames) \in DOMAIN frames
      /\ Len(Below) = Len(frames) - 1
      /\ \A i \in DOMAIN Below : i \in DOMAIN frames /\ Below[i] = frames[i]
  BY <1>1, <1>2, TopTyped
<1>4. h \in handlers /\ h.id <= added /\ \A k \in Ahead : h.id <= k.id
  <2>1. Ahead \subseteq handlers /\ \A k \in Ahead : k.id \in Nat
    BY <1>2 DEF Ahead
  <2>2. h \in Ahead /\ \A k \in Ahead : h.id <= k.id
    BY <1>1, <2>1, LeastIsIn
  <2> QED BY <1>2, <2>1, <2>2
<1>5. /\ f.at = h.id /\ f.ids = Top.ids \cup {h.id}
      /\ f.event = Top.event /\ f.type = Top.type /\ f.vm = Top.vm
  BY <1>3 DEF Frame
<1> HIDE DEF f, h
<1>6. Passed(f, handlers)
  <2> SUFFICES ASSUME NEW k \in handlers, Wanted(f, k), k.id <= f.at
               PROVE  k.id \in f.ids
    BY DEF Passed
  <2>1. Wanted(Top, k)
    BY <1>5 DEF Wanted
  <2>2. CASE k.id <= Top.at
    BY <1>3, <1>5, <2>1, <2>2 DEF CallInv, Passed, Top
  <2>3. CASE ~ (k.id <= Top.at)
    <3>1. Top.at \in Nat /\ k.id \in Nat /\ h.id \in Nat
      BY <1>2, <1>3, <1>4 DEF Frame, Id
    <3>2. k \in Ahead
      BY <2>1, <2>3, <3>1 DEF Ahead
    <3>3. k.id = h.id
      BY <1>4, <1>5, <3>1, <3>2
    <3> QED BY <1>5, <3>3
  <2> QED BY <2>2, <2>3
<1>7. f \in Frame
  <2>1. h.id \in Id /\ h.vm \in VM
    BY <1>2, <1>4 DEF TypeOK, Handler
  <2> QED BY <1>3, <2>1 DEF Frame, f
<1>8. /\ Len(frames') = Len(Below) + 1
      /\ \A i \in DOMAIN frames' :
           (i \in DOMAIN Below /\ frames'[i] = Below[i]) \/ frames'[i] = f
  BY <1>1, <1>3, <1>7, AppendTyped
<1>9. ASSUME NEW i \in DOMAIN frames'
      PROVE  frames'[i].at <= added /\ Passed(frames'[i], handlers)
  <2>1. CASE frames'[i] = f
    BY <1>4, <1>5, <1>6, <2>1
  <2>2. CASE i \in DOMAIN Below /\ frames'[i] = Below[i]
    BY <1>3, <2>2 DEF CallInv
  <2> QED BY <1>8, <2>1, <2>2
<1> QED BY <1>1, <1>2, <1>3, <1>8, <1>9 DEF CallInv

(* What a step does to the calls: only EndCall takes one away.             *)
LEMMA CallStep ==
  ASSUME HostInv, CallInv, [Next]_vars
  PROVE  CallInv' /\ (EndCall \/ ~ (Len(frames') < Len(frames)))
<1>0. /\ TypeOK /\ added \in Nat /\ added <= added /\ Len(frames) \in Nat
  BY Bounds DEF HostInv, TypeOK
<1>1. CASE Script
  <2>1. ASSUME NEW e \in Event, NEW type \in Type, NEW k \in 1 .. MaxVMs,
               AddEvent(e, type, k)
        PROVE  CallInv' /\ UNCHANGED frames
    <3>1. /\ UNCHANGED frames /\ added' = added + 1
          /\ \A h \in handlers' : h \in handlers \/ h.id = added + 1
      BY <2>1 DEF AddEvent, New
    <3> QED BY <1>0, <3>1, SameCalls
  <2>2. ASSUME NEW e \in Event,
               RemoveEvent(e) \/ \E type \in Type : RemoveTyped(e, type)
        PROVE  CallInv' /\ UNCHANGED frames
    <3>1. UNCHANGED <<frames, added>> /\ handlers' \subseteq handlers
      BY <2>2 DEF RemoveEvent, RemoveTyped
    <3> QED BY <1>0, <3>1, SameCalls
  <2>3. ASSUME NEW e \in Event, NEW type \in Type, Trigger(e, type)
        PROVE  CallInv' /\ Len(frames') = Len(frames) + 1
    BY <1>0, <2>3, NewCall DEF Trigger
  <2>4. CASE NullNative
    BY <1>0, <2>4, SameCalls DEF NullNative
  <2> QED BY <1>0, <1>1, <2>1, <2>2, <2>3, <2>4 DEF Script
<1>2. CASE Server
  <2>1. CASE Advance
    BY <1>0, <2>1, AdvanceCalls
  <2>2. CASE EndCall
    <3>1. frames # <<>> /\ frames' = Below /\ UNCHANGED <<handlers, added>>
      BY <2>2 DEF EndCall
    <3>2. \A i \in DOMAIN Below : i \in DOMAIN frames /\ Below[i] = frames[i]
      BY <1>0, <3>1, TopTyped
    <3> QED BY <2>2, <3>1, <3>2 DEF CallInv
  <2>3. CASE LoseCall
    BY <1>0, <2>3, SameCalls DEF LoseCall
  <2>4. ASSUME NEW e \in Event, CallNative(e) \/ TriggerServerEvent(e)
        PROVE  CallInv' /\ Len(frames') = Len(frames) + 1
    BY <1>0, <2>4, NewCall DEF CallNative, TriggerServerEvent
  <2> QED BY <1>0, <1>2, <2>1, <2>2, <2>3, <2>4 DEF Server
<1>3. CASE Console
  <2>1. ASSUME NEW r \in Resource,
               \/ LoadResource(r) \/ ReloadResource(r)
               \/ ReloadAbsent(r) \/ UnloadResource(r)
        PROVE  CallInv' /\ UNCHANGED frames
    <3>1. UNCHANGED <<frames, added>> /\ handlers' \subseteq handlers
      BY <2>1 DEF LoadResource, Load, ReloadResource, ReloadAbsent,
         UnloadResource, StopEvents, RemoveResourceEvents, Remaining
    <3> QED BY <1>0, <3>1, SameCalls
  <2>2. CASE RunScript \/ EndStart \/ Race
    BY <1>0, <2>2, SameCalls DEF RunScript, EndStart, Race
  <2>3. CASE EndScript \/ CallStarted
    <3>1. /\ UNCHANGED <<handlers, added>>
          /\ \/ \E e \in Event : Call(e, "NATIVE", vmOf[task.resource], TRUE)
             \/ UNCHANGED frames
      BY <2>3, Bounds DEF EndScript, CallStarted
    <3>2. CASE UNCHANGED frames
      <4>1. \A h \in handlers' : h \in handlers
        BY <3>1
      <4> QED BY <1>0, <3>1, <3>2, <4>1, SameCalls
    <3>3. CASE \E e \in Event : Call(e, "NATIVE", vmOf[task.resource], TRUE)
      <4>1. CallInv' /\ Len(frames') = Len(frames) + 1
        BY <1>0, <3>1, <3>3, NewCall
      <4> QED BY <1>0, <4>1
    <3> QED BY <3>1, <3>2, <3>3
  <2> QED BY <1>0, <1>3, <2>1, <2>2, <2>3 DEF Console
<1>4. CASE UNCHANGED vars
  BY <1>0, <1>4, SameCalls DEF vars
<1> QED BY <1>1, <1>2, <1>3, <1>4 DEF Next

(* A call that ends has called every handler that wants it, also those     *)
(* that were added by the handlers it called.                              *)
THEOREM CallsStayComplete == Spec => CallsComplete
<1>1. ASSUME HostInv, CallInv, EndCall, NEW h \in handlers, Wanted(Top, h)
      PROVE  h.id \in Top.ids
  <2>1. frames # <<>> /\ h \notin Ahead /\ TypeOK
    BY <1>1 DEF EndCall, HostInv
  <2>2. Top \in Frame /\ Len(frames) \in DOMAIN frames
    BY <2>1, TopTyped
  <2>3. h.id \in Nat /\ Top.at \in Nat
    BY <2>1, <2>2 DEF TypeOK, Handler, Frame, Id
  <2>4. h.id <= Top.at
    BY <1>1, <2>1, <2>3 DEF Ahead
  <2> QED BY <1>1, <2>2, <2>4 DEF CallInv, Passed, Top
<1>2. Init => CallInv
  BY DEF Init, CallInv
<1>3. HostInv /\ CallInv /\ [Next]_vars => CallInv'
  BY CallStep
<1>4. HostInv /\ CallInv /\ [Next]_vars =>
        [Len(frames') < Len(frames) =>
           \A h \in handlers : Wanted(Top, h) => h.id \in Top.ids]_vars
  BY <1>1, CallStep
<1> QED BY <1>2, <1>3, <1>4, HostAlways, PTL DEF Spec, CallsComplete
=============================================================================
