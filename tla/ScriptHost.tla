----------------------------- MODULE ScriptHost -----------------------------
(***************************************************************************)
(* The scripts of the server: resources, each with a script VM; the        *)
(* handlers their scripts add to events; the calls of events, which nest,  *)
(* and whose handlers add and remove handlers; and the commands of the     *)
(* console that load, reload and unload resources.                         *)
(*                                                                         *)
(* The list of an event is in the order its handlers were added in, so it  *)
(* is a set here and a handler its number in that order.  A function is    *)
(* the run of the script that made it.  The console has a thread of its    *)
(* own, and where it meets the main loop's calls the model ends.           *)
(***************************************************************************)
EXTENDS Naturals, Sequences, FiniteSets

CONSTANTS
  Resource,
  Lua,             \* the resources whose scripts are in Lua; else Squirrel
  Event,
  ScriptLoaded, ResourceStarted,  \* the events of a resource's start
  MaxVMs,          \* bound: the VMs ever created
  MaxHandlers,     \* bound: the handlers ever added
  MaxDepth,        \* bound: the calls within calls
  None

ASSUME ScriptHostAssumption ==
  /\ Lua \subseteq Resource
  /\ {ScriptLoaded, ResourceStarted} \subseteq Event
  /\ MaxVMs \in Nat /\ MaxHandlers \in Nat /\ MaxDepth \in Nat \ {0}
  /\ None \notin 1 .. MaxVMs

VARIABLES
  listed,    \* CResourceManager::m_resources
  vmOf,      \* CResource::m_pVM
  loaded,    \* CResource::m_bLoaded
  files,     \* the scripts in CResource::m_resourceFiles
  owner,     \* the resource of each VM created so far
  alive,     \* the VMs that have not been destroyed
  ran,       \* the scripts each VM has run
  handlers,  \* CEvents::m_Events; an event with none has no entry
  added,     \* the handlers added so far
  frames,    \* the calls of CEvents::Call under way, the innermost last
  task,      \* the start of a resource that is under way
  hollow,    \* history: the resources whose last load gave no script, or
             \* failed
  stopped    \* why the server has stopped: "no", or the memory it misused

resourceVars == <<listed, vmOf, loaded, files, owner, alive, hollow>>
vars == <<resourceVars, ran, handlers, added, frames, task, stopped>>

VM == 1 .. MaxVMs
Id == 1 .. MaxHandlers
Type == {"RESOURCE", "GLOBAL", "REMOTE"}

Handler == [id : Id, event : Event, type : Type, vm : VM, function : Nat]

(* at is the handler the iterator of the range-for stands on and in its    *)
(* VM; ids are the handlers called so far; without args, pArguments is     *)
(* null.                                                                   *)
Frame == [event : Event, type : Type \cup {"NATIVE"}, vm : VM \cup {None},
          args : BOOLEAN, at : Id \cup {0}, in : VM \cup {None},
          ids : SUBSET Id]

Task == [resource : Resource, left : Nat, step : {"next", "script", "started"}]

TypeOK ==
  /\ listed \in Seq(Resource)
  /\ vmOf \in [Resource -> VM \cup {None}]
  /\ loaded \subseteq Resource
  /\ files \in [Resource -> Nat]
  /\ owner \in Seq(Resource) /\ Len(owner) <= MaxVMs
  /\ alive \subseteq VM
  /\ ran \in [VM -> Nat]
  /\ handlers \subseteq Handler
  /\ added \in 0 .. MaxHandlers
  /\ frames \in Seq(Frame) /\ Len(frames) <= MaxDepth
  /\ task \in Task \cup {None}
  /\ hollow \subseteq Resource
  /\ stopped \in {"no", "null_VM", "null_arguments", "null_resource",
                  "freed_VM", "freed_handler", "freed_event",
                  "freed_resource", "race"}

Init ==
  /\ listed = <<>> /\ vmOf = [r \in Resource |-> None]
  /\ loaded = {} /\ files = [r \in Resource |-> 0]
  /\ owner = <<>> /\ alive = {} /\ ran = [v \in VM |-> 0]
  /\ handlers = {} /\ added = 0 /\ frames = <<>>
  /\ task = None /\ hollow = {} /\ stopped = "no"
-----------------------------------------------------------------------------
(* Calls of events.                                                        *)

Of(e) == {h \in handlers : h.event = e}

Least(S) == CHOOSE h \in S : \A k \in S : h.id <= k.id

(* CEvents::Call passes over the handlers of another type, or VM.          *)
Wanted(f, h) ==
  /\ h.event = f.event
  /\ h.type = IF f.type = "NATIVE" THEN "RESOURCE" ELSE f.type
  /\ \/ f.type = "RESOURCE" /\ h.vm = f.vm
     \/ f.type = "NATIVE" /\ f.vm \in {None, h.vm}
     \/ f.type \in {"GLOBAL", "REMOTE"}

Call(e, type, v, args) ==
  /\ Len(frames) < MaxDepth
  /\ frames' = Append(frames, [event |-> e, type |-> type, vm |-> v,
                               args |-> args, at |-> 0, in |-> None,
                               ids |-> {}])

Top == frames[Len(frames)]
Below == SubSeq(frames, 1, Len(frames) - 1)

(* A mutant: the loop is left with the first handler's answer.             *)
AheadOnce == {h \in handlers : Wanted(Top, h) /\ Top.at = 0}

(* The handlers the loop has yet to come to: those after the iterator.     *)
Ahead == {h \in handlers : Wanted(Top, h) /\ h.id > Top.at}

(* The iterator's handler has been erased from the list.                   *)
Lost == Top.at # 0 /\ \A h \in Of(Top.event) : h.id # Top.at

(* The handler that was called returns, and the loop goes on to the next.  *)
Advance ==
  /\ stopped = "no" /\ frames # <<>> /\ ~ Lost /\ Ahead # {}
  /\ LET h == Least(Ahead) IN
     /\ frames' = Append(Below, [Top EXCEPT !.at = h.id, !.in = h.vm,
                                            !.ids = @ \cup {h.id}])
     /\ stopped' = CASE h.vm \notin alive -> "freed_VM"
                     [] h.vm \in alive /\ owner[h.vm] \in Lua /\ ~ Top.args
                          -> "null_arguments"
                     [] OTHER -> "no"
  /\ UNCHANGED <<resourceVars, ran, handlers, added, task>>

EndCall ==
  /\ stopped = "no" /\ frames # <<>> /\ ~ Lost /\ Ahead = {}
  /\ frames' = Below
  /\ UNCHANGED <<resourceVars, ran, handlers, added, task, stopped>>

LoseCall ==
  /\ stopped = "no" /\ frames # <<>> /\ Lost
  /\ stopped' = "freed_handler"
  /\ UNCHANGED <<resourceVars, ran, handlers, added, frames, task>>
-----------------------------------------------------------------------------
(* Scripts.                                                                *)

(* The VM whose script runs: of the handler that is called, or of the      *)
(* resource whose script file is being run.                                *)
Running ==
  IF frames # <<>> THEN Top.in
  ELSE IF task # None /\ task.step = "script" THEN vmOf[task.resource]
  ELSE None

(* A native looks its VM up in the list of resources, up to its own: a     *)
(* resource without a VM before it is a null pointer.                      *)
MayCall == stopped = "no" /\ Running # None

NullBefore ==
  \E i \in DOMAIN listed :
    /\ vmOf[listed[i]] = None
    /\ \A j \in 1 .. i : vmOf[listed[j]] # Running

(* Add ends by going through all handlers of all events.                   *)
Dangling(S) == \E h \in S : h.vm \notin alive

New(e, type, k) ==
  [id |-> added + 1, event |-> e, type |-> type, vm |-> Running,
   function |-> k]

(* A handler in Lua is never equal to another: its reference is new.       *)
Twin(h, k) ==
  /\ h.event = k.event /\ h.type = k.type /\ h.vm = k.vm
  /\ h.function = k.function
  /\ owner[h.vm] \notin Lua

(* addEvent, addGlobalEvent, addRemoteEvent and addCommandHandler.         *)
AddEvent(e, type, k) ==
  /\ MayCall /\ ~ NullBefore /\ added < MaxHandlers
  /\ k <= ran[Running]
  /\ LET h == New(e, type, k) IN
     /\ \A other \in handlers : ~ Twin(h, other)
     /\ handlers' = handlers \cup {h}
     /\ added' = added + 1
     /\ stopped' = IF Dangling(handlers') THEN "freed_VM" ELSE "no"
  /\ UNCHANGED <<resourceVars, ran, frames, task>>

(* CEvents::RemoveEvent for removeEvent: the first handler of the caller,  *)
(* whatever its type; in Lua none.                                         *)
RemoveEvent(e) ==
  /\ MayCall /\ ~ NullBefore
  /\ owner[Running] \notin Lua
  /\ LET own == {h \in Of(e) : h.vm = Running} IN
     /\ own # {}
     /\ handlers' = handlers \ {Least(own)}
  /\ UNCHANGED <<resourceVars, ran, added, frames, task, stopped>>

(* For removeGlobalEvent and removeRemoteEvent: the first handler of the   *)
(* type, whosever it is.                                                   *)
RemoveTyped(e, type) ==
  /\ MayCall /\ ~ NullBefore
  /\ type # "RESOURCE"
  /\ LET all == {h \in Of(e) : h.type = type} IN
     /\ all # {}
     /\ handlers' = handlers \ {Least(all)}
  /\ UNCHANGED <<resourceVars, ran, added, frames, task, stopped>>

(* triggerEvent and triggerGlobalEvent pass no arguments.                  *)
Trigger(e, type) ==
  /\ MayCall /\ ~ NullBefore
  /\ \/ type = "RESOURCE" /\ Call(e, type, Running, FALSE)
     \/ type = "GLOBAL" /\ Call(e, type, None, FALSE)
  /\ UNCHANGED <<resourceVars, ran, handlers, added, task, stopped>>

(* Any of the natives, with a null pointer in its way.                     *)
NullNative ==
  /\ MayCall /\ NullBefore
  /\ stopped' = "null_VM"
  /\ UNCHANGED <<resourceVars, ran, handlers, added, frames, task>>
-----------------------------------------------------------------------------
(* The server: events of players, and events a client triggers.            *)

Resting == stopped = "no" /\ frames = <<>> /\ task = None

CallNative(e) ==
  /\ Resting /\ Of(e) # {}
  /\ Call(e, "NATIVE", None, TRUE)
  /\ UNCHANGED <<resourceVars, ran, handlers, added, task, stopped>>

TriggerServerEvent(e) ==
  /\ Resting /\ Of(e) # {}
  /\ Call(e, "REMOTE", None, TRUE)
  /\ UNCHANGED <<resourceVars, ran, handlers, added, task, stopped>>
-----------------------------------------------------------------------------
(* The console's commands.                                                 *)

Listed(r) == \E i \in DOMAIN listed : listed[i] = r

(* A mutant: the pointer to the VM is left when the VM is destroyed, and   *)
(* CreateVM sees one.                                                      *)
LoadAndStartStale(r) ==
  /\ Len(owner) < MaxVMs
  /\ owner' = IF vmOf[r] = None THEN Append(owner, r) ELSE owner
  /\ alive' = IF vmOf[r] = None THEN alive \cup {Len(owner')}
              ELSE alive \ {vmOf[r]}
  /\ vmOf' = [vmOf EXCEPT ![r] = Len(owner')]
  /\ files' = [files EXCEPT ![r] = @ + 1]
  /\ loaded' = loaded \cup {r} /\ hollow' = hollow \ {r}
  /\ task' = [resource |-> r, left |-> files'[r], step |-> "next"]

(* CResource::Load has found a script file and appended it, to those of an *)
(* earlier load too, or has found none; then Start, which creates a VM if  *)
(* the resource has a script language.                                     *)
LoadAndStart(r) ==
  /\ loaded' = loaded \cup {r}
  /\ \/ /\ Len(owner) < MaxVMs
        /\ owner' = Append(owner, r)
        /\ alive' = (alive \ {vmOf[r]}) \cup {Len(owner')}
        /\ vmOf' = [vmOf EXCEPT ![r] = Len(owner')]
        /\ files' = [files EXCEPT ![r] = @ + 1]
        /\ hollow' = hollow \ {r}
        /\ task' = [resource |-> r, left |-> files'[r], step |-> "next"]
     \/ /\ files[r] = 0
        /\ vmOf' = [vmOf EXCEPT ![r] = None]
        /\ hollow' = hollow \cup {r}
        /\ task' = [resource |-> r, left |-> 0, step |-> "next"]
        /\ UNCHANGED <<files, owner, alive>>

Load(r) ==
  /\ ~ Listed(r)
  /\ listed' = Append(listed, r)
  /\ LoadAndStart(r)
  /\ UNCHANGED <<ran, handlers, added, frames, stopped>>

LoadResource(r) == Resting /\ Load(r)

(* A mutant: only the handlers of addEvent are looked for.                 *)
RemainingTyped(v) ==
  {h \in handlers :
     h.vm # v \/ owner[h.vm] \in Lua \/ h.type # "RESOURCE"}

(* RemoveResourceEvents: the handlers in Lua stay.  Erasing an event that  *)
(* has none left, the loop increments an iterator of freed memory; and it  *)
(* ends by going through all handlers of all events.                       *)
Remaining(v) == {h \in handlers : h.vm # v \/ owner[h.vm] \in Lua}

Emptied(v) == \E h \in handlers : \A k \in Remaining(v) : k.event # h.event

RemoveResourceEvents(v) ==
  /\ handlers' = Remaining(v)
  /\ IF Dangling(handlers') THEN stopped' = "freed_VM"
     ELSE stopped' \in {"no"} \cup IF Emptied(v) THEN {"freed_event"} ELSE {}

(* CResource::Stop, which destroys the VM too, does nothing to a resource  *)
(* that is not loaded: one whose reload has failed, and which has no VM.   *)
StopEvents(r) ==
  IF r \in loaded THEN RemoveResourceEvents(vmOf[r])
                  ELSE UNCHANGED <<handlers, stopped>>

(* reloadresource of a resource: Unload and Load, which may fail now, and  *)
(* leaves the resource in the list.                                        *)
ReloadResource(r) ==
  /\ Resting /\ Listed(r)
  /\ StopEvents(r)
  /\ \/ LoadAndStart(r)
     \/ /\ alive' = alive \ {vmOf[r]}
        /\ loaded' = loaded \ {r}
        /\ vmOf' = [vmOf EXCEPT ![r] = None]
        /\ hollow' = hollow \cup {r}
        /\ UNCHANGED <<files, owner, task>>
  /\ UNCHANGED <<listed, ran, added, frames>>

(* Of one that is not in the list: it is loaded, or null is started.       *)
ReloadAbsent(r) ==
  /\ Resting /\ ~ Listed(r)
  /\ stopped' = "null_resource"
  /\ UNCHANGED <<resourceVars, ran, handlers, added, frames, task>>

(* A mutant: the resource stays in the list.                               *)
UnloadResourceListed(r) ==
  /\ Resting /\ Listed(r)
  /\ alive' = alive \ {vmOf[r]}
  /\ vmOf' = [vmOf EXCEPT ![r] = None]
  /\ loaded' = loaded \ {r} /\ StopEvents(r)
  /\ UNCHANGED <<listed, files, hollow, owner, ran, added, frames, task>>

(* Unload ends with the name of the resource it has deleted.  One that is  *)
(* not loaded has no VM, and all handlers remain.                          *)
UnloadResource(r) ==
  /\ Resting
  /\ \E i \in DOMAIN listed :
       /\ listed[i] = r
       /\ listed' = SubSeq(listed, 1, i - 1)
                    \o SubSeq(listed, i + 1, Len(listed))
  /\ alive' = alive \ {vmOf[r]}
  /\ vmOf' = [vmOf EXCEPT ![r] = None]
  /\ files' = [files EXCEPT ![r] = 0]
  /\ loaded' = loaded \ {r} /\ hollow' = hollow \ {r}
  /\ \/ StopEvents(r)
     \/ stopped' = "freed_resource" /\ handlers' = Remaining(vmOf[r])
  /\ UNCHANGED <<owner, ran, added, frames, task>>

Starting(step) == stopped = "no" /\ frames = <<>> /\ task # None /\ task.step = step

(* A mutant: one file too many.                                            *)
RunScriptBeyond ==
  /\ Starting("next")
  /\ task' = [task EXCEPT !.step = "script", !.left = @ - 1]
  /\ ran' = [ran EXCEPT ![vmOf[task.resource]] = @ + 1]
  /\ UNCHANGED <<resourceVars, handlers, added, frames, stopped>>

RunScript ==
  /\ Starting("next") /\ task.left > 0
  /\ task' = [task EXCEPT !.step = "script", !.left = @ - 1]
  /\ ran' = [ran EXCEPT ![vmOf[task.resource]] = @ + 1]
  /\ UNCHANGED <<resourceVars, handlers, added, frames, stopped>>

(* A script that fails ends without the event.                             *)
EndScript ==
  /\ Starting("script")
  /\ task' = [task EXCEPT !.step = "next"]
  /\ \/ Call(ScriptLoaded, "NATIVE", vmOf[task.resource], TRUE)
     \/ UNCHANGED frames
  /\ UNCHANGED <<resourceVars, ran, handlers, added, stopped>>

CallStarted ==
  /\ Starting("next") /\ task.left = 0
  /\ task' = [task EXCEPT !.step = "started"]
  /\ Call(ResourceStarted, "NATIVE", vmOf[task.resource], TRUE)
  /\ UNCHANGED <<resourceVars, ran, handlers, added, stopped>>

EndStart ==
  /\ Starting("started")
  /\ task' = None
  /\ UNCHANGED <<resourceVars, ran, handlers, added, frames, stopped>>

(* Nothing is locked: a command may be taken in the middle of the main     *)
(* loop's calls, and a call made in the middle of a resource's start.      *)
(* What comes of the lists and VMs that both use is undefined.             *)
Race ==
  /\ stopped = "no" /\ (frames # <<>> \/ task # None)
  /\ stopped' = "race"
  /\ UNCHANGED <<resourceVars, ran, handlers, added, frames, task>>
-----------------------------------------------------------------------------
Script ==
  \/ \E e \in Event :
       \/ \E type \in Type, k \in 1 .. MaxVMs : AddEvent(e, type, k)
       \/ RemoveEvent(e)
       \/ \E type \in Type : RemoveTyped(e, type) \/ Trigger(e, type)
  \/ NullNative

Server ==
  \/ Advance \/ EndCall \/ LoseCall
  \/ \E e \in Event : CallNative(e) \/ TriggerServerEvent(e)

Console ==
  \/ \E r \in Resource :
       LoadResource(r) \/ ReloadResource(r) \/ ReloadAbsent(r) \/ UnloadResource(r)
  \/ RunScript \/ EndScript \/ CallStarted \/ EndStart \/ Race

Next == Script \/ Server \/ Console

Spec == Init /\ [][Next]_vars
-----------------------------------------------------------------------------
(* No handler in Squirrel outlives its VM, or belongs to a resource that   *)
(* has another one by now, however the resource came to lose it.           *)
HandlersLive ==
  \A h \in handlers : owner[h.vm] \notin Lua =>
    /\ h.vm \in alive
    /\ Listed(owner[h.vm]) /\ vmOf[owner[h.vm]] = h.vm

(* What scripts and commands do, taken one at a time, stops the server     *)
(* over a VM that is gone only if a handler in Lua was left behind, and    *)
(* over a null VM only if a load has given no script or has failed.        *)
StopsExplained ==
  /\ stopped = "freed_VM" =>
       \E h \in handlers : owner[h.vm] \in Lua /\ h.vm \notin alive
  /\ stopped = "null_VM" => hollow # {}

(* Outside of a command every resource in the list has a VM, which is what *)
(* timers and natives take for granted, but for one whose load gave no     *)
(* script or whose reload failed.                                          *)
ListedHaveVM ==
  \A r \in Resource : Listed(r) /\ r \notin hollow =>
    vmOf[r] \in alive /\ owner[vmOf[r]] = r

(* A call that comes to its end has called every handler that is           *)
(* registered for it by then, those added in the middle of it too.         *)
CallsComplete ==
  [][Len(frames') < Len(frames) =>
       \A h \in handlers : Wanted(Top, h) => h.id \in Top.ids]_vars

(* triggerEvent and triggerGlobalEvent run the handlers of the event,      *)
(* whatever they are written in (Example1_squirrel/Hello.nut, line 7:      *)
(* "calls event in Hello.lua").                                            *)
TriggersReachLua == stopped # "null_arguments"
=============================================================================
