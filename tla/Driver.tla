------------------------------- MODULE Driver -------------------------------
(***************************************************************************)
(* The Driver of driver.go: it mirrors the devices of a Model on an MQTT   *)
(* broker.  The module holds the driver's maps (devices, controls, orders, *)
(* retain flags, the cache of value topics, topics to clean up), the       *)
(* handlers the driver's goroutine runs, and the part of the broker the    *)
(* driver can observe: its retained messages and the messages it has       *)
(* passed to the driver's callbacks, which queue them on handleMessageCh.  *)
(*                                                                         *)
(* Every thunk and every handler runs in the driver's one goroutine, so it *)
(* is one step here.  The thunks the application passes to CallSync and    *)
(* WhenReady are the actions OnNewDevice, OnNewControl, RemoveDevice,      *)
(* OnValue and OnError, taken in any order; the queues they wait in, and   *)
(* Stop, are the subject of module DriverLoop.                             *)
(***************************************************************************)
EXTENDS Integers, Sequences, FiniteSets

CONSTANTS
  Devices,      \* device names
  Controls,     \* control names
  NoCtl,        \* the control part of a topic that belongs to a device
  Values,       \* control values, without the empty string
  Empty,        \* the empty payload; as a retained message it means "none"
  Text,         \* the payload of a descriptive meta topic
  BadNumber,    \* a meta/max payload that strconv.ParseFloat refuses
  ControlDefs,  \* the Control structs the model declares
  ModelOps,     \* which optional operations the model uses
  MaxObjects,   \* bound: device objects created
  MaxList,      \* bound: controls declared for one device definition
  MaxPending    \* bound: messages queued before another one is published

Types == [base: {"switch", "pushbutton"}, units: {Empty, Text}]

Control ==
  [name: Controls, title: {Empty, Text}, type: Types, units: {Empty, Text},
   value: Values, writability: {"default", "ro", "rw"}, hasMax: BOOLEAN,
   forget: BOOLEAN, order: Nat]

ASSUME NamesAssumption ==
  /\ IsFiniteSet(Devices) /\ IsFiniteSet(Controls)
  /\ NoCtl \notin Controls
ASSUME PayloadAssumption ==
  /\ Empty \notin Values /\ Text # Empty /\ BadNumber # Empty
ASSUME DefsAssumption == ControlDefs \subseteq Control
ASSUME BoundsAssumption ==
  MaxObjects \in Nat /\ MaxList \in Nat /\ MaxPending \in Nat

-----------------------------------------------------------------------------
(* Topics.  The driver subscribes to four filters (device title, control   *)
(* value, control type, control maximum) when it accepts external devices, *)
(* and to the "on" topic of each writable local control.                   *)

ExtKinds == {"title", "value", "type", "max"}
ControlKinds == {"value", "on", "type", "name", "units", "readonly",
                 "writable", "order", "max", "error"}

topic(d) == [dev |-> d, ctl |-> NoCtl, kind |-> "title"]
controlTopic(d, c, k) == [dev |-> d, ctl |-> c, kind |-> k]

ValueTopics == [dev: Devices, ctl: Controls, kind: {"value"}]
OnTopics == [dev: Devices, ctl: Controls, kind: {"on"}]
Topics == [dev: Devices, ctl: {NoCtl}, kind: {"title"}]
            \cup [dev: Devices, ctl: Controls, kind: ControlKinds]

Payloads == Values \cup {Empty, Text, BadNumber} \cup Nat
Message == [topic: Topics, payload: Payloads]

(* Device objects.  id tells the object that is registered now from the    *)
(* one it replaced; "real" is a local device connected to hardware,        *)
(* "virtual" a local one for which IsVirtual() holds.                      *)
Object == [id: Nat, name: Devices, kind: {"real", "virtual", "ext"}]
NoDev == [id |-> 0, name |-> NoCtl, kind |-> "none"]
IsLocal(dev) == dev.kind \in {"real", "virtual"}

(* driverTopic; an entry that is not in drv.topics has found = FALSE.      *)
driverTopic == [found: BOOLEAN, received: Payloads, dev: Object \cup {NoDev},
                ready: BOOLEAN, skip: BOOLEAN]
NoTopic == [found |-> FALSE, received |-> Empty, dev |-> NoDev,
            ready |-> FALSE, skip |-> FALSE]

GetType(ctl) == ctl.type.base
GetUnits(ctl) == IF ctl.units # Empty THEN ctl.units ELSE ctl.type.units
Retain(ctl) == ~ctl.forget /\ ctl.type # [base |-> "pushbutton", units |-> Empty]

-----------------------------------------------------------------------------
VARIABLES
  phase,            \* where Start() and the driver's goroutine are
  acceptsExternalDevices,
  ready,
  deviceMap,        \* name -> registered object or NoDev
  nextOrder,        \* name -> Nat, 0 when the key is absent
  controlList,      \* name -> sequence of control names
  retainMap,        \* value topic -> BOOLEAN, FALSE when the key is absent
  topics,           \* value topic -> driverTopic or NoTopic
  cleanupTopics,    \* set of topics Stop() will clear
  objects,          \* every device object created so far, by id
  subs,             \* "on" topics the client is subscribed to
  extSubs,          \* the four filters for external devices are subscribed
  declared,         \* history: "on" topics the registered objects declared
  stray,            \* history: "on" topics subscribed for other objects
  handleMessageCh,  \* messages passed to the callbacks, not yet handled
  retained,         \* broker: topic -> retained payload
  latest,           \* value topic -> last value its subscribers were sent
  owned,            \* topics on which the driver published with retain
  call              \* the call this step made into the model's devices

drvVars == <<phase, acceptsExternalDevices, ready>>
devVars == <<deviceMap, nextOrder, controlList, objects>>
netVars == <<subs, extSubs, declared, stray>>
pubVars == <<handleMessageCh, retained, latest, owned>>
vars == <<drvVars, devVars, netVars, pubVars, retainMap, topics,
          cleanupTopics, call>>

Call(m, dev, c, v) == [method |-> m, dev |-> dev, ctl |-> c, val |-> v]
NoCall == Call("none", NoDev, NoCtl, Empty)
Methods == {"none", "AcceptValue", "AcceptOnValue", "SetTitle",
            "AcceptControlType", "AcceptControlRange"}
Calls == [method: Methods, dev: Object \cup {NoDev},
          ctl: Controls \cup {NoCtl}, val: Payloads]

active == phase # "idle"

TypeOK ==
  /\ phase \in {"idle", "starting", "failed", "select", "deferred", "panicked"}
  /\ acceptsExternalDevices \in BOOLEAN
  /\ ready \in BOOLEAN
  /\ deviceMap \in [Devices -> Object \cup {NoDev}]
  /\ nextOrder \in [Devices -> Nat]
  /\ controlList \in [Devices -> Seq(Controls)]
  /\ retainMap \in [ValueTopics -> BOOLEAN]
  /\ topics \in [ValueTopics -> driverTopic]
  /\ cleanupTopics \subseteq Topics
  /\ objects \in Seq(Object)
  /\ subs \subseteq OnTopics
  /\ extSubs \in BOOLEAN
  /\ declared \subseteq OnTopics
  /\ stray \subseteq OnTopics
  /\ handleMessageCh \in Seq(Message)
  /\ retained \in [Topics -> Payloads]
  /\ latest \in [ValueTopics -> Payloads]
  /\ owned \subseteq Topics
  /\ call \in Calls

-----------------------------------------------------------------------------
(* Publishing.  The broker keeps a retained payload and sends the message  *)
(* to every subscriber, the publisher included; "queue" is what is left of *)
(* handleMessageCh in the step that publishes.                             *)

Subscribed(t) == IF t.kind = "on" THEN t \in subs
                                  ELSE extSubs /\ t.kind \in ExtKinds
Deliver(t, p) ==
  IF Subscribed(t) THEN <<[topic |-> t, payload |-> p]>> ELSE <<>>

Sent(t, p, r) ==
  /\ retained' = IF r THEN [retained EXCEPT ![t] = p] ELSE retained
  /\ latest' = IF t \in ValueTopics /\ (r \/ extSubs)
               THEN [latest EXCEPT ![t] = p] ELSE latest

publish(queue, t, p, r) ==
  /\ Sent(t, p, r)
  /\ owned' = IF r THEN owned \cup {t} ELSE owned
  /\ handleMessageCh' = queue \o Deliver(t, p)

addCleanupTopic(t) == cleanupTopics' = cleanupTopics \cup {t}

(* mutant: the topic is not put on the cleanup list                        *)
publishMetaUntracked(t, p) ==
  publish(handleMessageCh, t, p, TRUE) /\ UNCHANGED cleanupTopics

publishMeta(t, p) == publish(handleMessageCh, t, p, TRUE) /\ addCleanupTopic(t)

publishValue(queue, d, c, v) ==
  LET t == controlTopic(d, c, "value") IN publish(queue, t, v, retainMap[t])

publishOnValue(d, c, v) ==
  publish(handleMessageCh, controlTopic(d, c, "on"), v, FALSE)

-----------------------------------------------------------------------------
(* What the model does from the driver's goroutine (in model.Start(), in a *)
(* thunk given to WhenReady, in a thunk given to CallSync, in Poll).       *)

ModelRuns == /\ phase \in {"starting", "deferred", "select"}
             /\ Len(handleMessageCh) <= MaxPending

(* mutant: resetDevice() does nothing                                      *)
clearTopicDevCacheNot == topics

clearTopicDevCache ==
  [t \in ValueTopics |->
     [topics[t] EXCEPT !.dev = NoDev, !.ready = FALSE, !.skip = FALSE]]

(* delete(m, name), done only when the device is registered                *)
Deleted(m, d, absent) ==
  IF deviceMap[d] = NoDev THEN m ELSE [m EXCEPT ![d] = absent]

(* mutant: the subscriptions of a removed device are forgotten             *)
UnsubscribedNone(d) == {}

(* the "on" topics RemoveDevice unsubscribes from                          *)
Unsubscribed(d) ==
  IF IsLocal(deviceMap[d])
  THEN {controlTopic(d, controlList[d][i], "on") : i \in DOMAIN controlList[d]}
  ELSE {}

(* what RemoveDevice(d) does to the subscriptions, and their history       *)
Unsubscribe(d) ==
  /\ subs' = subs \ Unsubscribed(d)
  /\ stray' = stray \ Unsubscribed(d)
  /\ declared' = {t \in declared : t.dev # d}

RemoveDevice(d) ==
  /\ ModelRuns /\ "remove" \in ModelOps
  /\ topics' = clearTopicDevCache
  /\ Unsubscribe(d)
  /\ deviceMap' = Deleted(deviceMap, d, NoDev)
  /\ nextOrder' = Deleted(nextOrder, d, 0)
  /\ controlList' = Deleted(controlList, d, <<>>)
  /\ call' = NoCall
  /\ UNCHANGED <<drvVars, objects, extSubs, pubVars, retainMap, cleanupTopics>>

NewObject(d, k) == [id |-> Len(objects) + 1, name |-> d, kind |-> k]

OnNewDevice(d, k) ==
  /\ ModelRuns /\ Len(objects) < MaxObjects
  /\ k \in {"real", "virtual"} \/ "newext" \in ModelOps
  /\ topics' = clearTopicDevCache
  /\ Unsubscribe(d)
  /\ objects' = Append(objects, NewObject(d, k))
  /\ deviceMap' = [deviceMap EXCEPT ![d] = NewObject(d, k)]
  /\ IF k = "ext"
     THEN /\ nextOrder' = Deleted(nextOrder, d, 0)
          /\ controlList' = Deleted(controlList, d, <<>>)
          /\ UNCHANGED <<pubVars, cleanupTopics>>
     ELSE /\ nextOrder' = [nextOrder EXCEPT ![d] = 1]
          /\ controlList' = [controlList EXCEPT ![d] = <<>>]
          /\ publishMeta(topic(d), Text)
  /\ call' = NoCall
  /\ UNCHANGED <<drvVars, extSubs, retainMap>>

(* mutant: the declared value is used even in a running driver             *)
InitialValueDeclared(dev, ctl) == ctl.value

(* the value a new control starts with                                     *)
InitialValue(dev, ctl) ==
  LET t == controlTopic(dev.name, ctl.name, "value")
  IN  IF active /\ dev.kind = "virtual" /\ Retain(ctl) /\ topics[t].found
      THEN topics[t].received ELSE ctl.value

OrderOf(d, ctl) == IF ctl.order > 0 THEN ctl.order ELSE nextOrder[d]

(* mutant: > instead of >=                                                 *)
NextOrderStrict(d, ctl) ==
  IF OrderOf(d, ctl) > nextOrder[d] THEN OrderOf(d, ctl) + 1 ELSE nextOrder[d]

(* the device's order counter after the control is declared                *)
NextOrder(d, ctl) ==
  IF OrderOf(d, ctl) >= nextOrder[d] THEN OrderOf(d, ctl) + 1 ELSE nextOrder[d]

MetaKinds(ctl) ==
  {"type", "order"}
    \cup (IF ctl.title # Empty THEN {"name"} ELSE {})
    \cup (IF GetUnits(ctl) # Empty THEN {"units"} ELSE {})
    \cup (IF ctl.writability = "ro" THEN {"readonly"} ELSE {})
    \cup (IF ctl.writability = "rw" THEN {"writable"} ELSE {})
    \cup (IF ctl.hasMax THEN {"max"} ELSE {})

Writable(ctl) == ctl.writability # "ro"

(* dev may be an object that has been removed or replaced: the driver only *)
(* uses its name.                                                          *)
OnNewControl(dev, ctl) ==
  LET d     == dev.name
      t     == controlTopic(d, ctl.name, "value")
      on    == controlTopic(d, ctl.name, "on")
      value == InitialValue(dev, ctl)
      metas == {controlTopic(d, ctl.name, k) : k \in MetaKinds(ctl)}
      kept  == IF Retain(ctl) THEN metas \cup {t} ELSE metas
  IN  /\ ModelRuns /\ Len(controlList[d]) < MaxList
      /\ IsLocal(dev)
      /\ retained' = [u \in Topics |->
                        IF u \notin kept THEN retained[u]
                        ELSE CASE u = t -> value
                               [] u.kind = "order" -> OrderOf(d, ctl)
                               [] OTHER -> Text]
      /\ latest' = IF Retain(ctl) THEN [latest EXCEPT ![t] = value] ELSE latest
      /\ owned' = owned \cup kept
      /\ handleMessageCh' =
           handleMessageCh
             \o Deliver(controlTopic(d, ctl.name, "type"), Text)
             \o (IF ctl.hasMax
                 THEN Deliver(controlTopic(d, ctl.name, "max"), Text) ELSE <<>>)
             \o (IF Retain(ctl) THEN Deliver(t, value) ELSE <<>>)
      /\ nextOrder' = [nextOrder EXCEPT ![d] = NextOrder(d, ctl)]
      /\ retainMap' = [retainMap EXCEPT ![t] = Retain(ctl)]
      /\ subs' = IF Writable(ctl) THEN subs \cup {on} ELSE subs
      /\ declared' = IF Writable(ctl) /\ deviceMap[d] = dev
                     THEN declared \cup {on} ELSE declared
      /\ stray' = IF Writable(ctl) /\ deviceMap[d] # dev
                  THEN stray \cup {on} ELSE stray
      /\ controlList' = [controlList EXCEPT ![d] = Append(@, ctl.name)]
      /\ cleanupTopics' = cleanupTopics \cup metas \cup {t}
      /\ call' = NoCall
      /\ UNCHANGED <<drvVars, deviceMap, objects, extSubs, topics>>

(* dev may be an object that has been replaced since the thunk was queued. *)
OnValue(dev, c, v) ==
  /\ ModelRuns
  /\ IF dev.kind = "ext" THEN publishOnValue(dev.name, c, v)
                         ELSE publishValue(handleMessageCh, dev.name, c, v)
  /\ call' = NoCall
  /\ UNCHANGED <<drvVars, devVars, netVars, retainMap, topics, cleanupTopics>>

OnError(dev, c) ==
  /\ ModelRuns /\ "error" \in ModelOps
  /\ publishMeta(controlTopic(dev.name, c, "error"), Text)
  /\ call' = NoCall
  /\ UNCHANGED <<drvVars, devVars, netVars, retainMap, topics>>

-----------------------------------------------------------------------------
(* Message handlers.                                                       *)

(* The devices ensureDevice(d) can return: the registered one; none when   *)
(* external devices are not accepted or AddExternalDevice fails; a new one.*)
ensureDevice(d) ==
  IF deviceMap[d] # NoDev THEN {deviceMap[d]}
  ELSE {NoDev} \cup
       (IF acceptsExternalDevices /\ Len(objects) < MaxObjects
        THEN {NewObject(d, "ext")} ELSE {})

(* mutant: the result of a failed AddExternalDevice is kept                *)
RegisterFailed(d, dev) ==
  /\ deviceMap' = [deviceMap EXCEPT ![d] = dev]
  /\ objects' = IF dev = deviceMap[d] /\ dev # NoDev THEN objects
                ELSE Append(objects, dev)
  /\ UNCHANGED <<nextOrder, controlList>>

Register(d, dev) ==
  /\ deviceMap' = [deviceMap EXCEPT ![d] = dev]
  /\ objects' = IF dev \in {deviceMap[d], NoDev} THEN objects
                ELSE Append(objects, dev)
  /\ UNCHANGED <<nextOrder, controlList>>

AsExternal(dev) == IF dev.kind = "ext" THEN dev ELSE NoDev

(* the handlers that only forward a description to an external device      *)
ForwardMeta(m, method, accept) ==
  /\ \E dev \in ensureDevice(m.topic.dev) :
       /\ Register(m.topic.dev, dev)
       /\ call' = IF AsExternal(dev) # NoDev /\ accept
                  THEN Call(method, dev, m.topic.ctl, m.payload) ELSE NoCall
  /\ handleMessageCh' = Tail(handleMessageCh)
  /\ UNCHANGED <<drvVars, netVars, retained, latest, owned, retainMap, topics,
                 cleanupTopics>>

handleDeviceTitle(m) ==
  m.topic.kind = "title" /\ ForwardMeta(m, "SetTitle", TRUE)

handleExternalControlType(m) ==
  m.topic.kind = "type" /\ ForwardMeta(m, "AcceptControlType", TRUE)

handleExternalControlMax(m) ==
  m.topic.kind = "max"
    /\ ForwardMeta(m, "AcceptControlRange", m.payload # BadNumber)

handleIncomingControlOnValue(m) ==
  LET d   == m.topic.dev
      dev == deviceMap[d]
      quiet == /\ handleMessageCh' = Tail(handleMessageCh)
               /\ UNCHANGED <<retained, latest, owned>>
  IN  /\ m.topic.kind = "on"
      /\ \/ /\ dev = NoDev             \* "UNKNOWN DEVICE" is logged
            /\ quiet /\ call' = NoCall /\ UNCHANGED phase
         \/ /\ dev.kind = "ext"        \* dev.(LocalDeviceModel) panics
            /\ quiet /\ call' = NoCall /\ phase' = "panicked"
         \/ /\ IsLocal(dev)            \* AcceptOnValue asks for an echo or not
            /\ call' = Call("AcceptOnValue", dev, m.topic.ctl, m.payload)
            /\ \/ publishValue(Tail(handleMessageCh), d, m.topic.ctl, m.payload)
               \/ quiet
            /\ UNCHANGED phase
      /\ UNCHANGED <<acceptsExternalDevices, ready, devVars, netVars, retainMap,
                     topics, cleanupTopics>>

(* mutant: only the first value of a topic is recorded                     *)
RecordedOnce(m) ==
  IF topics[m.topic].found THEN topics[m.topic]
  ELSE [found |-> TRUE, received |-> m.payload, dev |-> NoDev,
        ready |-> ready, skip |-> FALSE]

(* the entry handleIncomingControlValue works on, with the value recorded  *)
Recorded(m) ==
  IF topics[m.topic].found
  THEN [topics[m.topic] EXCEPT !.received = m.payload]
  ELSE [found |-> TRUE, received |-> m.payload, dev |-> NoDev,
        ready |-> ready, skip |-> FALSE]

Looked(e) == e.dev = NoDev \/ e.ready # ready

(* mutant: local devices take values after the driver is ready, too        *)
ResolvedAny(e, dev) ==
  [e EXCEPT !.dev = dev, !.ready = ready,
            !.skip = IF dev = NoDev THEN e.skip ELSE dev.kind = "real"]

Resolved(e, dev) ==
  LET target == IF ready THEN AsExternal(dev) ELSE dev
  IN  [e EXCEPT !.dev = target, !.ready = ready,
                !.skip = IF target = NoDev THEN e.skip ELSE target.kind = "real"]

handleIncomingControlValue(m) ==
  LET store(e) ==
        /\ topics' = [topics EXCEPT ![m.topic] = e]
        /\ call' = IF e.dev = NoDev \/ e.skip THEN NoCall
                   ELSE Call("AcceptValue", e.dev, m.topic.ctl, m.payload)
  IN  /\ m.topic.kind = "value"
      /\ IF Looked(Recorded(m))
         THEN \E dev \in ensureDevice(m.topic.dev) :
                Register(m.topic.dev, dev) /\ store(Resolved(Recorded(m), dev))
         ELSE store(Recorded(m)) /\ UNCHANGED devVars
      /\ handleMessageCh' = Tail(handleMessageCh)
      /\ UNCHANGED <<drvVars, netVars, retained, latest, owned, retainMap,
                     cleanupTopics>>

HandleMessage ==
  /\ phase = "select" /\ handleMessageCh # <<>>
  /\ LET m == Head(handleMessageCh)
     IN  \/ handleDeviceTitle(m)
         \/ handleExternalControlType(m)
         \/ handleExternalControlMax(m)
         \/ handleIncomingControlOnValue(m)
         \/ handleIncomingControlValue(m)

-----------------------------------------------------------------------------
(* Start() and the goroutine's reaction to the client becoming ready.      *)

SetAcceptsExternalDevices(accepts) ==   \* panics on an active driver
  /\ ~active
  /\ acceptsExternalDevices' = accepts
  /\ call' = NoCall
  /\ UNCHANGED <<phase, ready, devVars, netVars, pubVars, retainMap, topics,
                 cleanupTopics>>

Goto(p) ==
  /\ phase' = p /\ call' = NoCall
  /\ UNCHANGED <<acceptsExternalDevices, devVars, retainMap, topics,
                 cleanupTopics>>

Start == ~active /\ Goto("starting") /\ UNCHANGED <<ready, netVars, pubVars>>

StartFailed ==   \* model.Start() returned an error
  phase = "starting" /\ Goto("failed") /\ UNCHANGED <<ready, netVars, pubVars>>

(* A broker answers a subscription with the retained messages it matches,  *)
(* in an order of its own.                                                 *)
RetainedOf(k) ==
  {[topic |-> t, payload |-> retained[t]] :
     t \in {u \in Topics : u.kind = k /\ retained[u] # Empty}}

Listings(S) ==
  {s \in [1..Cardinality(S) -> S] : \A m \in S : \E i \in DOMAIN s : s[i] = m}

StartLoop ==     \* the rest of Start(): subscriptions, go func()
  /\ phase = "starting" /\ Goto("select")
  /\ extSubs' = acceptsExternalDevices
  /\ IF acceptsExternalDevices
     THEN \E s1 \in Listings(RetainedOf("title")),
             s2 \in Listings(RetainedOf("value")),
             s3 \in Listings(RetainedOf("type")),
             s4 \in Listings(RetainedOf("max")) :
            handleMessageCh' = handleMessageCh \o s1 \o s2 \o s3 \o s4
     ELSE UNCHANGED handleMessageCh
  /\ UNCHANGED <<ready, subs, declared, stray, retained, latest, owned>>

(* select may take <-readyCh although messages wait in handleMessageCh;    *)
(* whenReady.Ready() runs the deferred thunks before ready becomes TRUE.   *)
WhenReady ==
  /\ phase = "select" /\ ~ready /\ Goto("deferred")
  /\ UNCHANGED <<ready, netVars, pubVars>>

BecomeReady ==
  /\ phase = "deferred" /\ Goto("select") /\ ready' = TRUE
  /\ UNCHANGED <<netVars, pubVars>>

-----------------------------------------------------------------------------
(* Other MQTT clients: they set values and descriptions of any device and  *)
(* write to "on" topics.                                                   *)

ClientPublish(t, p) ==
  /\ Len(handleMessageCh) < MaxPending
  /\ Sent(t, p, t.kind # "on")
  /\ handleMessageCh' = handleMessageCh \o Deliver(t, p)
  /\ call' = NoCall
  /\ UNCHANGED <<drvVars, devVars, netVars, owned, retainMap, topics,
                 cleanupTopics>>

ClientPayloads(t) ==
  CASE t.kind \in {"value", "on"} -> Values \cup {Empty}
    [] t.kind = "max" -> {Text, BadNumber}
    [] OTHER -> {Text}

-----------------------------------------------------------------------------
Init ==
  /\ phase = "idle"
  /\ acceptsExternalDevices = FALSE
  /\ ready = FALSE
  /\ deviceMap = [d \in Devices |-> NoDev]
  /\ nextOrder = [d \in Devices |-> 0]
  /\ controlList = [d \in Devices |-> <<>>]
  /\ retainMap = [t \in ValueTopics |-> FALSE]
  /\ topics = [t \in ValueTopics |-> NoTopic]
  /\ cleanupTopics = {}
  /\ objects = <<>>
  /\ subs = {}
  /\ extSubs = FALSE
  /\ declared = {}
  /\ stray = {}
  /\ handleMessageCh = <<>>
  /\ retained = [t \in Topics |-> Empty]
  /\ latest = [t \in ValueTopics |-> Empty]
  /\ owned = {}
  /\ call = NoCall

ModelNext ==
  \/ \E d \in Devices : RemoveDevice(d)
  \/ \E d \in Devices, k \in {"real", "virtual", "ext"} : OnNewDevice(d, k)
  \/ \E i \in DOMAIN objects :
       \/ \E ctl \in ControlDefs : OnNewControl(objects[i], ctl)
       \/ \E c \in Controls, v \in Values : OnValue(objects[i], c, v)
       \/ \E c \in Controls : OnError(objects[i], c)

ClientNext ==
  \E t \in {u \in Topics : u.kind \in ExtKinds \cup {"on"}} :
    \E p \in ClientPayloads(t) : ClientPublish(t, p)

LoopNext == Start \/ StartFailed \/ StartLoop \/ WhenReady \/ BecomeReady

Next ==
  \/ \E b \in BOOLEAN : SetAcceptsExternalDevices(b)
  \/ LoopNext
  \/ HandleMessage
  \/ ModelNext
  \/ ClientNext

Spec == Init /\ [][Next]_vars

-----------------------------------------------------------------------------
(* Properties.                                                             *)

(* A cached driverTopic never outlives its device: the cached object is    *)
(* the one registered under the name now (clearTopicDevCache in            *)
(* RemoveDevice and OnNewDevice), what was cached once the driver was      *)
(* ready is external, and skip marks exactly the hardware devices.         *)
CacheCoherent ==
  \A t \in ValueTopics :
    LET e == topics[t]
    IN  e.dev # NoDev =>
          /\ e.dev = deviceMap[t.dev]
          /\ e.ready => e.dev.kind = "ext"
          /\ e.skip <=> e.dev.kind = "real"

(* Whatever order messages, definitions, redefinitions and the ready       *)
(* signal come in, a handler only calls the device object that is          *)
(* registered at that moment; "devices that are connected to hardware must *)
(* not pick up retained values", and once the driver is ready no local     *)
(* device takes a value topic for input (handleIncomingControlValue).      *)
CallsAreProper ==
  call.method # "none" =>
    /\ call.dev # NoDev
    /\ call.dev = deviceMap[call.dev.name]
    /\ call.method = "AcceptValue" =>
         /\ call.dev.kind # "real"
         /\ ready => call.dev.kind = "ext"

(* Through any sequence of definitions, redefinitions (as external too)    *)
(* and removals, every writable control in the current definition of a     *)
(* registered local device has its "on" subscription, and no other         *)
(* subscription is left, except one made because an object that was not    *)
(* the registered one declared a control: OnNewControl lists it under the  *)
(* name, and RemoveDevice drops that list unread if no local device has it.*)
SubscriptionsOwned ==
  /\ declared \subseteq subs
  /\ subs \subseteq declared \cup stray

(* nextOrder exceeds every order published for the device's current        *)
(* controls, so that OnNewControl can use it for a control without one.    *)
OrdersBelowNext ==
  \A d \in Devices : \A i \in DOMAIN controlList[d] :
    LET o == retained[controlTopic(d, controlList[d][i], "order")]
    IN  o \in Nat /\ o < nextOrder[d]

(* Everything the driver ever published with retain is on the list that    *)
(* performCleanup() clears, values published by OnValue or echoed after a  *)
(* redefinition or removal of the device included.                         *)
CleanupComplete == owned \subseteq cleanupTopics

(* indexes of the queued messages on topic t                               *)
Pending(t) == {i \in DOMAIN handleMessageCh : handleMessageCh[i].topic = t}

(* the value of t once the queue is handled                                *)
View(t) ==
  IF Pending(t) = {} THEN topics[t].received
  ELSE handleMessageCh[CHOOSE i \in Pending(t) :
                         \A j \in Pending(t) : j <= i].payload

(* The driver's record of a value topic (driverTopic.ReceivedValue),       *)
(* brought up to date with the queued messages, is the last value the      *)
(* broker sent: no message is lost, applied twice or out of order,         *)
(* the driver's own publications that come back to it included.            *)
ViewTracksBroker ==
  extSubs => \A t \in ValueTopics : View(t) = latest[t]

(* OnNewControl on a virtual device in a running driver                    *)
Redefines(dev, ctl) ==
  /\ OnNewControl(dev, ctl)
  /\ dev.kind = "virtual" /\ Retain(ctl) /\ extSubs

(* "keep value in the case of new virtual device definition in the running *)
(* driver": a definition that finds no unhandled message for its topic     *)
(* publishes the value the broker has.                                     *)
CaughtUpKeepsValue ==
  [][\A i \in DOMAIN objects, ctl \in ControlDefs :
       LET t == controlTopic(objects[i].name, ctl.name, "value")
       IN  Redefines(objects[i], ctl) /\ Pending(t) = {} /\ latest[t] # Empty
             => retained'[t] = latest[t]]_vars

(* The same in a driver that is ready, with nothing said about unhandled   *)
(* messages: a new definition never overwrites the retained value.         *)
RedefinitionKeepsValue ==
  [][\A i \in DOMAIN objects, ctl \in ControlDefs :
       LET t == controlTopic(objects[i].name, ctl.name, "value")
       IN  Redefines(objects[i], ctl) /\ ready /\ retained[t] # Empty
             => retained'[t] = retained[t]]_vars

(* dev.(LocalDeviceModel) in handleIncomingControlOnValue asserts that the *)
(* device an "on" message is for is local.                                 *)
OnDeviceIsLocal == phase # "panicked"
=============================================================================
