---------------------------- MODULE DriverProofs ----------------------------
(***************************************************************************)
(* Proofs about module Driver, for every set of devices, controls, values  *)
(* and control definitions and every bound.                                *)
(***************************************************************************)
EXTENDS Driver, FiniteSetTheorems, TLAPS

-----------------------------------------------------------------------------
(* Facts about topics and messages.                                        *)

(* The topics the driver builds are topics.                                *)
LEMMA TopicsTyped ==
  /\ ValueTopics \subseteq Topics
  /\ OnTopics \subseteq Topics
  /\ \A d \in Devices :
       /\ topic(d) \in Topics
       /\ topic(d) \notin ValueTopics
       /\ \A c \in Controls :
            /\ controlTopic(d, c, "value") \in ValueTopics
            /\ controlTopic(d, c, "on") \in OnTopics
            /\ \A k \in ControlKinds : controlTopic(d, c, k) \in Topics
BY DEF ValueTopics, OnTopics, Topics, topic, controlTopic, ControlKinds

(* What the driver publishes are payloads.                                 *)
LEMMA PayloadsTyped ==
  /\ Empty \in Payloads /\ Text \in Payloads
  /\ Values \subseteq Payloads /\ Nat \subseteq Payloads
BY DEF Payloads

(* No device object is the absent one.                                     *)
LEMMA NoDevIsNoObject == NoDev \notin Object
BY DEF NoDev, Object

(* What the broker delivers are messages.                                  *)
LEMMA DeliverTyped ==
  ASSUME NEW t \in Topics, NEW p \in Payloads
  PROVE  Deliver(t, p) \in Seq(Message)
<1>1. <<[topic |-> t, payload |-> p]>> \in Seq(Message) BY DEF Message
<1>2. <<>> \in Seq(Message) OBVIOUS
<1> QED BY <1>1, <1>2, Zenon DEF Deliver

(* A message sent keeps the broker's state typed.                          *)
LEMMA SentTyped ==
  ASSUME TypeOK, NEW t \in Topics, NEW p \in Payloads, NEW r \in BOOLEAN,
         Sent(t, p, r)
  PROVE  retained' \in [Topics -> Payloads] /\ latest' \in [ValueTopics -> Payloads]
BY DEF TypeOK, Sent

(* So does the driver's publish, and its queue is typed as well.           *)
LEMMA PublishTyped ==
  ASSUME TypeOK, NEW t \in Topics, NEW p \in Payloads, NEW r \in BOOLEAN,
         NEW q \in Seq(Message), publish(q, t, p, r)
  PROVE  /\ retained' \in [Topics -> Payloads]
         /\ latest' \in [ValueTopics -> Payloads]
         /\ owned' \subseteq Topics
         /\ handleMessageCh' \in Seq(Message)
<1>1. Sent(t, p, r) BY DEF publish
<1>2. Deliver(t, p) \in Seq(Message) BY DeliverTyped
<1>3. q \o Deliver(t, p) \in Seq(Message) BY <1>2
<1>4. owned' \subseteq Topics BY DEF publish, TypeOK
<1> QED BY <1>1, <1>3, <1>4, SentTyped DEF publish

(* So does publishMeta.                                                    *)
LEMMA PublishMetaTyped ==
  ASSUME TypeOK, NEW t \in Topics, NEW p \in Payloads, publishMeta(t, p)
  PROVE  /\ retained' \in [Topics -> Payloads]
         /\ latest' \in [ValueTopics -> Payloads]
         /\ owned' \subseteq Topics
         /\ handleMessageCh' \in Seq(Message)
         /\ cleanupTopics' \subseteq Topics
<1>1. publish(handleMessageCh, t, p, TRUE) BY DEF publishMeta
<1>2. handleMessageCh \in Seq(Message) BY DEF TypeOK
<1>3. cleanupTopics' \subseteq Topics BY DEF publishMeta, addCleanupTopic, TypeOK
<1> QED BY <1>1, <1>2, <1>3, PublishTyped

(* The calls into devices are typed.                                       *)
LEMMA CallTyped ==
  /\ NoCall \in Calls
  /\ \A m \in Methods, dev \in Object, c \in Controls \cup {NoCtl}, v \in Payloads :
       Call(m, dev, c, v) \in Calls
BY DEF NoCall, Call, Calls, Methods, Payloads

(* Clearing the cache leaves typed entries.                                *)
LEMMA ClearedTyped ==
  ASSUME TypeOK
  PROVE  clearTopicDevCache \in [ValueTopics -> driverTopic]
BY DEF TypeOK, clearTopicDevCache, driverTopic

(* The initial state is typed.                                             *)
LEMMA InitTyped == Init => TypeOK
<1> SUFFICES ASSUME Init PROVE TypeOK OBVIOUS
<1>1. topics \in [ValueTopics -> driverTopic]
  BY PayloadsTyped DEF Init, NoTopic, driverTopic
<1>2. call \in Calls BY CallTyped DEF Init
<1>3. /\ objects \in Seq(Object) /\ handleMessageCh \in Seq(Message)
      /\ controlList \in [Devices -> Seq(Controls)]
  BY DEF Init
<1>4. /\ phase \in {"idle", "starting", "failed", "select", "deferred", "panicked"}
      /\ acceptsExternalDevices \in BOOLEAN /\ ready \in BOOLEAN /\ extSubs \in BOOLEAN
      /\ cleanupTopics \subseteq Topics /\ subs \subseteq OnTopics /\ owned \subseteq Topics
      /\ declared \subseteq OnTopics /\ stray \subseteq OnTopics
  BY DEF Init
<1>5. /\ deviceMap \in [Devices -> Object \cup {NoDev}]
      /\ nextOrder \in [Devices -> Nat]
      /\ retainMap \in [ValueTopics -> BOOLEAN]
      /\ retained \in [Topics -> Payloads]
      /\ latest \in [ValueTopics -> Payloads]
  BY PayloadsTyped DEF Init
<1> QED BY <1>1, <1>2, <1>3, <1>4, <1>5 DEF TypeOK

-----------------------------------------------------------------------------
(* Each action keeps the types.                                            *)

(* The typing of the step RemoveDevice.                                    *)
LEMMA RemoveDeviceTyped ==
  ASSUME TypeOK, NEW d \in Devices, RemoveDevice(d)
  PROVE  TypeOK'
<1>1. topics' \in [ValueTopics -> driverTopic]
  BY ClearedTyped DEF RemoveDevice
<1>2. call' \in Calls BY CallTyped DEF RemoveDevice
<1>3. /\ deviceMap' \in [Devices -> Object \cup {NoDev}]
      /\ nextOrder' \in [Devices -> Nat]
      /\ controlList' \in [Devices -> Seq(Controls)]
      /\ subs' \subseteq OnTopics /\ declared' \subseteq OnTopics /\ stray' \subseteq OnTopics
  BY DEF RemoveDevice, Unsubscribe, Deleted, TypeOK
<1> QED BY <1>1, <1>2, <1>3 DEF RemoveDevice, TypeOK, drvVars, pubVars

(* The typing of the step OnNewDevice.                                     *)
LEMMA OnNewDeviceTyped ==
  ASSUME TypeOK, NEW d \in Devices, NEW k \in {"real", "virtual", "ext"},
         OnNewDevice(d, k)
  PROVE  TypeOK'
<1>1. topics' \in [ValueTopics -> driverTopic]
  BY ClearedTyped DEF OnNewDevice
<1>2. call' \in Calls BY CallTyped DEF OnNewDevice
<1>3. NewObject(d, k) \in Object BY DEF NewObject, Object, TypeOK
<1>4. /\ deviceMap' \in [Devices -> Object \cup {NoDev}]
      /\ objects' \in Seq(Object)
      /\ subs' \subseteq OnTopics /\ declared' \subseteq OnTopics /\ stray' \subseteq OnTopics
  BY <1>3 DEF OnNewDevice, Unsubscribe, TypeOK
<1>5. nextOrder' \in [Devices -> Nat]
  <2>1. nextOrder \in [Devices -> Nat] BY DEF TypeOK
  <2>2. nextOrder' \in {nextOrder, [nextOrder EXCEPT ![d] = 0],
                        [nextOrder EXCEPT ![d] = 1]}
    BY Zenon DEF OnNewDevice, Deleted
  <2> QED BY <2>1, <2>2
<1>7. controlList' \in [Devices -> Seq(Controls)]
  <2>1. <<>> \in Seq(Controls) /\ controlList \in [Devices -> Seq(Controls)]
    BY DEF TypeOK
  <2>2. controlList' \in {controlList, [controlList EXCEPT ![d] = <<>>]}
    BY Zenon DEF OnNewDevice, Deleted
  <2> QED BY <2>1, <2>2
<1>6. /\ retained' \in [Topics -> Payloads]
      /\ latest' \in [ValueTopics -> Payloads]
      /\ owned' \subseteq Topics
      /\ handleMessageCh' \in Seq(Message)
      /\ cleanupTopics' \subseteq Topics
  <2>1. CASE k = "ext" BY <2>1 DEF OnNewDevice, TypeOK, pubVars
  <2>2. CASE k # "ext"
    <3>1. publishMeta(topic(d), Text) BY <2>2 DEF OnNewDevice
    <3> QED BY <3>1, TopicsTyped, PayloadsTyped, PublishMetaTyped
  <2> QED BY <2>1, <2>2
<1> QED BY <1>1, <1>2, <1>4, <1>5, <1>6, <1>7 DEF OnNewDevice, TypeOK, drvVars

(* Orders of controls are natural numbers.                                 *)
LEMMA OrderTyped ==
  ASSUME TypeOK, NEW d \in Devices, NEW ctl \in ControlDefs
  PROVE  OrderOf(d, ctl) \in Nat /\ NextOrder(d, ctl) \in Nat
BY DefsAssumption DEF OrderOf, NextOrder, TypeOK, Control

(* The descriptions of a control are neither its value nor its on topic.   *)
LEMMA MetaKindsTyped ==
  ASSUME NEW ctl \in ControlDefs PROVE MetaKinds(ctl) \subseteq ControlKinds \ {"value", "on"}
BY DEF MetaKinds, ControlKinds

(* The typing of the step OnNewControl.                                    *)
LEMMA OnNewControlTyped ==
  ASSUME TypeOK, NEW dev \in Object, NEW ctl \in ControlDefs,
         OnNewControl(dev, ctl)
  PROVE  TypeOK'
<1> DEFINE d == dev.name
           t == controlTopic(d, ctl.name, "value")
           on == controlTopic(d, ctl.name, "on")
           value == InitialValue(dev, ctl)
           metas == {controlTopic(d, ctl.name, k) : k \in MetaKinds(ctl)}
           kept == IF Retain(ctl) THEN metas \cup {t} ELSE metas
<1>1. ctl \in Control /\ ctl.name \in Controls /\ ctl.value \in Values
  BY DefsAssumption DEF Control
<1>2. d \in Devices BY DEF Object
<1>3. t \in ValueTopics /\ t \in Topics /\ on \in OnTopics
  BY <1>1, <1>2, TopicsTyped
<1>4. metas \subseteq Topics
  BY <1>1, <1>2, TopicsTyped, MetaKindsTyped
<1>5. value \in Payloads
  BY <1>1, <1>3, PayloadsTyped DEF InitialValue, TypeOK, driverTopic
<1>6. OrderOf(d, ctl) \in Nat /\ NextOrder(d, ctl) \in Nat
  BY <1>2, OrderTyped
<1>7. retained' \in [Topics -> Payloads]
  BY <1>5, <1>6, PayloadsTyped DEF OnNewControl, TypeOK
<1>8. latest' \in [ValueTopics -> Payloads]
  BY <1>3, <1>5 DEF OnNewControl, TypeOK
<1>9. owned' \subseteq Topics
  <2>1. kept \subseteq Topics BY <1>3, <1>4, Zenon
  <2>2. owned' = owned \cup kept BY DEF OnNewControl
  <2> QED BY <2>1, <2>2 DEF TypeOK
<1>10. handleMessageCh' \in Seq(Message)
  <2> DEFINE m1 == Deliver(controlTopic(d, ctl.name, "type"), Text)
             m2 == IF ctl.hasMax
                   THEN Deliver(controlTopic(d, ctl.name, "max"), Text) ELSE <<>>
             m3 == IF Retain(ctl) THEN Deliver(t, value) ELSE <<>>
  <2>1. /\ controlTopic(d, ctl.name, "type") \in Topics
        /\ controlTopic(d, ctl.name, "max") \in Topics
    BY <1>1, <1>2, TopicsTyped DEF ControlKinds
  <2>2. <<>> \in Seq(Message) OBVIOUS
  <2>3. m1 \in Seq(Message) BY <2>1, DeliverTyped, PayloadsTyped
  <2>4. m2 \in Seq(Message) BY <2>1, <2>2, DeliverTyped, PayloadsTyped, Zenon
  <2>5. m3 \in Seq(Message) BY <1>3, <1>5, <2>2, DeliverTyped, Zenon
  <2>6. handleMessageCh' = handleMessageCh \o m1 \o m2 \o m3 BY DEF OnNewControl
  <2>7. handleMessageCh \in Seq(Message) BY DEF TypeOK
  <2> HIDE DEF m1, m2, m3
  <2> QED BY <2>3, <2>4, <2>5, <2>6, <2>7
<1>11. nextOrder' \in [Devices -> Nat]
  BY <1>6 DEF OnNewControl, TypeOK
<1>12. retainMap' \in [ValueTopics -> BOOLEAN]
  BY <1>3 DEF OnNewControl, TypeOK, Retain
<1>13. subs' \subseteq OnTopics /\ declared' \subseteq OnTopics /\ stray' \subseteq OnTopics
  BY <1>3 DEF OnNewControl, TypeOK
<1>14. controlList' \in [Devices -> Seq(Controls)]
  BY <1>1, <1>2 DEF OnNewControl, TypeOK
<1>15. cleanupTopics' \subseteq Topics
  BY <1>3, <1>4 DEF OnNewControl, TypeOK
<1>16. call' \in Calls BY CallTyped DEF OnNewControl
<1> HIDE DEF d, t, on, value, metas, kept
<1> QED BY <1>7, <1>8, <1>9, <1>10, <1>11, <1>12, <1>13, <1>14, <1>15, <1>16
        DEF OnNewControl, TypeOK, drvVars

(* publishValue keeps the broker's state typed.                            *)
LEMMA PublishValueTyped ==
  ASSUME TypeOK, NEW d \in Devices, NEW c \in Controls, NEW v \in Payloads,
         NEW q \in Seq(Message), publishValue(q, d, c, v)
  PROVE  /\ retained' \in [Topics -> Payloads]
         /\ latest' \in [ValueTopics -> Payloads]
         /\ owned' \subseteq Topics
         /\ handleMessageCh' \in Seq(Message)
<1> DEFINE t == controlTopic(d, c, "value")
<1>1. t \in ValueTopics /\ t \in Topics BY TopicsTyped
<1>2. retainMap[t] \in BOOLEAN BY <1>1 DEF TypeOK
<1>3. publish(q, t, v, retainMap[t]) BY DEF publishValue
<1> QED BY <1>1, <1>2, <1>3, PublishTyped

(* The typing of the step OnValue.                                         *)
LEMMA OnValueTyped ==
  ASSUME TypeOK, NEW dev \in Object, NEW c \in Controls, NEW v \in Values,
         OnValue(dev, c, v)
  PROVE  TypeOK'
<1>1. dev.name \in Devices BY DEF Object
<1>2. v \in Payloads BY PayloadsTyped
<1>3. handleMessageCh \in Seq(Message) BY DEF TypeOK
<1>4. /\ retained' \in [Topics -> Payloads]
      /\ latest' \in [ValueTopics -> Payloads]
      /\ owned' \subseteq Topics
      /\ handleMessageCh' \in Seq(Message)
  <2>1. CASE dev.kind = "ext"
    <3>1. publish(handleMessageCh, controlTopic(dev.name, c, "on"), v, FALSE)
      BY <2>1 DEF OnValue, publishOnValue
    <3>2. controlTopic(dev.name, c, "on") \in Topics BY <1>1, TopicsTyped
    <3> QED BY <3>1, <3>2, <1>2, <1>3, PublishTyped
  <2>2. CASE dev.kind # "ext"
    <3>1. publishValue(handleMessageCh, dev.name, c, v) BY <2>2 DEF OnValue
    <3> QED BY <3>1, <1>1, <1>2, <1>3, PublishValueTyped
  <2> QED BY <2>1, <2>2
<1>5. call' \in Calls BY CallTyped DEF OnValue
<1> QED BY <1>4, <1>5 DEF OnValue, TypeOK, drvVars, devVars, netVars

(* The typing of the step OnError.                                         *)
LEMMA OnErrorTyped ==
  ASSUME TypeOK, NEW dev \in Object, NEW c \in Controls, OnError(dev, c)
  PROVE  TypeOK'
<1>1. controlTopic(dev.name, c, "error") \in Topics
  BY TopicsTyped DEF Object, ControlKinds
<1>2. publishMeta(controlTopic(dev.name, c, "error"), Text) BY DEF OnError
<1>3. call' \in Calls BY CallTyped DEF OnError
<1> QED BY <1>1, <1>2, <1>3, PayloadsTyped, PublishMetaTyped
        DEF OnError, TypeOK, drvVars, devVars, netVars

(* ensureDevice returns the registered device, a new object or none.       *)
LEMMA EnsureDeviceTyped ==
  ASSUME TypeOK, NEW d \in Devices, NEW dev \in ensureDevice(d)
  PROVE  /\ dev \in Object \cup {NoDev}
         /\ deviceMap[d] # NoDev => dev = deviceMap[d]
<1>1. NewObject(d, "ext") \in Object BY DEF NewObject, Object, TypeOK
<1>2. deviceMap[d] \in Object \cup {NoDev} BY DEF TypeOK
<1> QED BY <1>1, <1>2 DEF ensureDevice

(* Registering what ensureDevice returned keeps the maps typed.            *)
LEMMA RegisterTyped ==
  ASSUME TypeOK, NEW d \in Devices, NEW dev \in Object \cup {NoDev},
         Register(d, dev)
  PROVE  /\ deviceMap' \in [Devices -> Object \cup {NoDev}]
         /\ objects' \in Seq(Object)
         /\ nextOrder' = nextOrder /\ controlList' = controlList
<1>1. deviceMap' \in [Devices -> Object \cup {NoDev}]
  BY DEF Register, TypeOK
<1>2. objects' \in Seq(Object)
  <2>1. CASE dev \in {deviceMap[d], NoDev} BY <2>1 DEF Register, TypeOK
  <2>2. CASE dev \notin {deviceMap[d], NoDev}
    <3>1. dev \in Object BY <2>2
    <3>2. objects' = Append(objects, dev) BY <2>2 DEF Register
    <3> QED BY <3>1, <3>2 DEF TypeOK
  <2> QED BY <2>1, <2>2
<1> QED BY <1>1, <1>2 DEF Register

(* The message a handler gets is a message.                                *)
LEMMA HeadTyped ==
  ASSUME TypeOK, handleMessageCh # <<>>
  PROVE  /\ Head(handleMessageCh) \in Message
         /\ Tail(handleMessageCh) \in Seq(Message)
BY DEF TypeOK

(* Its parts are a topic, with a device and a control, and a payload.      *)
LEMMA MessageTyped ==
  ASSUME NEW m \in Message
  PROVE  /\ m.topic \in Topics /\ m.payload \in Payloads
         /\ m.topic.dev \in Devices
         /\ m.topic.ctl \in Controls \cup {NoCtl}
         /\ m.topic.kind = "value" => m.topic \in ValueTopics
         /\ m.topic.kind = "on" => m.topic \in OnTopics
         /\ m.topic.kind \in {"value", "on"} => m.topic.ctl \in Controls
BY DEF Message, Topics, ValueTopics, OnTopics

(* The typing of the step ForwardMeta.                                     *)
LEMMA ForwardMetaTyped ==
  ASSUME TypeOK, handleMessageCh # <<>>, NEW method \in Methods,
         NEW accept \in BOOLEAN,
         ForwardMeta(Head(handleMessageCh), method, accept)
  PROVE  TypeOK'
<1> DEFINE m == Head(handleMessageCh)
<1>1. m \in Message /\ Tail(handleMessageCh) \in Seq(Message) BY HeadTyped
<1>2. /\ m.topic.dev \in Devices /\ m.payload \in Payloads
      /\ m.topic.ctl \in Controls \cup {NoCtl}
  BY <1>1, MessageTyped
<1>3. PICK dev \in ensureDevice(m.topic.dev) :
        /\ Register(m.topic.dev, dev)
        /\ call' = IF AsExternal(dev) # NoDev /\ accept
                   THEN Call(method, dev, m.topic.ctl, m.payload) ELSE NoCall
  BY DEF ForwardMeta
<1>4. dev \in Object \cup {NoDev} BY <1>2, EnsureDeviceTyped
<1>5. /\ deviceMap' \in [Devices -> Object \cup {NoDev}]
      /\ objects' \in Seq(Object)
      /\ nextOrder' = nextOrder /\ controlList' = controlList
  BY <1>2, <1>3, <1>4, RegisterTyped
<1>6. call' \in Calls
  <2>1. CASE AsExternal(dev) # NoDev /\ accept
    <3>1. dev \in Object BY <2>1, <1>4 DEF AsExternal
    <3> QED BY <3>1, <2>1, <1>2, <1>3, CallTyped
  <2>2. CASE ~(AsExternal(dev) # NoDev /\ accept) BY <2>2, <1>3, CallTyped
  <2> QED BY <2>1, <2>2
<1> QED BY <1>1, <1>5, <1>6 DEF ForwardMeta, TypeOK, drvVars, netVars

(* The typing of the step OnValueMessage.                                  *)
LEMMA OnValueMessageTyped ==
  ASSUME TypeOK, handleMessageCh # <<>>,
         handleIncomingControlOnValue(Head(handleMessageCh))
  PROVE  TypeOK'
<1> DEFINE m == Head(handleMessageCh)
           dev == deviceMap[m.topic.dev]
<1>1. m \in Message /\ Tail(handleMessageCh) \in Seq(Message) BY HeadTyped
<1>2. /\ m.topic.dev \in Devices /\ m.payload \in Payloads
      /\ m.topic.ctl \in Controls
  BY <1>1, MessageTyped DEF handleIncomingControlOnValue
<1>3. /\ retained' \in [Topics -> Payloads]
      /\ latest' \in [ValueTopics -> Payloads]
      /\ owned' \subseteq Topics
      /\ handleMessageCh' \in Seq(Message)
  <2>1. \/ publishValue(Tail(handleMessageCh), m.topic.dev, m.topic.ctl, m.payload)
        \/ /\ handleMessageCh' = Tail(handleMessageCh)
           /\ UNCHANGED <<retained, latest, owned>>
    BY DEF handleIncomingControlOnValue
  <2> QED BY <2>1, <1>1, <1>2, PublishValueTyped DEF TypeOK
<1>4. call' \in Calls
  <2>1. \/ call' = NoCall
        \/ /\ IsLocal(dev)
           /\ call' = Call("AcceptOnValue", dev, m.topic.ctl, m.payload)
    BY DEF handleIncomingControlOnValue
  <2>2. IsLocal(dev) => dev \in Object
    BY <1>2 DEF IsLocal, TypeOK, NoDev
  <2> QED BY <2>1, <2>2, <1>2, CallTyped DEF Methods
<1>5. phase' \in {phase, "panicked"} BY DEF handleIncomingControlOnValue
<1> QED BY <1>3, <1>4, <1>5
        DEF handleIncomingControlOnValue, TypeOK, devVars, netVars

(* The entry handleIncomingControlValue makes is typed.                    *)
LEMMA EntryTyped ==
  ASSUME TypeOK, NEW m \in Message, m.topic \in ValueTopics
  PROVE  /\ Recorded(m) \in driverTopic
         /\ \A dev \in Object \cup {NoDev} : Resolved(Recorded(m), dev) \in driverTopic
<1>1. Recorded(m) \in driverTopic
  <2>1. topics[m.topic] \in driverTopic /\ m.payload \in Payloads /\ ready \in BOOLEAN
    BY MessageTyped DEF TypeOK
  <2>2. CASE topics[m.topic].found BY <2>1, <2>2 DEF Recorded, driverTopic
  <2>3. CASE ~topics[m.topic].found BY <2>1, <2>3 DEF Recorded, driverTopic
  <2> QED BY <2>2, <2>3
<1>2. ASSUME NEW e \in driverTopic, NEW dev \in Object \cup {NoDev}
      PROVE  Resolved(e, dev) \in driverTopic
  <2>1. AsExternal(dev) \in Object \cup {NoDev} BY DEF AsExternal
  <2> QED BY <2>1 DEF Resolved, driverTopic, TypeOK
<1> QED BY <1>1, <1>2

(* The typing of the step ValueMessage.                                    *)
LEMMA ValueMessageTyped ==
  ASSUME TypeOK, handleMessageCh # <<>>,
         handleIncomingControlValue(Head(handleMessageCh))
  PROVE  TypeOK'
<1> DEFINE m == Head(handleMessageCh)
           Stored(e) ==
             /\ topics' = [topics EXCEPT ![m.topic] = e]
             /\ call' = IF e.dev = NoDev \/ e.skip THEN NoCall
                        ELSE Call("AcceptValue", e.dev, m.topic.ctl, m.payload)
<1>1. m \in Message /\ Tail(handleMessageCh) \in Seq(Message) BY HeadTyped
<1>2. /\ m.topic.dev \in Devices /\ m.payload \in Payloads
      /\ m.topic.ctl \in Controls /\ m.topic \in ValueTopics
  BY <1>1, MessageTyped DEF handleIncomingControlValue
<1>3. ASSUME NEW e \in driverTopic, Stored(e)
      PROVE  topics' \in [ValueTopics -> driverTopic] /\ call' \in Calls
  <2>1. topics' \in [ValueTopics -> driverTopic] BY <1>3 DEF TypeOK
  <2>2. call' \in Calls
    <3>1. CASE e.dev = NoDev \/ e.skip
      <4>1. call' = NoCall BY <1>3, <3>1
      <4> QED BY <4>1, CallTyped
    <3>2. CASE ~(e.dev = NoDev \/ e.skip)
      <4>1. e.dev \in Object BY <3>2 DEF driverTopic
      <4>2. call' = Call("AcceptValue", e.dev, m.topic.ctl, m.payload) BY <1>3, <3>2
      <4> QED BY <4>1, <4>2, <1>2, CallTyped DEF Methods
    <3> QED BY <3>1, <3>2
  <2> QED BY <2>1, <2>2
<1>4. /\ topics' \in [ValueTopics -> driverTopic] /\ call' \in Calls
      /\ deviceMap' \in [Devices -> Object \cup {NoDev}]
      /\ objects' \in Seq(Object)
      /\ nextOrder' = nextOrder /\ controlList' = controlList
  <2>1. CASE Looked(Recorded(m))
    <3>1. PICK dev \in ensureDevice(m.topic.dev) :
            Register(m.topic.dev, dev) /\ Stored(Resolved(Recorded(m), dev))
      BY <2>1 DEF handleIncomingControlValue
    <3>2. dev \in Object \cup {NoDev} BY <1>2, EnsureDeviceTyped
    <3>3. Resolved(Recorded(m), dev) \in driverTopic BY <1>1, <1>2, <3>2, EntryTyped
    <3> HIDE DEF Stored
    <3> QED BY <1>2, <1>3, <3>1, <3>2, <3>3, RegisterTyped
  <2>2. CASE ~Looked(Recorded(m))
    <3>1. Stored(Recorded(m)) /\ UNCHANGED devVars
      BY <2>2 DEF handleIncomingControlValue
    <3>2. Recorded(m) \in driverTopic BY <1>1, <1>2, EntryTyped
    <3> HIDE DEF Stored
    <3> QED BY <1>3, <3>1, <3>2 DEF devVars, TypeOK
  <2> QED BY <2>1, <2>2
<1> QED BY <1>1, <1>4 DEF handleIncomingControlValue, TypeOK, drvVars, netVars

(* The typing of the step HandleMessage.                                   *)
LEMMA HandleMessageTyped ==
  ASSUME TypeOK, HandleMessage
  PROVE  TypeOK'
<1> DEFINE m == Head(handleMessageCh)
<1>1. handleMessageCh # <<>> BY DEF HandleMessage
<1>2. CASE handleDeviceTitle(m)
  BY <1>1, <1>2, ForwardMetaTyped DEF handleDeviceTitle, Methods
<1>3. CASE handleExternalControlType(m)
  BY <1>1, <1>3, ForwardMetaTyped DEF handleExternalControlType, Methods
<1>4. CASE handleExternalControlMax(m)
  BY <1>1, <1>4, ForwardMetaTyped DEF handleExternalControlMax, Methods
<1>5. CASE handleIncomingControlOnValue(m) BY <1>1, <1>5, OnValueMessageTyped
<1>6. CASE handleIncomingControlValue(m) BY <1>1, <1>6, ValueMessageTyped
<1> QED BY <1>2, <1>3, <1>4, <1>5, <1>6 DEF HandleMessage

(* Only finitely many messages are retained.                               *)
LEMMA RetainedFinite ==
  ASSUME TypeOK, NEW k
  PROVE  IsFiniteSet(RetainedOf(k))
<1> DEFINE S == RetainedOf(k)
           T == Devices \X (Controls \cup {NoCtl})
           f == [m \in S |-> <<m.topic.dev, m.topic.ctl>>]
<1>1. IsFiniteSet(T)
  <2>1. IsFiniteSet(Controls \cup {NoCtl}) BY FS_AddElement, NamesAssumption
  <2> QED BY <2>1, FS_Product, NamesAssumption
<1>2. f \in Injection(S, T)
  <2>1. \A m \in S : <<m.topic.dev, m.topic.ctl>> \in T
    BY DEF RetainedOf, Topics
  <2>2. \A m, n \in S : m.topic.dev = n.topic.dev /\ m.topic.ctl = n.topic.ctl => m = n
    BY DEF RetainedOf, Topics
  <2> HIDE DEF S, T
  <2>3. f \in [S -> T] BY <2>1
  <2>4. IsInjective(f) BY <2>2 DEF IsInjective
  <2> QED BY <2>3, <2>4 DEF Injection
<1> HIDE DEF S, T, f
<1>3. IsFiniteSet(S) BY <1>1, <1>2, FS_Injection
<1> QED BY <1>3 DEF S

(* A listing of them is a sequence of messages.                            *)
LEMMA ListingsTyped ==
  ASSUME TypeOK, NEW k, NEW s \in Listings(RetainedOf(k))
  PROVE  s \in Seq(Message)
<1>1. RetainedOf(k) \subseteq Message BY DEF RetainedOf, Message, TypeOK
<1>2. s \in [1..Cardinality(RetainedOf(k)) -> RetainedOf(k)] BY DEF Listings
<1>3. Cardinality(RetainedOf(k)) \in Nat BY RetainedFinite, FS_CardinalityType
<1>4. s \in Seq(RetainedOf(k)) BY <1>2, <1>3
<1> QED BY <1>1, <1>4

(* The typing of the step StartLoop.                                       *)
LEMMA StartLoopTyped ==
  ASSUME TypeOK, StartLoop
  PROVE  TypeOK'
<1>1. handleMessageCh' \in Seq(Message)
  <2>1. CASE acceptsExternalDevices
    <3>1. PICK s1 \in Listings(RetainedOf("title")),
               s2 \in Listings(RetainedOf("value")),
               s3 \in Listings(RetainedOf("type")),
               s4 \in Listings(RetainedOf("max")) :
            handleMessageCh' = handleMessageCh \o s1 \o s2 \o s3 \o s4
      BY <2>1 DEF StartLoop
    <3>2. /\ s1 \in Seq(Message) /\ s2 \in Seq(Message)
          /\ s3 \in Seq(Message) /\ s4 \in Seq(Message)
      BY ListingsTyped
    <3>3. handleMessageCh \in Seq(Message) BY DEF TypeOK
    <3> QED BY <3>1, <3>2, <3>3
  <2>2. CASE ~acceptsExternalDevices BY <2>2 DEF StartLoop, TypeOK
  <2> QED BY <2>1, <2>2
<1>2. call' \in Calls BY CallTyped DEF StartLoop, Goto
<1>3. phase' = "select" /\ extSubs' \in BOOLEAN BY DEF StartLoop, Goto, TypeOK
<1> QED BY <1>1, <1>2, <1>3 DEF StartLoop, Goto, TypeOK, devVars

(* The typing of the step ClientPublish.                                   *)
LEMMA ClientPublishTyped ==
  ASSUME TypeOK, NEW t \in Topics, NEW p \in ClientPayloads(t), ClientPublish(t, p)
  PROVE  TypeOK'
<1>1. p \in Payloads BY DEF ClientPayloads, Payloads
<1>2. (t.kind # "on") \in BOOLEAN OBVIOUS
<1>3. Sent(t, p, t.kind # "on") BY DEF ClientPublish
<1>4. retained' \in [Topics -> Payloads] /\ latest' \in [ValueTopics -> Payloads]
  BY <1>1, <1>2, <1>3, SentTyped
<1>5. handleMessageCh' \in Seq(Message)
  BY <1>1, DeliverTyped DEF ClientPublish, TypeOK
<1>6. call' \in Calls BY CallTyped DEF ClientPublish
<1> QED BY <1>4, <1>5, <1>6 DEF ClientPublish, TypeOK, drvVars, devVars, netVars

(* The typing of the step Loop.                                            *)
LEMMA LoopTyped ==
  ASSUME TypeOK, LoopNext
  PROVE  TypeOK'
<1>1. CASE StartLoop BY <1>1, StartLoopTyped
<1>2. CASE Start \/ StartFailed \/ WhenReady \/ BecomeReady
  <2>1. /\ phase' \in {"starting", "failed", "deferred", "select"}
        /\ ready' \in {ready, TRUE} /\ call' = NoCall
        /\ UNCHANGED <<acceptsExternalDevices, devVars, retainMap, topics,
                       cleanupTopics, netVars, pubVars>>
    BY <1>2 DEF Start, StartFailed, WhenReady, BecomeReady, Goto
  <2>2. call' \in Calls BY <2>1, CallTyped
  <2> QED BY <2>1, <2>2 DEF TypeOK, devVars, netVars, pubVars
<1> QED BY <1>1, <1>2 DEF LoopNext

(* Every step keeps the state typed.                                       *)
LEMMA StepTyped ==
  ASSUME TypeOK, [Next]_vars
  PROVE  TypeOK'
<1>1. ASSUME NEW b \in BOOLEAN, SetAcceptsExternalDevices(b) PROVE TypeOK'
  BY <1>1, CallTyped DEF SetAcceptsExternalDevices, TypeOK, devVars, netVars, pubVars
<1>2. ASSUME NEW i \in DOMAIN objects PROVE objects[i] \in Object
  BY <1>2 DEF TypeOK
<1>3. CASE ModelNext
  BY <1>2, <1>3, RemoveDeviceTyped, OnNewDeviceTyped, OnNewControlTyped,
     OnValueTyped, OnErrorTyped DEF ModelNext
<1>4. CASE ClientNext BY <1>4, ClientPublishTyped DEF ClientNext
<1>5. CASE UNCHANGED vars
  BY <1>5 DEF vars, drvVars, devVars, netVars, pubVars, TypeOK
<1> QED BY <1>1, <1>3, <1>4, <1>5, LoopTyped, HandleMessageTyped DEF Next

(* Every variable of the driver, its queue and the broker keeps its type   *)
(* through every sequence of handlers, thunks and client messages.         *)
THEOREM TypeCorrect == Spec => []TypeOK
<1>1. Init => TypeOK BY InitTyped
<1>2. TypeOK /\ [Next]_vars => TypeOK' BY StepTyped
<1> QED BY <1>1, <1>2, PTL DEF Spec

-----------------------------------------------------------------------------
(* The cache of value topics and the calls into devices.                   *)

(* A device is registered under its own name.                              *)
RegisteredByName ==
  \A d \in Devices : deviceMap[d] # NoDev => deviceMap[d].name = d

CacheInv == TypeOK /\ RegisteredByName /\ CacheCoherent

(* The steps that touch the registry or the cache, or call a device.       *)
LEMMA RegistrySteps ==
  ASSUME [Next]_vars
  PROVE  \/ \E d \in Devices : RemoveDevice(d)
         \/ \E d \in Devices, k \in {"real", "virtual", "ext"} : OnNewDevice(d, k)
         \/ HandleMessage
         \/ UNCHANGED <<deviceMap, topics>> /\ call' = NoCall
         \/ UNCHANGED vars
<1>1. CASE ClientNext BY <1>1 DEF ClientNext, ClientPublish, devVars
<1>2. CASE LoopNext
  BY <1>2 DEF LoopNext, Start, StartFailed, StartLoop, WhenReady, BecomeReady,
              Goto, devVars
<1>3. CASE \E b \in BOOLEAN : SetAcceptsExternalDevices(b)
  BY <1>3 DEF SetAcceptsExternalDevices, devVars
<1>4. CASE ModelNext
  <2>1. ASSUME NEW i \in DOMAIN objects, NEW ctl \in ControlDefs,
               OnNewControl(objects[i], ctl)
        PROVE  UNCHANGED <<deviceMap, topics>> /\ call' = NoCall
    BY <2>1 DEF OnNewControl
  <2>2. ASSUME NEW i \in DOMAIN objects, NEW c \in Controls, NEW v \in Values,
               OnValue(objects[i], c, v)
        PROVE  UNCHANGED <<deviceMap, topics>> /\ call' = NoCall
    BY <2>2 DEF OnValue, devVars
  <2>3. ASSUME NEW i \in DOMAIN objects, NEW c \in Controls, OnError(objects[i], c)
        PROVE  UNCHANGED <<deviceMap, topics>> /\ call' = NoCall
    BY <2>3 DEF OnError, devVars
  <2> QED BY <1>4, <2>1, <2>2, <2>3 DEF ModelNext
<1> QED BY <1>1, <1>2, <1>3, <1>4 DEF Next

(* ensureDevice returns a device with the name it was asked for.           *)
LEMMA EnsureDeviceNamed ==
  ASSUME CacheInv, NEW d \in Devices, NEW dev \in ensureDevice(d), dev # NoDev
  PROVE  dev.name = d
BY DEF CacheInv, RegisteredByName, ensureDevice, NewObject

(* Registering it replaces no registered device.                           *)
LEMMA RegisterKeeps ==
  ASSUME CacheInv, NEW d \in Devices, NEW dev \in ensureDevice(d),
         Register(d, dev)
  PROVE  /\ RegisteredByName'
         /\ deviceMap'[d] = dev
         /\ \A n \in Devices : deviceMap[n] # NoDev => deviceMap'[n] = deviceMap[n]
<1>1. deviceMap' = [deviceMap EXCEPT ![d] = dev] BY DEF Register
<1>2. deviceMap \in [Devices -> Object \cup {NoDev}] BY DEF CacheInv, TypeOK
<1>3. deviceMap[d] # NoDev => dev = deviceMap[d]
  BY EnsureDeviceTyped DEF CacheInv
<1>4. dev # NoDev => dev.name = d BY EnsureDeviceNamed
<1>5. RegisteredByName' BY <1>1, <1>2, <1>4 DEF RegisteredByName, CacheInv
<1> QED BY <1>1, <1>2, <1>3, <1>5

(* The step ForwardMeta keeps the cache coherent.                          *)
LEMMA ForwardMetaCached ==
  ASSUME CacheInv, handleMessageCh # <<>>, NEW method \in Methods \ {"AcceptValue"},
         NEW accept \in BOOLEAN,
         ForwardMeta(Head(handleMessageCh), method, accept)
  PROVE  RegisteredByName' /\ CacheCoherent' /\ CallsAreProper'
<1> DEFINE m == Head(handleMessageCh)
           d == m.topic.dev
<1>1. TypeOK BY DEF CacheInv
<1>2. d \in Devices BY <1>1, HeadTyped, MessageTyped
<1>3. PICK dev \in ensureDevice(d) :
        /\ Register(d, dev)
        /\ call' = IF AsExternal(dev) # NoDev /\ accept
                   THEN Call(method, dev, m.topic.ctl, m.payload) ELSE NoCall
  BY DEF ForwardMeta
<1>4. /\ RegisteredByName' /\ deviceMap'[d] = dev
      /\ \A n \in Devices : deviceMap[n] # NoDev => deviceMap'[n] = deviceMap[n]
  BY <1>2, <1>3, RegisterKeeps
<1>5. CacheCoherent'
  <2>1. topics' = topics BY DEF ForwardMeta
  <2>2. \A t \in ValueTopics : t.dev \in Devices BY DEF ValueTopics
  <2> QED BY <1>4, <2>1, <2>2 DEF CacheInv, CacheCoherent
<1>6. CallsAreProper'
  <2>1. CASE AsExternal(dev) # NoDev /\ accept
    <3>1. call' = Call(method, dev, m.topic.ctl, m.payload) BY <1>3, <2>1
    <3>2. dev # NoDev BY <2>1 DEF AsExternal
    <3>3. dev.name = d BY <1>2, <3>2, EnsureDeviceNamed
    <3> QED BY <3>1, <3>2, <3>3, <1>4 DEF CallsAreProper, Call
  <2>2. CASE ~(AsExternal(dev) # NoDev /\ accept)
    <3>1. call' = NoCall BY <1>3, <2>2
    <3> QED BY <3>1 DEF CallsAreProper, NoCall, Call
  <2> QED BY <2>1, <2>2
<1> QED BY <1>4, <1>5, <1>6

(* The step OnValueMessage keeps the cache coherent.                       *)
LEMMA OnValueMessageCached ==
  ASSUME CacheInv, handleMessageCh # <<>>,
         handleIncomingControlOnValue(Head(handleMessageCh))
  PROVE  RegisteredByName' /\ CacheCoherent' /\ CallsAreProper'
<1> DEFINE m == Head(handleMessageCh)
           dev == deviceMap[m.topic.dev]
<1>1. m.topic.dev \in Devices BY HeadTyped, MessageTyped DEF CacheInv
<1>2. UNCHANGED <<deviceMap, topics>>
  BY DEF handleIncomingControlOnValue, devVars
<1>3. \/ call' = NoCall
      \/ /\ IsLocal(dev)
         /\ call' = Call("AcceptOnValue", dev, m.topic.ctl, m.payload)
  BY DEF handleIncomingControlOnValue
<1>4. IsLocal(dev) => dev # NoDev BY DEF IsLocal, NoDev
<1>5. dev # NoDev => dev.name = m.topic.dev BY <1>1 DEF CacheInv, RegisteredByName
<1>6. CallsAreProper'
  BY <1>2, <1>3, <1>4, <1>5 DEF CallsAreProper, Call, NoCall
<1> QED BY <1>2, <1>6 DEF CacheInv, RegisteredByName, CacheCoherent

(* what is known of an entry that is stored for topic t of device dev      *)
EntryGood(e, dev) ==
  e.dev # NoDev => /\ e.dev = dev
                   /\ e.ready = ready
                   /\ ready => e.dev.kind = "ext"
                   /\ e.skip <=> e.dev.kind = "real"

(* A resolved entry refers to the device found, if it may.                 *)
LEMMA ResolvedGood ==
  ASSUME TypeOK, NEW e \in driverTopic, NEW dev \in Object \cup {NoDev}
  PROVE  EntryGood(Resolved(e, dev), dev)
<1> DEFINE target == IF ready THEN AsExternal(dev) ELSE dev
<1>1. target # NoDev => target = dev /\ (ready => dev.kind = "ext")
  BY DEF AsExternal
<1>2. /\ Resolved(e, dev).dev = target
      /\ Resolved(e, dev).ready = ready
      /\ target # NoDev => Resolved(e, dev).skip = (target.kind = "real")
  BY DEF Resolved, driverTopic
<1> HIDE DEF target
<1> QED BY <1>1, <1>2 DEF EntryGood

(* The step ValueMessage keeps the cache coherent.                         *)
LEMMA ValueMessageCached ==
  ASSUME CacheInv, handleMessageCh # <<>>,
         handleIncomingControlValue(Head(handleMessageCh))
  PROVE  RegisteredByName' /\ CacheCoherent' /\ CallsAreProper'
<1> DEFINE m == Head(handleMessageCh)
           d == m.topic.dev
           Stored(e) ==
             /\ topics' = [topics EXCEPT ![m.topic] = e]
             /\ call' = IF e.dev = NoDev \/ e.skip THEN NoCall
                        ELSE Call("AcceptValue", e.dev, m.topic.ctl, m.payload)
<1>1. TypeOK BY DEF CacheInv
<1>2. m \in Message /\ d \in Devices /\ m.topic \in ValueTopics
  BY <1>1, HeadTyped, MessageTyped DEF handleIncomingControlValue
<1>3. ready' = ready BY DEF handleIncomingControlValue, drvVars
<1>4. PICK e \in driverTopic :
        /\ Stored(e) /\ EntryGood(e, deviceMap'[d])
        /\ RegisteredByName'
        /\ \A n \in Devices : deviceMap[n] # NoDev => deviceMap'[n] = deviceMap[n]
  <2>1. CASE Looked(Recorded(m))
    <3>1. PICK dev \in ensureDevice(d) :
            Register(d, dev) /\ Stored(Resolved(Recorded(m), dev))
      BY <2>1 DEF handleIncomingControlValue
    <3>2. dev \in Object \cup {NoDev} BY <1>1, <1>2, EnsureDeviceTyped
    <3>3. /\ Recorded(m) \in driverTopic
          /\ Resolved(Recorded(m), dev) \in driverTopic
      BY <1>1, <1>2, <3>2, EntryTyped
    <3>4. EntryGood(Resolved(Recorded(m), dev), dev)
      BY <1>1, <3>2, <3>3, ResolvedGood
    <3>5. /\ RegisteredByName' /\ deviceMap'[d] = dev
          /\ \A n \in Devices : deviceMap[n] # NoDev => deviceMap'[n] = deviceMap[n]
      BY <1>2, <3>1, RegisterKeeps
    <3> HIDE DEF Stored
    <3> QED BY <3>1, <3>3, <3>4, <3>5
  <2>2. CASE ~Looked(Recorded(m))
    <3>1. Stored(Recorded(m)) /\ deviceMap' = deviceMap
      BY <2>2 DEF handleIncomingControlValue, devVars
    <3>2. Recorded(m) \in driverTopic BY <1>1, <1>2, EntryTyped
    <3>3. Recorded(m).dev # NoDev /\ Recorded(m).ready = ready
      BY <2>2 DEF Looked
    <3>4. topics[m.topic] \in driverTopic BY <1>1, <1>2 DEF TypeOK
    <3>5. topics[m.topic].found BY <3>3 DEF Recorded
    <3>6. /\ Recorded(m).dev = topics[m.topic].dev
          /\ Recorded(m).ready = topics[m.topic].ready
          /\ Recorded(m).skip = topics[m.topic].skip
      BY <3>4, <3>5 DEF Recorded, driverTopic
    <3>7. EntryGood(Recorded(m), deviceMap[d])
      BY <1>2, <3>3, <3>6 DEF CacheInv, CacheCoherent, EntryGood
    <3>8. RegisteredByName' BY <3>1 DEF CacheInv, RegisteredByName
    <3> HIDE DEF Stored
    <3> QED BY <3>1, <3>2, <3>7, <3>8
  <2> QED BY <2>1, <2>2
<1>5. CacheCoherent'
  <2>1. topics' = [topics EXCEPT ![m.topic] = e] BY <1>4
  <2>2. topics \in [ValueTopics -> driverTopic] BY <1>1 DEF TypeOK
  <2> SUFFICES ASSUME NEW t \in ValueTopics, topics'[t].dev # NoDev
               PROVE  /\ topics'[t].dev = deviceMap'[t.dev]
                      /\ topics'[t].ready => topics'[t].dev.kind = "ext"
                      /\ topics'[t].skip <=> topics'[t].dev.kind = "real"
    BY DEF CacheCoherent
  <2>3. CASE t = m.topic
    <3>1. topics'[t] = e BY <2>1, <2>2, <2>3
    <3> QED BY <3>1, <1>4, <2>3 DEF EntryGood
  <2>4. CASE t # m.topic
    <3>1. topics'[t] = topics[t] BY <2>1, <2>2, <2>4
    <3>2. t.dev \in Devices BY DEF ValueTopics
    <3> QED BY <3>1, <3>2, <1>4 DEF CacheInv, CacheCoherent
  <2> QED BY <2>3, <2>4
<1>6. CallsAreProper'
  <2>1. CASE e.dev = NoDev \/ e.skip
    <3>1. call' = NoCall BY <1>4, <2>1
    <3> QED BY <3>1 DEF CallsAreProper, NoCall, Call
  <2>2. CASE ~(e.dev = NoDev \/ e.skip)
    <3>1. call' = Call("AcceptValue", e.dev, m.topic.ctl, m.payload)
      BY <1>4, <2>2
    <3>2. e.dev # NoDev /\ e.dev = deviceMap'[d] /\ e.dev.kind # "real"
          /\ (ready => e.dev.kind = "ext")
      BY <1>4, <2>2 DEF EntryGood
    <3>3. e.dev.name = d BY <3>2, <1>2, <1>4 DEF RegisteredByName
    <3> QED BY <3>1, <3>2, <3>3, <1>3 DEF CallsAreProper, Call
  <2> QED BY <2>1, <2>2
<1> QED BY <1>4, <1>5, <1>6

(* Every step keeps the cache coherent and its calls proper.               *)
LEMMA CacheStep ==
  ASSUME CacheInv, CallsAreProper, [Next]_vars
  PROVE  CacheInv' /\ CallsAreProper'
<1>1. TypeOK' BY StepTyped DEF CacheInv
<1>2. CASE UNCHANGED vars
  BY <1>1, <1>2 DEF vars, devVars, drvVars, CacheInv, RegisteredByName, CacheCoherent,
                    CallsAreProper
<1>3. CASE UNCHANGED <<deviceMap, topics>> /\ call' = NoCall
  BY <1>1, <1>3 DEF CacheInv, RegisteredByName, CacheCoherent, CallsAreProper,
                    NoCall, Call
<1>4. ASSUME NEW t \in ValueTopics PROVE clearTopicDevCache[t].dev = NoDev
  <2>1. topics[t] \in driverTopic BY DEF CacheInv, TypeOK
  <2> QED BY <2>1 DEF clearTopicDevCache, driverTopic
<1>5. topics' = clearTopicDevCache /\ call' = NoCall
      => CacheCoherent' /\ CallsAreProper'
  BY <1>4 DEF CacheCoherent, CallsAreProper, NoCall, Call
<1>6. ASSUME NEW d \in Devices, RemoveDevice(d)
      PROVE  CacheInv' /\ CallsAreProper'
  <2>1. RegisteredByName'
    BY <1>6 DEF RemoveDevice, Deleted, CacheInv, RegisteredByName, TypeOK
  <2> QED BY <1>1, <1>5, <1>6, <2>1 DEF RemoveDevice, CacheInv
<1>7. ASSUME NEW d \in Devices, NEW k \in {"real", "virtual", "ext"},
             OnNewDevice(d, k)
      PROVE  CacheInv' /\ CallsAreProper'
  <2>1. RegisteredByName'
    BY <1>7 DEF OnNewDevice, NewObject, CacheInv, RegisteredByName, TypeOK
  <2> QED BY <1>1, <1>5, <1>7, <2>1 DEF OnNewDevice, CacheInv
<1>8. CASE HandleMessage
  <2> DEFINE m == Head(handleMessageCh)
  <2>1. handleMessageCh # <<>> BY <1>8 DEF HandleMessage
  <2>2. CASE handleDeviceTitle(m)
    BY <1>1, <2>1, <2>2, ForwardMetaCached DEF handleDeviceTitle, Methods, CacheInv
  <2>3. CASE handleExternalControlType(m)
    BY <1>1, <2>1, <2>3, ForwardMetaCached DEF handleExternalControlType, Methods, CacheInv
  <2>4. CASE handleExternalControlMax(m)
    BY <1>1, <2>1, <2>4, ForwardMetaCached DEF handleExternalControlMax, Methods, CacheInv
  <2>5. CASE handleIncomingControlOnValue(m)
    BY <1>1, <2>1, <2>5, OnValueMessageCached DEF CacheInv
  <2>6. CASE handleIncomingControlValue(m)
    BY <1>1, <2>1, <2>6, ValueMessageCached DEF CacheInv
  <2> QED BY <1>8, <2>2, <2>3, <2>4, <2>5, <2>6 DEF HandleMessage
<1> QED BY <1>2, <1>3, <1>6, <1>7, <1>8, RegistrySteps

(* Initially nothing is cached and no device was called.                   *)
LEMMA CacheInit == Init => CacheInv /\ CallsAreProper
BY InitTyped DEF Init, CacheInv, RegisteredByName, CacheCoherent, CallsAreProper,
                 NoTopic, NoCall, Call

(* The cache of value topics never refers to a device that was replaced or *)
(* removed, for any number of devices, controls and redefinitions.         *)
THEOREM CacheIsCoherent == Spec => []CacheCoherent
<1>1. CacheInv /\ CallsAreProper /\ [Next]_vars => (CacheInv /\ CallsAreProper)'
  BY CacheStep
<1>2. CacheInv => CacheCoherent BY DEF CacheInv
<1> QED BY <1>1, <1>2, CacheInit, PTL DEF Spec

(* Handlers call only the registered device, never a hardware device with  *)
(* a retained value, and only external ones once the driver is ready.      *)
THEOREM CallsProper == Spec => []CallsAreProper
<1>1. CacheInv /\ CallsAreProper /\ [Next]_vars => (CacheInv /\ CallsAreProper)'
  BY CacheStep
<1> QED BY <1>1, CacheInit, PTL DEF Spec

-----------------------------------------------------------------------------
(* The cleanup list.                                                       *)

(* A value topic that OnValue and the echo of an "on" message publish with *)
(* retain is on the list since its control was declared.                   *)
RetainedListed == \A t \in ValueTopics : retainMap[t] => t \in cleanupTopics

CleanupInv == TypeOK /\ CleanupComplete /\ RetainedListed

(* publishMeta keeps the list complete.                                    *)
LEMMA PublishMetaListed ==
  ASSUME CleanupInv, NEW t, NEW p, publishMeta(t, p), UNCHANGED retainMap
  PROVE  CleanupComplete' /\ RetainedListed'
BY DEF CleanupInv, CleanupComplete, RetainedListed, publishMeta, publish, addCleanupTopic

(* So does publishValue, which does not add to it.                         *)
LEMMA PublishValueListed ==
  ASSUME CleanupInv, NEW q, NEW d \in Devices, NEW c \in Controls, NEW v,
         publishValue(q, d, c, v), UNCHANGED <<retainMap, cleanupTopics>>
  PROVE  CleanupComplete' /\ RetainedListed'
<1>1. controlTopic(d, c, "value") \in ValueTopics BY DEF controlTopic, ValueTopics
<1> QED
  BY <1>1 DEF CleanupInv, CleanupComplete, RetainedListed, publishValue, publish

(* A new control changes the retain flag of its topic and lists the topic. *)
LEMMA OnNewControlListed ==
  ASSUME CleanupInv, NEW dev \in Object, NEW ctl \in ControlDefs,
         OnNewControl(dev, ctl)
  PROVE  CleanupComplete' /\ RetainedListed'
<1> DEFINE t == controlTopic(dev.name, ctl.name, "value")
           metas == {controlTopic(dev.name, ctl.name, k) : k \in MetaKinds(ctl)}
<1>1. /\ owned' = owned \cup (IF Retain(ctl) THEN metas \cup {t} ELSE metas)
      /\ cleanupTopics' = cleanupTopics \cup metas \cup {t}
      /\ retainMap' = [retainMap EXCEPT ![t] = Retain(ctl)]
  BY DEF OnNewControl
<1>2. CleanupComplete' BY <1>1 DEF CleanupInv, CleanupComplete
<1>3. RetainedListed' BY <1>1 DEF CleanupInv, RetainedListed, TypeOK
<1> QED BY <1>2, <1>3

(* Every step keeps the list complete.                                     *)
LEMMA CleanupStep ==
  ASSUME CleanupInv, [Next]_vars
  PROVE  CleanupInv'
<1>1. TypeOK' BY StepTyped DEF CleanupInv
<1>2. UNCHANGED <<owned, retainMap, cleanupTopics>> => CleanupComplete' /\ RetainedListed'
  BY DEF CleanupInv, CleanupComplete, RetainedListed
<1>3. CASE UNCHANGED vars BY <1>1, <1>2, <1>3 DEF vars, pubVars, CleanupInv
<1>4. CASE ClientNext BY <1>1, <1>2, <1>4 DEF ClientNext, ClientPublish, CleanupInv
<1>5. CASE LoopNext
  BY <1>1, <1>2, <1>5 DEF LoopNext, Start, StartFailed, StartLoop, WhenReady, BecomeReady,
                          Goto, pubVars, CleanupInv
<1>6. CASE \E b \in BOOLEAN : SetAcceptsExternalDevices(b)
  BY <1>1, <1>2, <1>6 DEF SetAcceptsExternalDevices, pubVars, CleanupInv
<1>7. CASE HandleMessage
  <2> DEFINE m == Head(handleMessageCh)
             d == m.topic.dev
  <2>1. handleMessageCh # <<>> BY <1>7 DEF HandleMessage
  <2>2. m \in Message BY <2>1, HeadTyped DEF CleanupInv
  <2>3. CASE handleDeviceTitle(m) \/ handleExternalControlType(m)
               \/ handleExternalControlMax(m)
    BY <1>1, <1>2, <2>3 DEF handleDeviceTitle, handleExternalControlType,
                            handleExternalControlMax, ForwardMeta, CleanupInv
  <2>4. CASE handleIncomingControlValue(m)
    BY <1>1, <1>2, <2>4 DEF handleIncomingControlValue, CleanupInv
  <2>5. CASE handleIncomingControlOnValue(m)
    <3>1. d \in Devices /\ m.topic.ctl \in Controls
      BY <2>2, <2>5 DEF handleIncomingControlOnValue, Message, Topics
    <3>2. UNCHANGED <<retainMap, cleanupTopics>>
      BY <2>5 DEF handleIncomingControlOnValue
    <3>3. \/ UNCHANGED owned
          \/ publishValue(Tail(handleMessageCh), d, m.topic.ctl, m.payload)
      BY <2>5 DEF handleIncomingControlOnValue
    <3> QED BY <1>1, <1>2, <3>1, <3>2, <3>3, PublishValueListed DEF CleanupInv
  <2> QED BY <1>7, <2>3, <2>4, <2>5 DEF HandleMessage
<1>8. CASE ModelNext
  <2>1. ASSUME NEW i \in DOMAIN objects
        PROVE  objects[i] \in Object /\ objects[i].name \in Devices
    <3>1. objects \in Seq(Object) BY DEF CleanupInv, TypeOK
    <3>2. objects[i] \in Object BY <3>1
    <3> QED BY <3>2 DEF Object
  <2>2. ASSUME NEW d \in Devices, RemoveDevice(d) PROVE CleanupInv'
    BY <1>1, <1>2, <2>2 DEF RemoveDevice, pubVars, CleanupInv
  <2>3. ASSUME NEW d \in Devices, NEW k \in {"real", "virtual", "ext"},
               OnNewDevice(d, k)
        PROVE  CleanupInv'
    <3>1. UNCHANGED retainMap BY <2>3 DEF OnNewDevice
    <3>2. UNCHANGED <<owned, cleanupTopics>> \/ publishMeta(topic(d), Text)
      BY <2>3 DEF OnNewDevice, pubVars
    <3> QED BY <1>1, <1>2, <3>1, <3>2, PublishMetaListed DEF CleanupInv
  <2>4. ASSUME NEW i \in DOMAIN objects, NEW ctl \in ControlDefs,
               OnNewControl(objects[i], ctl)
        PROVE  CleanupInv'
    BY <1>1, <2>1, <2>4, OnNewControlListed DEF CleanupInv
  <2>5. ASSUME NEW i \in DOMAIN objects, NEW c \in Controls, NEW v \in Values,
               OnValue(objects[i], c, v)
        PROVE  CleanupInv'
    <3>1. UNCHANGED <<retainMap, cleanupTopics>> BY <2>5 DEF OnValue
    <3>2. \/ UNCHANGED owned
          \/ publishValue(handleMessageCh, objects[i].name, c, v)
      BY <2>5 DEF OnValue, publishOnValue, publish
    <3> QED BY <1>1, <1>2, <2>1, <3>1, <3>2, PublishValueListed DEF CleanupInv
  <2>6. ASSUME NEW i \in DOMAIN objects, NEW c \in Controls, OnError(objects[i], c)
        PROVE  CleanupInv'
    BY <1>1, <2>6, PublishMetaListed DEF OnError, CleanupInv
  <2> QED BY <1>8, <2>2, <2>3, <2>4, <2>5, <2>6 DEF ModelNext
<1> QED BY <1>3, <1>4, <1>5, <1>6, <1>7, <1>8 DEF Next

(* Whatever the driver published with retain, meta topics, values and      *)
(* echoes of any device ever defined, is on the list of performCleanup().  *)
THEOREM CleanupIsComplete == Spec => []CleanupComplete
<1>1. Init => CleanupInv
  BY InitTyped DEF Init, CleanupInv, CleanupComplete, RetainedListed
<1>2. CleanupInv /\ [Next]_vars => CleanupInv' BY CleanupStep
<1>3. CleanupInv => CleanupComplete BY DEF CleanupInv
<1> QED BY <1>1, <1>2, <1>3, PTL DEF Spec

-----------------------------------------------------------------------------
(* Subscriptions and orders.                                               *)

(* What the steps do to the registry: it is left alone, a device is looked *)
(* up and perhaps added, defined, removed, or gets one control more.       *)
LEMMA RegistryStep ==
  ASSUME TypeOK, [Next]_vars
  PROVE  \/ UNCHANGED <<deviceMap, nextOrder, controlList, subs, declared, stray>>
         \/ \E d \in Devices : \E dev \in ensureDevice(d) :
              Register(d, dev) /\ UNCHANGED <<subs, declared, stray, retained>>
         \/ \E d \in Devices : RemoveDevice(d)
         \/ \E d \in Devices, k \in {"real", "virtual", "ext"} : OnNewDevice(d, k)
         \/ \E dev \in Object, ctl \in ControlDefs : OnNewControl(dev, ctl)
<1>1. CASE UNCHANGED vars BY <1>1 DEF vars, devVars, netVars
<1>2. CASE ClientNext BY <1>2 DEF ClientNext, ClientPublish, devVars, netVars
<1>3. CASE LoopNext
  BY <1>3 DEF LoopNext, Start, StartFailed, StartLoop, WhenReady, BecomeReady,
              Goto, devVars, netVars
<1>4. CASE \E b \in BOOLEAN : SetAcceptsExternalDevices(b)
  BY <1>4 DEF SetAcceptsExternalDevices, devVars, netVars
<1>5. CASE HandleMessage
  <2> DEFINE m == Head(handleMessageCh)
  <2>1. m.topic.dev \in Devices BY <1>5, HeadTyped, MessageTyped DEF HandleMessage
  <2>2. CASE handleDeviceTitle(m) \/ handleExternalControlType(m)
               \/ handleExternalControlMax(m)
    BY <2>1, <2>2 DEF handleDeviceTitle, handleExternalControlType, handleExternalControlMax,
                      ForwardMeta, netVars
  <2>3. CASE handleIncomingControlOnValue(m)
    BY <2>3 DEF handleIncomingControlOnValue, devVars, netVars
  <2>4. CASE handleIncomingControlValue(m)
    BY <2>1, <2>4 DEF handleIncomingControlValue, devVars, netVars
  <2> QED BY <1>5, <2>2, <2>3, <2>4 DEF HandleMessage
<1>6. CASE ModelNext
  <2>1. ASSUME NEW i \in DOMAIN objects PROVE objects[i] \in Object BY DEF TypeOK
  <2>2. ASSUME NEW i \in DOMAIN objects, NEW c \in Controls, NEW v \in Values,
               OnValue(objects[i], c, v)
        PROVE  UNCHANGED <<deviceMap, nextOrder, controlList, subs, declared, stray>>
    BY <2>2 DEF OnValue, devVars, netVars
  <2>3. ASSUME NEW i \in DOMAIN objects, NEW c \in Controls, OnError(objects[i], c)
        PROVE  UNCHANGED <<deviceMap, nextOrder, controlList, subs, declared, stray>>
    BY <2>3 DEF OnError, devVars, netVars
  <2> QED BY <1>6, <2>1, <2>2, <2>3 DEF ModelNext
<1> QED BY <1>1, <1>2, <1>3, <1>4, <1>5, <1>6 DEF Next

(* An "on" topic is that of its device and control.                        *)
LEMMA OnTopicIs ==
  ASSUME NEW t \in OnTopics
  PROVE  t.dev \in Devices /\ t.ctl \in Controls /\ t = controlTopic(t.dev, t.ctl, "on")
BY DEF OnTopics, controlTopic

(* The history names controls of the definitions there are: RemoveDevice   *)
(* finds them in controlList and OnNewDevice drops none of them unseen.    *)
DeclaredListed ==
  \A t \in declared :
    /\ IsLocal(deviceMap[t.dev])
    /\ \E i \in DOMAIN controlList[t.dev] : controlList[t.dev][i] = t.ctl

SubsInv == DeclaredListed /\ SubscriptionsOwned

(* When the definition of a device is dropped, so are its subscriptions.   *)
LEMMA DroppedOwned ==
  ASSUME TypeOK, SubsInv, NEW d \in Devices, Unsubscribe(d),
         \A n \in Devices \ {d} : deviceMap'[n] = deviceMap[n] /\ controlList'[n] = controlList[n]
  PROVE  SubsInv'
<1>1. /\ subs' = subs \ Unsubscribed(d) /\ stray' = stray \ Unsubscribed(d)
      /\ declared' = {t \in declared : t.dev # d}
  BY DEF Unsubscribe
<1>2. declared \subseteq OnTopics BY DEF TypeOK
<1>3. DeclaredListed'
  <2> SUFFICES ASSUME NEW t \in declared'
               PROVE  /\ IsLocal(deviceMap'[t.dev])
                      /\ \E i \in DOMAIN controlList'[t.dev] : controlList'[t.dev][i] = t.ctl
    BY DEF DeclaredListed, IsLocal
  <2>1. t \in declared /\ t.dev \in Devices \ {d} BY <1>1, <1>2, OnTopicIs
  <2> QED BY <2>1 DEF SubsInv, DeclaredListed
<1>4. ASSUME NEW t \in declared, t.dev = d PROVE t \in Unsubscribed(d)
  <2>1. IsLocal(deviceMap[d]) BY <1>4 DEF SubsInv, DeclaredListed
  <2>2. PICK i \in DOMAIN controlList[d] : controlList[d][i] = t.ctl
    BY <1>4 DEF SubsInv, DeclaredListed
  <2>3. t = controlTopic(d, controlList[d][i], "on") BY <1>2, <1>4, <2>2, OnTopicIs
  <2> QED BY <2>1, <2>3 DEF Unsubscribed
<1>5. ASSUME NEW t \in declared, t.dev # d PROVE t \notin Unsubscribed(d)
  BY <1>5 DEF Unsubscribed, controlTopic
<1>6. SubscriptionsOwned' BY <1>1, <1>4, <1>5 DEF SubsInv, SubscriptionsOwned
<1> QED BY <1>3, <1>6 DEF SubsInv

(* Every step keeps the subscriptions owned.                               *)
LEMMA SubscriptionsStep ==
  ASSUME TypeOK, SubsInv, [Next]_vars
  PROVE  SubsInv'
<1>1. /\ deviceMap \in [Devices -> Object \cup {NoDev}]
      /\ controlList \in [Devices -> Seq(Controls)]
      /\ subs \subseteq OnTopics /\ declared \subseteq OnTopics
  BY DEF TypeOK
<1>2. CASE UNCHANGED <<deviceMap, nextOrder, controlList, subs, declared, stray>>
  BY <1>2 DEF SubsInv, DeclaredListed, SubscriptionsOwned, IsLocal
<1>3. ASSUME NEW d \in Devices, NEW dev \in ensureDevice(d), Register(d, dev),
             UNCHANGED <<subs, declared, stray>>
      PROVE  SubsInv'
  <2>1. deviceMap' = [deviceMap EXCEPT ![d] = dev] /\ UNCHANGED controlList
    BY <1>3 DEF Register
  <2>2. deviceMap[d] # NoDev => dev = deviceMap[d] BY EnsureDeviceTyped
  <2>3. \A n \in Devices : IsLocal(deviceMap[n]) => deviceMap'[n] = deviceMap[n]
    BY <1>1, <2>1, <2>2 DEF IsLocal, NoDev
  <2>4. \A t \in declared : t.dev \in Devices BY <1>1, OnTopicIs
  <2>5. DeclaredListed' BY <1>3, <2>1, <2>3, <2>4 DEF SubsInv, DeclaredListed
  <2> QED BY <1>3, <2>5 DEF SubsInv, SubscriptionsOwned
<1>4. ASSUME NEW d \in Devices, RemoveDevice(d) PROVE SubsInv'
  BY <1>1, <1>4, DroppedOwned DEF RemoveDevice, Deleted
<1>5. ASSUME NEW d \in Devices, NEW k \in {"real", "virtual", "ext"}, OnNewDevice(d, k)
      PROVE  SubsInv'
  <2>1. /\ Unsubscribe(d)
        /\ deviceMap' = [deviceMap EXCEPT ![d] = NewObject(d, k)]
        /\ controlList' \in {controlList, [controlList EXCEPT ![d] = <<>>]}
    BY <1>5, Zenon DEF OnNewDevice, Deleted
  <2>2. \A n \in Devices \ {d} :
          deviceMap'[n] = deviceMap[n] /\ controlList'[n] = controlList[n]
    BY <1>1, <2>1
  <2> QED BY <2>1, <2>2, DroppedOwned
<1>6. ASSUME NEW dev \in Object, NEW ctl \in ControlDefs, OnNewControl(dev, ctl)
      PROVE  SubsInv'
  <2> DEFINE d == dev.name
             on == controlTopic(d, ctl.name, "on")
  <2>1. /\ d \in Devices /\ ctl.name \in Controls BY DefsAssumption DEF Object, Control
  <2>2. /\ UNCHANGED deviceMap /\ IsLocal(dev)
        /\ controlList' = [controlList EXCEPT ![d] = Append(@, ctl.name)]
        /\ \/ UNCHANGED <<subs, declared, stray>>
           \/ /\ subs' = subs \cup {on} /\ declared' = declared \cup {on}
              /\ UNCHANGED stray /\ deviceMap[d] = dev
           \/ subs' = subs \cup {on} /\ UNCHANGED declared /\ stray' = stray \cup {on}
    BY <1>6 DEF OnNewControl
  <2>3. /\ controlList'[d] = Append(controlList[d], ctl.name)
        /\ \A n \in Devices \ {d} : controlList'[n] = controlList[n]
    BY <1>1, <2>1, <2>2
  <2>4. controlList[d] \in Seq(Controls) BY <1>1, <2>1
  <2>5. /\ Len(controlList[d]) + 1 \in DOMAIN controlList'[d]
        /\ controlList'[d][Len(controlList[d]) + 1] = ctl.name
        /\ \A i \in DOMAIN controlList[d] :
             i \in DOMAIN controlList'[d] /\ controlList'[d][i] = controlList[d][i]
    BY <2>1, <2>3, <2>4
  <2>6. SubscriptionsOwned' BY <2>2 DEF SubsInv, SubscriptionsOwned
  <2> SUFFICES ASSUME NEW t \in declared'
               PROVE  /\ IsLocal(deviceMap[t.dev])
                      /\ \E i \in DOMAIN controlList'[t.dev] : controlList'[t.dev][i] = t.ctl
    BY <2>2, <2>6 DEF SubsInv, DeclaredListed, IsLocal
  <2>7. CASE t \in declared
    <3>1. t.dev \in Devices BY <1>1, <2>7, OnTopicIs
    <3>2. /\ IsLocal(deviceMap[t.dev])
          /\ \E i \in DOMAIN controlList[t.dev] : controlList[t.dev][i] = t.ctl
      BY <2>7 DEF SubsInv, DeclaredListed
    <3>3. CASE t.dev = d BY <2>5, <3>2, <3>3
    <3>4. CASE t.dev # d BY <2>3, <3>1, <3>2, <3>4
    <3> QED BY <3>3, <3>4
  <2>8. CASE t \notin declared
    <3>1. t = on /\ deviceMap[d] = dev BY <2>2, <2>8
    <3>2. t.dev = d /\ t.ctl = ctl.name BY <3>1 DEF controlTopic
    <3> QED BY <2>2, <2>5, <3>1, <3>2
  <2> QED BY <2>7, <2>8
<1> QED BY <1>2, <1>3, <1>4, <1>5, <1>6, RegistryStep

(* Through any sequence of definitions, redefinitions and removals every   *)
(* writable control of a registered local device keeps its "on"            *)
(* subscription, and the only others are those an object that was not the  *)
(* registered one made.                                                    *)
THEOREM SubscriptionsAreOwned == Spec => []SubscriptionsOwned
<1>1. Init => SubsInv BY DEF Init, SubsInv, DeclaredListed, SubscriptionsOwned
<1>2. TypeOK /\ SubsInv /\ [Next]_vars => SubsInv'
  BY SubscriptionsStep
<1>3. SubsInv => SubscriptionsOwned BY DEF SubsInv
<1> QED BY <1>1, <1>2, <1>3, TypeCorrect, PTL DEF Spec

(* Only OnNewControl publishes orders.                                     *)
LEMMA OrdersPublished ==
  ASSUME TypeOK, [Next]_vars, NEW u \in Topics, u.kind = "order",
         ~\E dev \in Object, ctl \in ControlDefs : OnNewControl(dev, ctl)
  PROVE  retained'[u] = retained[u]
<1>1. retained \in [Topics -> Payloads] BY DEF TypeOK
<1>2. ASSUME NEW t, NEW p, NEW r, Sent(t, p, r), t # u PROVE retained'[u] = retained[u]
  BY <1>1, <1>2 DEF Sent
<1>3. ASSUME NEW d, NEW c, NEW v, NEW q, publishValue(q, d, c, v) PROVE retained'[u] = retained[u]
  <2>1. controlTopic(d, c, "value") # u BY DEF controlTopic
  <2> QED BY <1>2, <1>3, <2>1 DEF publishValue, publish
<1>4. CASE UNCHANGED vars BY <1>4 DEF vars, pubVars
<1>5. CASE ClientNext
  <2>1. PICK t \in Topics : t.kind \in ExtKinds \cup {"on"} /\ \E p : ClientPublish(t, p)
    BY <1>5 DEF ClientNext
  <2> QED BY <1>2, <2>1 DEF ClientPublish, ExtKinds
<1>6. CASE LoopNext
  BY <1>6 DEF LoopNext, Start, StartFailed, StartLoop, WhenReady, BecomeReady, Goto, pubVars
<1>7. CASE \E b \in BOOLEAN : SetAcceptsExternalDevices(b)
  BY <1>7 DEF SetAcceptsExternalDevices, pubVars
<1>8. CASE HandleMessage
  BY <1>3, <1>8 DEF HandleMessage, handleDeviceTitle, handleExternalControlType,
                    handleExternalControlMax, ForwardMeta, handleIncomingControlOnValue,
                    handleIncomingControlValue
<1>9. CASE ModelNext
  <2>1. ASSUME NEW i \in DOMAIN objects PROVE objects[i] \in Object BY DEF TypeOK
  <2>2. ASSUME NEW d \in Devices, RemoveDevice(d) PROVE retained'[u] = retained[u]
    BY <2>2 DEF RemoveDevice, pubVars
  <2>3. ASSUME NEW d \in Devices, NEW k, OnNewDevice(d, k) PROVE retained'[u] = retained[u]
    <3>1. topic(d) # u BY DEF topic
    <3> QED BY <1>2, <2>3, <3>1 DEF OnNewDevice, publishMeta, publish, pubVars
  <2>4. ASSUME NEW dev, NEW c, NEW v, OnValue(dev, c, v) PROVE retained'[u] = retained[u]
    <3>1. controlTopic(dev.name, c, "on") # u BY DEF controlTopic
    <3> QED BY <1>2, <1>3, <2>4, <3>1 DEF OnValue, publishOnValue, publish
  <2>5. ASSUME NEW dev, NEW c, OnError(dev, c) PROVE retained'[u] = retained[u]
    <3>1. controlTopic(dev.name, c, "error") # u BY DEF controlTopic
    <3> QED BY <1>2, <2>5, <3>1 DEF OnError, publishMeta, publish
  <2> QED BY <1>9, <2>1, <2>2, <2>3, <2>4, <2>5 DEF ModelNext
<1> QED BY <1>4, <1>5, <1>6, <1>7, <1>8, <1>9 DEF Next

(* Every step keeps the orders below the counter.                          *)
LEMMA OrdersStep ==
  ASSUME TypeOK, OrdersBelowNext, [Next]_vars
  PROVE  OrdersBelowNext'
<1> DEFINE order(n, l, i) == controlTopic(n, l[n][i], "order")
<1>1. /\ controlList \in [Devices -> Seq(Controls)] /\ nextOrder \in [Devices -> Nat]
      /\ retained \in [Topics -> Payloads]
  BY DEF TypeOK
<1>2. \A n \in Devices, c \in Controls :
        controlTopic(n, c, "order") \in Topics /\ controlTopic(n, c, "order").kind = "order"
  BY TopicsTyped DEF ControlKinds, controlTopic
<1>3. \A n \in Devices : \A i \in DOMAIN controlList[n] : controlList[n][i] \in Controls BY <1>1
<1>4. ASSUME ~\E dev \in Object, ctl \in ControlDefs : OnNewControl(dev, ctl),
             \A n \in Devices : \/ controlList'[n] = controlList[n] /\ nextOrder'[n] = nextOrder[n]
                                \/ controlList'[n] = <<>>
      PROVE  OrdersBelowNext'
  <2> SUFFICES ASSUME NEW n \in Devices, NEW i \in DOMAIN controlList'[n]
               PROVE  /\ retained'[controlTopic(n, controlList'[n][i], "order")] \in Nat
                      /\ retained'[controlTopic(n, controlList'[n][i], "order")] < nextOrder'[n]
    BY DEF OrdersBelowNext
  <2>1. controlList'[n] = controlList[n] /\ nextOrder'[n] = nextOrder[n] BY <1>4
  <2>2. retained'[controlTopic(n, controlList[n][i], "order")]
          = retained[controlTopic(n, controlList[n][i], "order")]
    BY <1>2, <1>3, <1>4, <2>1, OrdersPublished
  <2> QED BY <2>1, <2>2 DEF OrdersBelowNext
<1>5. ASSUME NEW dev \in Object, NEW ctl \in ControlDefs, OnNewControl(dev, ctl)
      PROVE  OrdersBelowNext'
  <2> DEFINE d == dev.name
             t == controlTopic(d, ctl.name, "value")
             new == controlTopic(d, ctl.name, "order")
             metas == {controlTopic(d, ctl.name, k) : k \in MetaKinds(ctl)}
             kept == IF Retain(ctl) THEN metas \cup {t} ELSE metas
  <2>1. d \in Devices /\ ctl.name \in Controls BY DefsAssumption DEF Object, Control
  <2>2. /\ nextOrder' = [nextOrder EXCEPT ![d] = NextOrder(d, ctl)]
        /\ controlList' = [controlList EXCEPT ![d] = Append(@, ctl.name)]
        /\ retained' = [u \in Topics |->
                          IF u \notin kept THEN retained[u]
                          ELSE CASE u = t -> InitialValue(dev, ctl)
                                 [] u.kind = "order" -> OrderOf(d, ctl)
                                 [] OTHER -> Text]
    BY <1>5 DEF OnNewControl
  <2>3. new \in kept /\ new # t /\ new.kind = "order" /\ new \in Topics
    BY <1>2, <2>1 DEF MetaKinds, controlTopic
  <2>4. \A u \in Topics : u.kind = "order" /\ u # new => u \notin kept BY DEF controlTopic
  <2> HIDE DEF kept, t, new, metas
  <2>5. /\ retained'[new] = OrderOf(d, ctl)
        /\ \A u \in Topics : u.kind = "order" /\ u # new => retained'[u] = retained[u]
    BY <2>2, <2>3, <2>4
  <2>6. /\ OrderOf(d, ctl) \in Nat /\ OrderOf(d, ctl) < NextOrder(d, ctl)
        /\ NextOrder(d, ctl) \in Nat /\ nextOrder[d] <= NextOrder(d, ctl)
    <3>1. OrderOf(d, ctl) \in Nat /\ nextOrder[d] \in Nat BY <1>1, <2>1, OrderTyped
    <3> QED BY <3>1 DEF NextOrder
  <2>7. \A n \in Devices : nextOrder'[n] = IF n = d THEN NextOrder(d, ctl) ELSE nextOrder[n]
    BY <1>1, <2>2
  <2>8. ASSUME NEW n \in Devices, NEW i \in DOMAIN controlList'[n]
        PROVE  /\ controlList'[n][i] \in Controls
               /\ \/ i \in DOMAIN controlList[n] /\ controlList'[n][i] = controlList[n][i]
                  \/ n = d /\ controlList'[n][i] = ctl.name
    <3>1. CASE n = d
      <4>1. controlList'[n] = Append(controlList[n], ctl.name) BY <1>1, <2>2, <3>1
      <4>2. controlList[n] \in Seq(Controls) BY <1>1
      <4>3. /\ \A j \in DOMAIN controlList'[n] :
                 j \in DOMAIN controlList[n] \/ j = Len(controlList[n]) + 1
            /\ \A j \in DOMAIN controlList[n] : controlList'[n][j] = controlList[n][j]
            /\ controlList'[n][Len(controlList[n]) + 1] = ctl.name
        BY <2>1, <4>1, <4>2
      <4> QED BY <1>3, <2>1, <3>1, <4>3
    <3>2. CASE n # d BY <1>1, <1>3, <2>2, <3>2
    <3> QED BY <3>1, <3>2
  <2>9. ASSUME NEW n \in Devices, NEW i \in DOMAIN controlList'[n]
        PROVE  /\ retained'[controlTopic(n, controlList'[n][i], "order")] \in Nat
               /\ retained'[controlTopic(n, controlList'[n][i], "order")] < nextOrder'[n]
    <3> DEFINE u == controlTopic(n, controlList'[n][i], "order")
    <3>1. u \in Topics /\ u.kind = "order" BY <1>2, <2>8
    <3>2. u = new => n = d BY DEF new, controlTopic
    <3>3. CASE u = new BY <2>5, <2>6, <2>7, <3>2, <3>3
    <3>4. CASE u # new
      <4>1. i \in DOMAIN controlList[n] /\ controlList'[n][i] = controlList[n][i]
        BY <2>8, <3>4 DEF new
      <4>2. retained[u] \in Nat /\ retained[u] < nextOrder[n] BY <4>1 DEF OrdersBelowNext
      <4>3. retained'[u] = retained[u] BY <2>5, <3>1, <3>4
      <4>4. nextOrder[n] \in Nat /\ nextOrder[n] <= nextOrder'[n] /\ nextOrder'[n] \in Nat
        BY <1>1, <2>6, <2>7
      <4> HIDE DEF u
      <4>5. retained'[u] \in Nat /\ retained'[u] < nextOrder'[n] BY <4>2, <4>3, <4>4
      <4> QED BY <4>5 DEF u
    <3> QED BY <3>3, <3>4
  <2> QED BY <2>9 DEF OrdersBelowNext
<1>6. ASSUME ~\E dev \in Object, ctl \in ControlDefs : OnNewControl(dev, ctl) PROVE OrdersBelowNext'
  <2>1. CASE UNCHANGED <<deviceMap, nextOrder, controlList, subs, declared, stray>> BY <1>4, <1>6, <2>1
  <2>2. ASSUME NEW d \in Devices, NEW dev, Register(d, dev) PROVE OrdersBelowNext'
    BY <1>4, <1>6, <2>2 DEF Register
  <2>3. ASSUME NEW d \in Devices, RemoveDevice(d) PROVE OrdersBelowNext'
    BY <1>1, <1>4, <1>6, <2>3 DEF RemoveDevice, Deleted
  <2>4. ASSUME NEW d \in Devices, NEW k, OnNewDevice(d, k) PROVE OrdersBelowNext'
    <3>1. \/ controlList' = [controlList EXCEPT ![d] = <<>>]
             /\ \A n \in Devices \ {d} : nextOrder'[n] = nextOrder[n]
          \/ UNCHANGED <<controlList, nextOrder>>
      BY <1>1, <2>4 DEF OnNewDevice, Deleted
    <3> QED BY <1>1, <1>4, <1>6, <3>1
  <2> QED BY <1>6, <2>1, <2>2, <2>3, <2>4, RegistryStep
<1> QED BY <1>5, <1>6

(* The counter of a device exceeds the orders of all its controls, those   *)
(* declared with an order of their own included.                           *)
THEOREM OrdersAreBelowNext == Spec => []OrdersBelowNext
<1>1. Init => OrdersBelowNext BY DEF Init, OrdersBelowNext
<1>2. TypeOK /\ OrdersBelowNext /\ [Next]_vars => OrdersBelowNext' BY OrdersStep
<1> QED BY <1>1, <1>2, TypeCorrect, PTL DEF Spec

-----------------------------------------------------------------------------
(* The driver's view of the values.  A queue leaves the record of topic t  *)
(* at v, from old, when its last message on t has payload v, or when it    *)
(* has none and old is v already.                                          *)

Ends(q, t, old, v) ==
  \/ old = v /\ \A i \in DOMAIN q : q[i].topic # t
  \/ \E i \in DOMAIN q :
       /\ q[i].topic = t /\ q[i].payload = v
       /\ \A j \in DOMAIN q : q[j].topic = t => j <= i

(* With queue q still to be handled: before the filters for external       *)
(* devices are subscribed no value has been received or is on its way, and *)
(* the last value of a topic is its retained one; from then on, q leaves   *)
(* the record at the last value.                                           *)
ViewOf(q) ==
  /\ ~extSubs => /\ \A i \in DOMAIN q : q[i].topic.kind = "on"
                 /\ \A t \in ValueTopics : /\ topics[t].received = Empty
                                           /\ latest[t] = retained[t]
  /\ extSubs => \A t \in ValueTopics : Ends(q, t, topics[t].received, latest[t])

(* The inductive invariant.                                                *)
ViewInv ==
  /\ phase \in {"idle", "starting"} => ~extSubs
  /\ \A t \in ValueTopics : ~topics[t].found => topics[t].received = Empty
  /\ ViewOf(handleMessageCh)

(* A message on another topic changes nothing for t.                       *)
LEMMA EndsOther ==
  ASSUME NEW q \in Seq(Message), NEW s \in Seq(Message), NEW t, NEW old, NEW v,
         Ends(q, t, old, v), \A i \in DOMAIN s : s[i].topic # t
  PROVE  Ends(q \o s, t, old, v)
<1> DEFINE w == q \o s
<1>1. /\ DOMAIN w = 1..(Len(q) + Len(s)) /\ DOMAIN q = 1..Len(q) /\ DOMAIN s = 1..Len(s)
      /\ Len(q) \in Nat /\ Len(s) \in Nat
      /\ \A i \in DOMAIN q : w[i] = q[i]
      /\ \A i \in DOMAIN w : i > Len(q) => w[i] = s[i - Len(q)]
  OBVIOUS
<1> HIDE DEF w
<1>2. \A i \in DOMAIN w : (i \in DOMAIN q /\ w[i] = q[i]) \/ w[i].topic # t
  <2> TAKE i \in DOMAIN w
  <2>1. CASE i <= Len(q) BY <1>1, <2>1
  <2>2. CASE i > Len(q)
    <3>1. i - Len(q) \in DOMAIN s BY <1>1, <2>2
    <3> QED BY <1>1, <2>2, <3>1
  <2> QED BY <1>1, <2>1, <2>2
<1>3. \A i \in DOMAIN q : i \in DOMAIN w BY <1>1
<1>4. Ends(w, t, old, v) BY <1>1, <1>2, <1>3 DEF Ends
<1> QED BY <1>4 DEF w

(* What follows the queue decides.                                         *)
LEMMA EndsLast ==
  ASSUME NEW q \in Seq(Message), NEW s \in Seq(Message), NEW t, NEW old, NEW u, NEW v,
         Ends(q, t, old, u), Ends(s, t, u, v)
  PROVE  Ends(q \o s, t, old, v)
<1>1. CASE u = v /\ \A i \in DOMAIN s : s[i].topic # t BY <1>1, EndsOther
<1>2. ASSUME NEW k \in DOMAIN s, s[k].topic = t, s[k].payload = v,
             \A j \in DOMAIN s : s[j].topic = t => j <= k
      PROVE  Ends(q \o s, t, old, v)
  <2> DEFINE w == q \o s
  <2>1. /\ DOMAIN w = 1..(Len(q) + Len(s)) /\ DOMAIN s = 1..Len(s)
        /\ Len(q) \in Nat /\ Len(s) \in Nat
        /\ \A i \in DOMAIN w : i > Len(q) => w[i] = s[i - Len(q)]
    OBVIOUS
  <2> HIDE DEF w
  <2>2. PICK l \in DOMAIN w : l = k + Len(q) BY <1>2, <2>1
  <2>3. w[l] = s[k] BY <1>2, <2>1, <2>2
  <2>4. ASSUME NEW j \in DOMAIN w, w[j].topic = t PROVE j <= l
    <3>1. CASE j <= Len(q) BY <1>2, <2>1, <2>2, <3>1
    <3>2. CASE j > Len(q)
      <4>1. PICK i \in DOMAIN s : i = j - Len(q) BY <2>1, <3>2
      <4>2. w[j] = s[i] BY <2>1, <3>2, <4>1
      <4>3. i <= k BY <1>2, <2>4, <4>2
      <4> QED BY <1>2, <2>1, <2>2, <4>1, <4>3
    <3> QED BY <2>1, <3>1, <3>2
  <2>5. Ends(w, t, old, v) BY <1>2, <2>3, <2>4 DEF Ends
  <2> QED BY <2>5 DEF w
<1> QED BY <1>1, <1>2 DEF Ends

(* Handling the first message.                                             *)
LEMMA EndsTail ==
  ASSUME NEW q \in Seq(Message), q # <<>>, NEW t, NEW old, NEW v, Ends(q, t, old, v)
  PROVE  Ends(Tail(q), t, IF Head(q).topic = t THEN Head(q).payload ELSE old, v)
<1> DEFINE w == Tail(q)
           new == IF Head(q).topic = t THEN Head(q).payload ELSE old
<1>1. /\ DOMAIN q = 1..Len(q) /\ Len(q) \in Nat /\ Len(q) >= 1 /\ DOMAIN w = 1..(Len(q) - 1)
      /\ \A i \in DOMAIN w : w[i] = q[i + 1]
      /\ Head(q) = q[1]
  OBVIOUS
<1> HIDE DEF w
<1>2. \A i \in DOMAIN w : i + 1 \in DOMAIN q /\ w[i] = q[i + 1] BY <1>1
<1>3. \A i \in DOMAIN q : i # 1 => i - 1 \in DOMAIN w /\ w[i - 1] = q[i]
  <2> TAKE i \in DOMAIN q
  <2> SUFFICES ASSUME i # 1 PROVE i - 1 \in DOMAIN w /\ w[i - 1] = q[i] OBVIOUS
  <2>1. PICK k \in DOMAIN w : k = i - 1 BY <1>1
  <2>2. k + 1 = i BY <1>1, <2>1
  <2> QED BY <1>2, <2>1, <2>2
<1>4. CASE old = v /\ \A i \in DOMAIN q : q[i].topic # t
  <2>1. Head(q).topic # t BY <1>1, <1>4
  <2>2. \A i \in DOMAIN w : w[i].topic # t BY <1>2, <1>4
  <2> QED BY <1>4, <2>1, <2>2 DEF Ends, w
<1>5. ASSUME NEW k \in DOMAIN q, q[k].topic = t, q[k].payload = v,
             \A j \in DOMAIN q : q[j].topic = t => j <= k
      PROVE  Ends(w, t, new, v)
  <2>1. CASE k = 1
    <3>1. new = v BY <1>1, <1>5, <2>1
    <3>2. ASSUME NEW i \in DOMAIN w, w[i].topic = t PROVE FALSE
      <4>1. i + 1 \in DOMAIN q /\ q[i + 1].topic = t BY <1>2, <3>2
      <4>2. i + 1 <= 1 BY <1>5, <2>1, <4>1
      <4> QED BY <1>1, <4>2
    <3> QED BY <3>1, <3>2 DEF Ends
  <2>2. CASE k # 1
    <3>1. PICK l \in DOMAIN w : l = k - 1 /\ w[l] = q[k] BY <1>3, <1>5, <2>2
    <3>2. ASSUME NEW i \in DOMAIN w, w[i].topic = t PROVE i <= l
      <4>1. i + 1 \in DOMAIN q /\ q[i + 1].topic = t BY <1>2, <3>2
      <4>2. i + 1 <= k BY <1>5, <4>1
      <4> QED BY <1>1, <1>5, <3>1, <4>2
    <3> QED BY <1>5, <3>1, <3>2 DEF Ends
  <2> QED BY <2>1, <2>2
<1> QED BY <1>4, <1>5 DEF Ends, w

(* Handling a message that is not a value.                                 *)
LEMMA ViewTail ==
  ASSUME NEW q \in Seq(Message), q # <<>>, ViewOf(q), Head(q).topic \notin ValueTopics
  PROVE  ViewOf(Tail(q))
<1>1. ASSUME ~extSubs PROVE \A i \in DOMAIN Tail(q) : Tail(q)[i].topic.kind = "on"
  <2>1. \A i \in DOMAIN q : q[i].topic.kind = "on" BY <1>1 DEF ViewOf
  <2>2. \A i \in DOMAIN Tail(q) : i + 1 \in DOMAIN q /\ Tail(q)[i] = q[i + 1] OBVIOUS
  <2> QED BY <2>1, <2>2
<1>2. ASSUME extSubs, NEW t \in ValueTopics
      PROVE  Ends(Tail(q), t, topics[t].received, latest[t])
  <2>1. Ends(q, t, topics[t].received, latest[t]) BY <1>2 DEF ViewOf
  <2>2. Head(q).topic # t OBVIOUS
  <2> QED BY <2>1, <2>2, EndsTail
<1> QED BY <1>1, <1>2 DEF ViewOf

(* A message sent, by the driver or by a client, keeps the view.           *)
LEMMA ViewSent ==
  ASSUME TypeOK, NEW q \in Seq(Message), ViewOf(q),
         NEW t \in Topics, NEW p \in Payloads, NEW r \in BOOLEAN, Sent(t, p, r),
         handleMessageCh' = q \o Deliver(t, p), extSubs' = extSubs,
         \A u \in ValueTopics : topics'[u].received = topics[u].received
  PROVE  ViewOf(handleMessageCh)'
<1>1. retained \in [Topics -> Payloads] /\ latest \in [ValueTopics -> Payloads] BY DEF TypeOK
<1>2. ValueTopics \subseteq Topics BY TopicsTyped
<1>3. [topic |-> t, payload |-> p] \in Message BY DEF Message
<1>4. CASE ~extSubs
  <2>1. latest' = IF t \in ValueTopics /\ r THEN [latest EXCEPT ![t] = p] ELSE latest
    BY <1>4 DEF Sent
  <2>2. \A u \in ValueTopics : latest'[u] = retained'[u]
    BY <1>1, <1>2, <1>4, <2>1 DEF Sent, ViewOf
  <2>3. \A i \in DOMAIN handleMessageCh' : handleMessageCh'[i].topic.kind = "on"
    <3>1. \A i \in DOMAIN q : q[i].topic.kind = "on" BY <1>4 DEF ViewOf
    <3>2. CASE t.kind = "on" /\ t \in subs
      <4>1. handleMessageCh' = Append(q, [topic |-> t, payload |-> p])
        BY <1>3, <3>2 DEF Deliver, Subscribed
      <4> QED BY <1>3, <3>1, <3>2, <4>1
    <3>3. CASE ~(t.kind = "on" /\ t \in subs)
      <4>1. handleMessageCh' = q \o <<>> BY <1>4, <3>3 DEF Deliver, Subscribed
      <4>2. handleMessageCh' = q BY <4>1
      <4> QED BY <3>1, <4>2
    <3> QED BY <3>2, <3>3
  <2> QED BY <1>4, <2>2, <2>3 DEF ViewOf
<1>5. CASE extSubs
  <2>1. ASSUME NEW u \in ValueTopics PROVE Ends(handleMessageCh', u, topics[u].received, latest'[u])
    <3> DEFINE s == Deliver(t, p)
    <3>1. s \in Seq(Message) BY DeliverTyped
    <3>2. Ends(q, u, topics[u].received, latest[u]) BY <1>5 DEF ViewOf
    <3>3. Ends(s, u, latest[u], latest'[u])
      <4>1. CASE u = t
        <5>1. latest'[u] = p BY <1>1, <1>5, <4>1 DEF Sent
        <5>2. s = <<[topic |-> t, payload |-> p]>>
          BY <1>5, <4>1 DEF Deliver, Subscribed, ExtKinds, ValueTopics
        <5>3. /\ DOMAIN s = {1} /\ s[1].topic = t /\ s[1].payload = p BY <5>2
        <5> HIDE DEF s
        <5> QED BY <4>1, <5>1, <5>3 DEF Ends
      <4>2. CASE u # t
        <5>1. latest'[u] = latest[u] BY <1>1, <4>2 DEF Sent
        <5>2. s = <<[topic |-> t, payload |-> p]>> \/ s = <<>> BY DEF Deliver
        <5>3. \A i \in DOMAIN s : s[i].topic = t BY <5>2
        <5> HIDE DEF s
        <5> QED BY <4>2, <5>1, <5>3 DEF Ends
      <4> QED BY <4>1, <4>2
    <3> QED BY <3>1, <3>2, <3>3, EndsLast
  <2> QED BY <1>5, <2>1 DEF ViewOf
<1> QED BY <1>4, <1>5

(* So does the queue when nothing of it changes.                           *)
LEMMA ViewSame ==
  ASSUME NEW q, ViewOf(q), handleMessageCh' = q, UNCHANGED <<extSubs, retained, latest>>,
         \A u \in ValueTopics : topics'[u].received = topics[u].received
  PROVE  ViewOf(handleMessageCh)'
BY DEF ViewOf

(* Clearing the device cache keeps what was received.                      *)
LEMMA ClearedReceived ==
  ASSUME TypeOK
  PROVE  \A u \in ValueTopics : /\ clearTopicDevCache[u].received = topics[u].received
                                /\ clearTopicDevCache[u].found = topics[u].found
BY DEF TypeOK, clearTopicDevCache, driverTopic

(* The step OnNewControl: only the value it publishes counts.              *)
LEMMA ViewControl ==
  ASSUME TypeOK, ViewOf(handleMessageCh), NEW dev \in Object, NEW ctl \in ControlDefs,
         OnNewControl(dev, ctl)
  PROVE  ViewOf(handleMessageCh)'
<1> DEFINE d == dev.name
           t == controlTopic(d, ctl.name, "value")
           value == InitialValue(dev, ctl)
           metas == {controlTopic(d, ctl.name, k) : k \in MetaKinds(ctl)}
           kept == IF Retain(ctl) THEN metas \cup {t} ELSE metas
           t1 == controlTopic(d, ctl.name, "type")
           t2 == controlTopic(d, ctl.name, "max")
           m1 == Deliver(t1, Text)
           m2 == IF ctl.hasMax THEN Deliver(t2, Text) ELSE <<>>
           m3 == IF Retain(ctl) THEN Deliver(t, value) ELSE <<>>
           q == handleMessageCh \o m1 \o m2
<1>1. ctl \in Control /\ ctl.name \in Controls /\ ctl.value \in Values /\ d \in Devices
  BY DefsAssumption DEF Control, Object
<1>2. t \in ValueTopics /\ t \in Topics /\ t1 \in Topics /\ t2 \in Topics
  BY <1>1, TopicsTyped DEF ControlKinds
<1>3. value \in Payloads
  BY <1>1, <1>2, PayloadsTyped DEF InitialValue, TypeOK, driverTopic
<1>4. t1 \notin ValueTopics /\ t2 \notin ValueTopics /\ t1.kind # "on" /\ t2.kind # "on"
  BY DEF ValueTopics, controlTopic
<1>5. \A u \in ValueTopics : u \in kept <=> Retain(ctl) /\ u = t
  BY DEF MetaKinds, ValueTopics, controlTopic
<1>6. /\ retained' = [u \in Topics |->
                        IF u \notin kept THEN retained[u]
                        ELSE CASE u = t -> value
                               [] u.kind = "order" -> OrderOf(d, ctl)
                               [] OTHER -> Text]
      /\ latest' = IF Retain(ctl) THEN [latest EXCEPT ![t] = value] ELSE latest
      /\ handleMessageCh' = q \o m3
      /\ extSubs' = extSubs /\ topics' = topics
  BY DEF OnNewControl
<1>7. /\ handleMessageCh \in Seq(Message) /\ retained \in [Topics -> Payloads]
      /\ latest \in [ValueTopics -> Payloads]
  BY DEF TypeOK
<1>8. <<>> \in Seq(Message) OBVIOUS
<1>9. m1 \in Seq(Message) BY <1>2, DeliverTyped, PayloadsTyped
<1>10. m2 \in Seq(Message) BY <1>2, <1>8, DeliverTyped, PayloadsTyped, Zenon
<1>11. m3 \in Seq(Message) BY <1>2, <1>3, <1>8, DeliverTyped, Zenon
<1>12. m1 = <<[topic |-> t1, payload |-> Text]>> \/ m1 = <<>> BY DEF Deliver
<1>13. m2 = <<[topic |-> t2, payload |-> Text]>> \/ m2 = <<>> BY DEF Deliver
<1>14. ~extSubs => m1 = <<>> /\ m2 = <<>> /\ m3 = <<>>
  BY <1>4 DEF Deliver, Subscribed, controlTopic
<1>15. ValueTopics \subseteq Topics BY TopicsTyped
<1>16. extSubs /\ Retain(ctl) => m3 = <<[topic |-> t, payload |-> value]>>
  BY DEF Deliver, Subscribed, ExtKinds, controlTopic
<1>17. ~Retain(ctl) => m3 = <<>> OBVIOUS
<1> HIDE DEF d, t, value, metas, kept, t1, t2, m1, m2, m3
<1>18. q \in Seq(Message) BY <1>7, <1>9, <1>10
<1>19. CASE ~extSubs
  <2>1. handleMessageCh' = handleMessageCh \o <<>> \o <<>> \o <<>> BY <1>6, <1>14, <1>19
  <2>2. handleMessageCh' = handleMessageCh BY <1>7, <2>1
  <2>3. ASSUME NEW u \in ValueTopics PROVE latest'[u] = retained'[u]
    <3>1. latest[u] = retained[u] /\ u \in Topics BY <1>15, <1>19 DEF ViewOf
    <3>2. CASE Retain(ctl) /\ u = t
      <4>1. u \in kept /\ u.kind = "value" BY <1>5, <3>2 DEF ValueTopics
      <4>2. retained'[u] = value BY <1>6, <3>1, <3>2, <4>1
      <4> QED BY <1>6, <1>7, <3>2, <4>2
    <3>3. CASE ~(Retain(ctl) /\ u = t)
      <4>1. retained'[u] = retained[u] BY <1>5, <1>6, <3>1, <3>3
      <4> QED BY <1>6, <1>7, <3>1, <3>3, <4>1
    <3> QED BY <3>2, <3>3
  <2> QED BY <1>6, <1>19, <2>2, <2>3 DEF ViewOf
<1>20. CASE extSubs
  <2>1. ASSUME NEW u \in ValueTopics PROVE Ends(handleMessageCh', u, topics[u].received, latest'[u])
    <3>1. Ends(handleMessageCh, u, topics[u].received, latest[u]) BY <1>20 DEF ViewOf
    <3>2. \A i \in DOMAIN m1 : m1[i].topic # u BY <1>4, <1>12
    <3>3. \A i \in DOMAIN m2 : m2[i].topic # u BY <1>4, <1>13
    <3>4. Ends(handleMessageCh \o m1, u, topics[u].received, latest[u])
      BY <1>7, <1>9, <3>1, <3>2, EndsOther
    <3>5. handleMessageCh \o m1 \in Seq(Message) BY <1>7, <1>9
    <3>6. Ends(q, u, topics[u].received, latest[u]) BY <1>10, <3>3, <3>4, <3>5, EndsOther
    <3>7. Ends(m3, u, latest[u], latest'[u])
      <4>1. CASE Retain(ctl) /\ u = t
        <5>1. latest'[u] = value BY <1>6, <1>7, <4>1
        <5>2. DOMAIN m3 = {1} /\ m3[1].topic = u /\ m3[1].payload = value BY <1>16, <1>20, <4>1
        <5> QED BY <5>1, <5>2 DEF Ends
      <4>2. CASE ~(Retain(ctl) /\ u = t)
        <5>1. latest'[u] = latest[u] BY <1>6, <1>7, <4>2
        <5>2. \A i \in DOMAIN m3 : m3[i].topic # u BY <1>16, <1>17, <1>20, <4>2
        <5> QED BY <5>1, <5>2 DEF Ends
      <4> QED BY <4>1, <4>2
    <3> HIDE DEF q
    <3> QED BY <1>6, <1>11, <1>18, <3>6, <3>7, EndsLast
  <2> QED BY <1>6, <1>20, <2>1 DEF ViewOf
<1> QED BY <1>19, <1>20

(* What the broker answers to the subscription to the values: one message  *)
(* for each topic that has a retained value, none for the others.          *)
LEMMA ListedValues ==
  ASSUME TypeOK, NEW s \in Listings(RetainedOf("value")), NEW t \in ValueTopics
  PROVE  Ends(s, t, Empty, retained[t])
<1> DEFINE S == RetainedOf("value")
           n == Cardinality(S)
<1>1. \A m \in S : m.topic \in Topics /\ m.topic.kind = "value" /\ m.payload = retained[m.topic]
                     /\ retained[m.topic] # Empty /\ m = [topic |-> m.topic, payload |-> retained[m.topic]]
  BY DEF RetainedOf
<1>2. s \in [1..n -> S] /\ \A m \in S : \E i \in DOMAIN s : s[i] = m BY DEF Listings
<1>3. IsFiniteSet(S) BY RetainedFinite
<1>4. retained[t] # Empty => [topic |-> t, payload |-> retained[t]] \in S
  BY TopicsTyped DEF RetainedOf, ValueTopics
<1> HIDE DEF S
<1>5. n \in Nat BY <1>3, FS_CardinalityType
<1>6. IsFiniteSet(1..n) /\ Cardinality(1..n) = n BY <1>5, FS_Interval
<1> HIDE DEF n
<1>7. s \in Surjection(1..n, S) BY <1>2 DEF Surjection
<1>8. s \in Injection(1..n, S) BY <1>6, <1>7, FS_SurjSameCardinalityImpliesInj DEF n
<1>9. \A i, j \in 1..n : s[i] = s[j] => i = j BY <1>8 DEF Injection, IsInjective
<1>10. CASE retained[t] = Empty
  <2>1. \A i \in DOMAIN s : s[i].topic # t BY <1>1, <1>2, <1>10
  <2> QED BY <1>10, <2>1 DEF Ends
<1>11. CASE retained[t] # Empty
  <2>1. PICK i \in DOMAIN s : s[i] = [topic |-> t, payload |-> retained[t]] BY <1>2, <1>4, <1>11
  <2>2. ASSUME NEW j \in DOMAIN s, s[j].topic = t PROVE j <= i
    <3>1. s[j] = [topic |-> t, payload |-> retained[t]] BY <1>1, <1>2, <2>2
    <3>2. i \in 1..n /\ j \in 1..n BY <1>2
    <3>3. i = j BY <1>9, <2>1, <3>1, <3>2
    <3> QED BY <1>5, <3>2, <3>3
  <2>3. s[i].topic = t /\ s[i].payload = retained[t] BY <2>1
  <2> QED BY <2>2, <2>3 DEF Ends
<1> QED BY <1>10, <1>11

(* The other answers are on other topics.                                  *)
LEMMA ListedOthers ==
  ASSUME TypeOK, NEW k, k # "value", NEW s \in Listings(RetainedOf(k)), NEW t \in ValueTopics
  PROVE  \A i \in DOMAIN s : s[i].topic # t
<1>1. \A m \in RetainedOf(k) : m.topic.kind = k BY DEF RetainedOf
<1>2. t.kind = "value" BY DEF ValueTopics
<1>3. \A i \in DOMAIN s : s[i] \in RetainedOf(k) BY DEF Listings
<1> QED BY <1>1, <1>2, <1>3

(* The step StartLoop.                                                     *)
LEMMA ViewStartLoop ==
  ASSUME TypeOK, ViewInv, StartLoop
  PROVE  ViewOf(handleMessageCh)'
<1>1. ~extSubs BY DEF StartLoop, ViewInv
<1>2. /\ \A i \in DOMAIN handleMessageCh : handleMessageCh[i].topic.kind = "on"
      /\ \A t \in ValueTopics : topics[t].received = Empty /\ latest[t] = retained[t]
  BY <1>1 DEF ViewInv, ViewOf
<1>3. topics' = topics /\ latest' = latest /\ retained' = retained /\ extSubs' = acceptsExternalDevices
  BY DEF StartLoop, Goto
<1>4. handleMessageCh \in Seq(Message) BY DEF TypeOK
<1>5. CASE ~acceptsExternalDevices
  <2>1. handleMessageCh' = handleMessageCh BY <1>5 DEF StartLoop
  <2> QED BY <1>2, <1>3, <1>5, <2>1 DEF ViewOf
<1>6. CASE acceptsExternalDevices
  <2>1. PICK s1 \in Listings(RetainedOf("title")),
             s2 \in Listings(RetainedOf("value")),
             s3 \in Listings(RetainedOf("type")),
             s4 \in Listings(RetainedOf("max")) :
          handleMessageCh' = handleMessageCh \o s1 \o s2 \o s3 \o s4
    BY <1>6 DEF StartLoop
  <2>2. /\ s1 \in Seq(Message) /\ s2 \in Seq(Message)
        /\ s3 \in Seq(Message) /\ s4 \in Seq(Message)
    BY ListingsTyped
  <2>3. ASSUME NEW t \in ValueTopics PROVE Ends(handleMessageCh', t, topics[t].received, latest[t])
    <3>1. \A i \in DOMAIN handleMessageCh : handleMessageCh[i].topic # t BY <1>2 DEF ValueTopics
    <3>2. Ends(handleMessageCh, t, Empty, Empty) BY <3>1 DEF Ends
    <3>3. /\ \A i \in DOMAIN s1 : s1[i].topic # t
          /\ \A i \in DOMAIN s3 : s3[i].topic # t
          /\ \A i \in DOMAIN s4 : s4[i].topic # t
      BY ListedOthers
    <3>4. Ends(handleMessageCh \o s1, t, Empty, Empty) BY <1>4, <2>2, <3>2, <3>3, EndsOther
    <3>5. Ends(s2, t, Empty, latest[t]) BY <1>2, ListedValues
    <3>6. handleMessageCh \o s1 \in Seq(Message) BY <1>4, <2>2
    <3>7. Ends(handleMessageCh \o s1 \o s2, t, Empty, latest[t]) BY <2>2, <3>4, <3>5, <3>6, EndsLast
    <3>8. handleMessageCh \o s1 \o s2 \in Seq(Message) BY <2>2, <3>6
    <3>9. Ends(handleMessageCh \o s1 \o s2 \o s3, t, Empty, latest[t])
      BY <2>2, <3>3, <3>7, <3>8, EndsOther
    <3>10. handleMessageCh \o s1 \o s2 \o s3 \in Seq(Message) BY <2>2, <3>8
    <3>11. Ends(handleMessageCh \o s1 \o s2 \o s3 \o s4, t, Empty, latest[t])
      BY <2>2, <3>3, <3>9, <3>10, EndsOther
    <3> QED BY <1>2, <2>1, <3>11
  <2> QED BY <1>3, <1>6, <2>3 DEF ViewOf
<1> QED BY <1>5, <1>6

(* The step that takes a value: the message at the head of the queue       *)
(* becomes the record of its topic, and is no longer in the queue.         *)
LEMMA ViewValueMessage ==
  ASSUME TypeOK, ViewInv, handleMessageCh # <<>>,
         handleIncomingControlValue(Head(handleMessageCh))
  PROVE  /\ ViewOf(handleMessageCh)'
         /\ \A t \in ValueTopics : ~topics'[t].found => topics'[t].received = Empty
<1> DEFINE m == Head(handleMessageCh)
<1>1. m \in Message /\ Tail(handleMessageCh) \in Seq(Message) BY HeadTyped
<1>2. m.topic \in ValueTopics /\ m.topic.kind = "value" /\ m.topic.dev \in Devices
  BY <1>1, MessageTyped DEF handleIncomingControlValue
<1>3. /\ handleMessageCh' = Tail(handleMessageCh)
      /\ extSubs' = extSubs /\ latest' = latest /\ retained' = retained
  BY DEF handleIncomingControlValue, netVars
<1>4. handleMessageCh \in Seq(Message) /\ topics \in [ValueTopics -> driverTopic] BY DEF TypeOK
<1>5. extSubs
  <2>1. m = handleMessageCh[1] /\ 1 \in DOMAIN handleMessageCh BY <1>4
  <2> QED BY <1>2, <2>1 DEF ViewInv, ViewOf
<1>6. Recorded(m).received = m.payload /\ Recorded(m).found
  <2>1. topics[m.topic] \in driverTopic BY <1>2, <1>4
  <2> QED BY <2>1 DEF Recorded, driverTopic
<1>7. Recorded(m) \in driverTopic BY <1>1, <1>2, EntryTyped
<1>8. \A dev : Resolved(Recorded(m), dev).received = m.payload /\ Resolved(Recorded(m), dev).found
  BY <1>6, <1>7 DEF Resolved, driverTopic
<1>9. \E e : topics' = [topics EXCEPT ![m.topic] = e] /\ e.received = m.payload /\ e.found
  <2>1. CASE Looked(Recorded(m)) BY <1>8, <2>1 DEF handleIncomingControlValue
  <2>2. CASE ~Looked(Recorded(m)) BY <1>6, <2>2 DEF handleIncomingControlValue
  <2> QED BY <2>1, <2>2
<1>10. /\ topics'[m.topic].received = m.payload /\ topics'[m.topic].found
       /\ \A t \in ValueTopics : t # m.topic => topics'[t] = topics[t]
  BY <1>2, <1>4, <1>9
<1>11. ASSUME NEW t \in ValueTopics
       PROVE  Ends(Tail(handleMessageCh), t, topics'[t].received, latest[t])
  <2>1. Ends(handleMessageCh, t, topics[t].received, latest[t]) BY <1>5 DEF ViewInv, ViewOf
  <2>2. topics'[t].received = IF m.topic = t THEN m.payload ELSE topics[t].received BY <1>10
  <2>3. Ends(Tail(handleMessageCh), t, IF m.topic = t THEN m.payload ELSE topics[t].received, latest[t])
    BY <1>4, <2>1, EndsTail
  <2> QED BY <2>2, <2>3
<1>12. ViewOf(handleMessageCh)' BY <1>3, <1>5, <1>11 DEF ViewOf
<1>13. \A t \in ValueTopics : ~topics'[t].found => topics'[t].received = Empty
  BY <1>10 DEF ViewInv
<1> QED BY <1>12, <1>13

(* Every step keeps the invariant.                                         *)
LEMMA ViewStep ==
  ASSUME TypeOK, ViewInv, [Next]_vars
  PROVE  ViewInv'
<1> DEFINE Kept == \A t \in ValueTopics : /\ topics'[t].received = topics[t].received
                                          /\ topics'[t].found = topics[t].found
<1>1. handleMessageCh \in Seq(Message) /\ ViewOf(handleMessageCh) BY DEF TypeOK, ViewInv
<1>2. ASSUME phase' = phase \/ phase' \notin {"idle", "starting"}, extSubs' = extSubs,
             Kept, ViewOf(handleMessageCh)'
      PROVE  ViewInv'
  BY <1>2 DEF ViewInv
<1>3. ASSUME UNCHANGED <<phase, topics, extSubs>>, NEW t \in Topics, NEW p \in Payloads,
             NEW r \in BOOLEAN, Sent(t, p, r),
             handleMessageCh' = handleMessageCh \o Deliver(t, p)
      PROVE  ViewInv'
  <2>1. ViewOf(handleMessageCh)' BY <1>1, <1>3, ViewSent
  <2> QED BY <1>2, <1>3, <2>1
<1>4. CASE UNCHANGED vars BY <1>1, <1>2, <1>4, ViewSame DEF vars, drvVars, netVars, pubVars
<1>5. ASSUME NEW b \in BOOLEAN, SetAcceptsExternalDevices(b) PROVE ViewInv'
  BY <1>1, <1>2, <1>5, ViewSame DEF SetAcceptsExternalDevices, netVars, pubVars
<1>6. CASE ClientNext
  <2>1. PICK t \in Topics : \E p \in ClientPayloads(t) : ClientPublish(t, p)
    BY <1>6 DEF ClientNext
  <2>2. PICK p \in ClientPayloads(t) : ClientPublish(t, p) BY <2>1
  <2>3. p \in Payloads BY DEF ClientPayloads, Payloads
  <2>4. (t.kind # "on") \in BOOLEAN OBVIOUS
  <2> QED BY <1>3, <2>2, <2>3, <2>4 DEF ClientPublish, drvVars, netVars
<1>7. CASE LoopNext
  <2>1. CASE StartLoop
    <3>1. topics' = topics /\ phase' = "select" BY <2>1 DEF StartLoop, Goto
    <3> QED BY <2>1, <3>1, ViewStartLoop DEF ViewInv
  <2>2. CASE Start \/ StartFailed \/ WhenReady \/ BecomeReady
    <3>1. /\ phase \notin {"idle", "starting"} => phase' \notin {"idle", "starting"}
          /\ UNCHANGED <<topics, netVars, pubVars>>
      BY <2>2 DEF Start, StartFailed, WhenReady, BecomeReady, Goto, active
    <3>2. ViewOf(handleMessageCh)' BY <1>1, <3>1, ViewSame DEF netVars, pubVars
    <3> QED BY <3>1, <3>2 DEF ViewInv, netVars
  <2> QED BY <1>7, <2>1, <2>2 DEF LoopNext
<1>8. CASE HandleMessage
  <2> DEFINE m == Head(handleMessageCh)
             q == Tail(handleMessageCh)
  <2>1. handleMessageCh # <<>> /\ m \in Message /\ q \in Seq(Message)
    BY <1>8, HeadTyped DEF HandleMessage
  <2>2. m.topic.kind # "value" => ViewOf(q) BY <1>1, <2>1, ViewTail DEF ValueTopics
  <2>3. CASE handleDeviceTitle(m) \/ handleExternalControlType(m) \/ handleExternalControlMax(m)
    <3>1. /\ m.topic.kind # "value" /\ handleMessageCh' = q
          /\ UNCHANGED <<drvVars, netVars, retained, latest, topics>>
      BY <2>3 DEF handleDeviceTitle, handleExternalControlType, handleExternalControlMax, ForwardMeta
    <3>2. ViewOf(handleMessageCh)' BY <2>2, <3>1, ViewSame DEF netVars
    <3> QED BY <1>2, <3>1, <3>2 DEF drvVars, netVars
  <2>4. CASE handleIncomingControlOnValue(m)
    <3>1. /\ m.topic.kind # "value" /\ phase' \in {phase, "panicked"}
          /\ UNCHANGED <<netVars, topics>>
      BY <2>4 DEF handleIncomingControlOnValue
    <3>2. \/ handleMessageCh' = q /\ UNCHANGED <<retained, latest>>
          \/ publishValue(q, m.topic.dev, m.topic.ctl, m.payload)
      BY <2>4 DEF handleIncomingControlOnValue
    <3>3. CASE handleMessageCh' = q /\ UNCHANGED <<retained, latest>>
      <4>1. ViewOf(handleMessageCh)' BY <2>2, <3>1, <3>3, ViewSame DEF netVars
      <4> QED BY <1>2, <3>1, <4>1 DEF netVars
    <3>4. CASE publishValue(q, m.topic.dev, m.topic.ctl, m.payload)
      <4> DEFINE t == controlTopic(m.topic.dev, m.topic.ctl, "value")
      <4>1. t \in ValueTopics /\ t \in Topics /\ m.payload \in Payloads
        BY <2>1, <2>4, MessageTyped, TopicsTyped DEF handleIncomingControlOnValue
      <4>2. retainMap[t] \in BOOLEAN BY <4>1 DEF TypeOK
      <4>3. Sent(t, m.payload, retainMap[t]) /\ handleMessageCh' = q \o Deliver(t, m.payload)
        BY <3>4 DEF publishValue, publish
      <4> HIDE DEF q, t
      <4>4. ViewOf(handleMessageCh)' BY <2>1, <2>2, <3>1, <4>1, <4>2, <4>3, ViewSent DEF netVars
      <4> QED BY <1>2, <3>1, <4>4 DEF netVars
    <3> QED BY <3>2, <3>3, <3>4
  <2>5. CASE handleIncomingControlValue(m)
    <3>1. UNCHANGED <<phase, extSubs>> BY <2>5 DEF handleIncomingControlValue, drvVars, netVars
    <3> QED BY <2>1, <2>5, <3>1, ViewValueMessage DEF ViewInv
  <2> QED BY <1>8, <2>3, <2>4, <2>5 DEF HandleMessage
<1>9. CASE ModelNext
  <2>1. ASSUME NEW i \in DOMAIN objects
        PROVE  objects[i] \in Object
    BY <2>1 DEF TypeOK
  <2>2. ASSUME NEW d \in Devices, RemoveDevice(d) PROVE ViewInv'
    <3>1. Kept BY <2>2, ClearedReceived DEF RemoveDevice
    <3>2. UNCHANGED <<phase, extSubs, handleMessageCh, retained, latest>>
      BY <2>2 DEF RemoveDevice, drvVars, pubVars
    <3> QED BY <1>1, <1>2, <3>1, <3>2, ViewSame
  <2>3. ASSUME NEW d \in Devices, NEW k, OnNewDevice(d, k) PROVE ViewInv'
    <3>1. Kept BY <2>3, ClearedReceived DEF OnNewDevice
    <3>2. UNCHANGED <<phase, extSubs>> BY <2>3 DEF OnNewDevice, drvVars
    <3>3. CASE k = "ext" BY <1>1, <1>2, <2>3, <3>1, <3>2, <3>3, ViewSame DEF OnNewDevice, pubVars
    <3>4. CASE k # "ext"
      <4>1. Sent(topic(d), Text, TRUE) /\ handleMessageCh' = handleMessageCh \o Deliver(topic(d), Text)
        BY <2>3, <3>4 DEF OnNewDevice, publishMeta, publish
      <4>2. topic(d) \in Topics /\ Text \in Payloads BY TopicsTyped, PayloadsTyped
      <4>3. ViewOf(handleMessageCh)' BY <1>1, <3>1, <3>2, <4>1, <4>2, ViewSent
      <4> QED BY <1>2, <3>1, <3>2, <4>3
    <3> QED BY <3>3, <3>4
  <2>4. ASSUME NEW dev \in Object, NEW ctl \in ControlDefs, OnNewControl(dev, ctl) PROVE ViewInv'
    <3>1. UNCHANGED <<phase, extSubs, topics>> BY <2>4 DEF OnNewControl, drvVars
    <3> QED BY <1>1, <1>2, <2>4, <3>1, ViewControl
  <2>5. ASSUME NEW dev \in Object, NEW c \in Controls, NEW v \in Values, OnValue(dev, c, v)
        PROVE  ViewInv'
    <3> DEFINE t == controlTopic(dev.name, c, "value")
               on == controlTopic(dev.name, c, "on")
    <3>1. UNCHANGED <<phase, extSubs, topics>> BY <2>5 DEF OnValue, drvVars, netVars
    <3>2. t \in ValueTopics /\ t \in Topics /\ on \in Topics /\ v \in Payloads
      BY TopicsTyped, PayloadsTyped DEF Object
    <3>3. retainMap[t] \in BOOLEAN BY <3>2 DEF TypeOK
    <3>4. \/ Sent(on, v, FALSE) /\ handleMessageCh' = handleMessageCh \o Deliver(on, v)
          \/ Sent(t, v, retainMap[t]) /\ handleMessageCh' = handleMessageCh \o Deliver(t, v)
      BY <2>5 DEF OnValue, publishOnValue, publishValue, publish
    <3> HIDE DEF t, on
    <3> QED BY <1>3, <3>1, <3>2, <3>3, <3>4
  <2>6. ASSUME NEW dev \in Object, NEW c \in Controls, OnError(dev, c) PROVE ViewInv'
    <3> DEFINE t == controlTopic(dev.name, c, "error")
    <3>1. UNCHANGED <<phase, extSubs, topics>> BY <2>6 DEF OnError, drvVars, netVars
    <3>2. t \in Topics /\ Text \in Payloads BY TopicsTyped, PayloadsTyped DEF Object, ControlKinds
    <3>3. Sent(t, Text, TRUE) /\ handleMessageCh' = handleMessageCh \o Deliver(t, Text)
      BY <2>6 DEF OnError, publishMeta, publish
    <3> HIDE DEF t
    <3> QED BY <1>3, <3>1, <3>2, <3>3
  <2> QED BY <1>9, <2>1, <2>2, <2>3, <2>4, <2>5, <2>6 DEF ModelNext
<1> QED BY <1>4, <1>5, <1>6, <1>7, <1>8, <1>9 DEF Next

(* The invariant holds initially and always.                               *)
LEMMA ViewAlways == Spec => []ViewInv
<1>1. Init => ViewInv
  <2> SUFFICES ASSUME Init PROVE ViewInv OBVIOUS
  <2>1. DOMAIN handleMessageCh = {} BY DEF Init
  <2>2. \A t \in ValueTopics : topics[t].received = Empty /\ latest[t] = retained[t]
    BY TopicsTyped DEF Init, NoTopic
  <2> QED BY <2>1, <2>2 DEF Init, ViewInv, ViewOf
<1>2. TypeOK /\ ViewInv /\ [Next]_vars => ViewInv' BY ViewStep
<1> QED BY <1>1, <1>2, TypeCorrect, PTL DEF Spec

(* The record of a value topic and the queue together give the last value  *)
(* the broker sent, whatever interleaving of definitions, values, echoes   *)
(* and client messages there was.                                          *)
THEOREM ViewFollowsBroker == Spec => []ViewTracksBroker
<1>1. TypeOK /\ ViewInv => ViewTracksBroker
  <2> SUFFICES ASSUME TypeOK, ViewInv, extSubs, NEW t \in ValueTopics PROVE View(t) = latest[t]
    BY DEF ViewTracksBroker
  <2>1. Ends(handleMessageCh, t, topics[t].received, latest[t]) BY DEF ViewInv, ViewOf
  <2>2. CASE topics[t].received = latest[t] /\ \A i \in DOMAIN handleMessageCh : handleMessageCh[i].topic # t
    BY <2>2 DEF View, Pending
  <2>3. ASSUME NEW i \in DOMAIN handleMessageCh, handleMessageCh[i].topic = t,
               handleMessageCh[i].payload = latest[t],
               \A j \in DOMAIN handleMessageCh : handleMessageCh[j].topic = t => j <= i
        PROVE  View(t) = latest[t]
    <3> DEFINE last == CHOOSE k \in Pending(t) : \A j \in Pending(t) : j <= k
    <3>1. i \in Pending(t) /\ \A j \in Pending(t) : j <= i BY <2>3 DEF Pending
    <3>2. last \in Pending(t) /\ \A j \in Pending(t) : j <= last BY <3>1
    <3>3. last <= i /\ i <= last BY <3>1, <3>2
    <3> HIDE DEF last
    <3>4. i \in Int /\ last \in Int
      <4>1. handleMessageCh \in Seq(Message) BY DEF TypeOK
      <4>2. DOMAIN handleMessageCh \subseteq Int BY <4>1
      <4> QED BY <3>1, <3>2, <4>2 DEF Pending
    <3>5. last = i BY <3>3, <3>4
    <3> QED BY <2>3, <3>1, <3>5 DEF View, last
  <2> QED BY <2>1, <2>2, <2>3 DEF Ends
<1> QED BY <1>1, TypeCorrect, ViewAlways, PTL

(* A new definition of a virtual device in a running driver publishes the  *)
(* value the broker has, if no message about it waits in the queue.        *)
THEOREM DefinitionKeepsValue == Spec => CaughtUpKeepsValue
<1> DEFINE Keeps == \A i \in DOMAIN objects, ctl \in ControlDefs :
             LET t == controlTopic(objects[i].name, ctl.name, "value")
             IN  Redefines(objects[i], ctl) /\ Pending(t) = {} /\ latest[t] # Empty
                   => retained'[t] = latest[t]
<1>1. TypeOK /\ ViewInv => [Keeps]_vars
  <2> SUFFICES ASSUME TypeOK, ViewInv, NEW i \in DOMAIN objects, NEW ctl \in ControlDefs,
                      Redefines(objects[i], ctl),
                      Pending(controlTopic(objects[i].name, ctl.name, "value")) = {},
                      latest[controlTopic(objects[i].name, ctl.name, "value")] # Empty
               PROVE  retained'[controlTopic(objects[i].name, ctl.name, "value")]
                        = latest[controlTopic(objects[i].name, ctl.name, "value")]
    OBVIOUS
  <2> DEFINE dev == objects[i]
             t == controlTopic(dev.name, ctl.name, "value")
             metas == {controlTopic(dev.name, ctl.name, k) : k \in MetaKinds(ctl)}
  <2>1. dev.name \in Devices /\ ctl.name \in Controls
    <3>1. dev \in Object BY DEF TypeOK
    <3> HIDE DEF dev
    <3> QED BY <3>1, DefsAssumption DEF Object, Control
  <2>2. t \in ValueTopics /\ t \in Topics /\ t.kind = "value" BY <2>1, TopicsTyped DEF controlTopic
  <2>3. extSubs /\ dev.kind = "virtual" /\ Retain(ctl) /\ active
    BY DEF Redefines, OnNewControl, ModelRuns, active
  <2>4. topics[t].received = latest[t]
    <3>1. Ends(handleMessageCh, t, topics[t].received, latest[t]) BY <2>2, <2>3 DEF ViewInv, ViewOf
    <3> QED BY <3>1 DEF Ends, Pending
  <2>5. topics[t].found BY <2>2, <2>4 DEF ViewInv
  <2>6. InitialValue(dev, ctl) = latest[t] BY <2>3, <2>4, <2>5 DEF InitialValue
  <2>7. retained' = [u \in Topics |->
                       IF u \notin metas \cup {t} THEN retained[u]
                       ELSE CASE u = t -> InitialValue(dev, ctl)
                              [] u.kind = "order" -> OrderOf(dev.name, ctl)
                              [] OTHER -> Text]
    BY <2>3 DEF Redefines, OnNewControl
  <2> HIDE DEF t, metas
  <2>8. retained'[t] = InitialValue(dev, ctl) BY <2>2, <2>7
  <2> QED BY <2>6, <2>8 DEF t
<1> QED BY <1>1, TypeCorrect, ViewAlways, PTL DEF CaughtUpKeepsValue
=============================================================================
