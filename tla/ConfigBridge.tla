---------------------------- MODULE ConfigBridge ----------------------------
(***************************************************************************)
(* Config properties, the default event loop of ESP-IDF and MQTT.          *)
(* Application tasks create and write properties and post events that the  *)
(* event loop's task hands to config/MqttBridge.cpp, which subscribes and  *)
(* publishes through mqtt/Mqttp.cpp; the MQTT task writes properties when  *)
(* a command arrives.                                                      *)
(*                                                                         *)
(* Three things block.  A post waits while the queue is full (the posts    *)
(* wait portMAX_DELAY).  Subscribe and publish wait for the API lock of    *)
(* esp-mqtt.  The MQTT task holds that lock while it runs a handler:       *)
(* pc[MqttTask] = "idle" is "the API lock is free".                        *)
(*                                                                         *)
(* How subscriptions reach the broker is the subject of MqttSubscriptions; *)
(* here a subscriber of the bridge is subscribed whenever it is connected. *)
(***************************************************************************)
EXTENDS Integers, Sequences

CONSTANTS
  Properties,
  IntProperties,  \* those of TYPE_INT, the others are of TYPE_STRING
  Visibility,     \* Visibility[p]: what the application sets: Hidden, Device or Group
  ReadOnly,       \* properties the application sets to Accessibility::ReadOnly
  Values,
  Writers,        \* the tasks that create and write properties (application, HTTP)
  Loop,           \* the event loop's task
  MqttTask,       \* the task of esp-mqtt
  QueueSize,      \* length of the event queue (CONFIG_ESP_SYSTEM_EVENT_QUEUE_SIZE)
  None

ASSUME BridgeAssumption ==
  /\ IntProperties \subseteq Properties /\ ReadOnly \subseteq Properties
  /\ Visibility \in [Properties -> {"Hidden", "Device", "Group"}]
  /\ Values \subseteq Int
  /\ Loop \notin Writers /\ MqttTask \notin Writers /\ Loop # MqttTask
  /\ QueueSize \in Nat \ {0}
  /\ None \notin Properties /\ None \notin Int

Tasks == Writers \union {Loop, MqttTask}
Events == {"REGISTERED", "CHANGED"} \X Properties

VARIABLES
  m_properties,  \* created properties
  configured,    \* those whose default, visibility and accessibility are set
  typed,         \* those whose m_type is known
  stored,        \* stored[p]: the value in NVS
  queue,         \* the events waiting for the event loop's task
  pc, cur,       \* where each task is and the property it works on
  value,         \* the value handleChanged has read
  m_isConnected,
  scope,         \* scope[p]: the scope of p's subscriber, or "none"
  published,     \* published[p]: the last value of state/config/p
  fresh          \* history: properties whose last CHANGED event was published

declared == <<m_properties, configured, typed>>
tasks == <<pc, cur, value>>
mqtt == <<m_isConnected, scope>>
output == <<published, fresh>>
vars == <<declared, stored, queue, tasks, mqtt, output>>

Init ==
  /\ m_properties = {} /\ configured = {} /\ typed = {}
  /\ stored \in [Properties -> Values]
  /\ queue = <<>>
  /\ pc = [t \in Tasks |-> "idle"] /\ cur = [t \in Tasks |-> None] /\ value = None
  /\ m_isConnected = FALSE /\ scope = [p \in Properties |-> "none"]
  /\ published = [p \in Properties |-> None] /\ fresh = {}

getVisibility(p) == IF p \in configured THEN Visibility[p] ELSE "Group"
isVisibilityHidden(p) == getVisibility(p) = "Hidden"
isAccessibilityReadOnly(p) == p \in configured \intersect ReadOnly

Goto(t, from, to) == pc[t] = from /\ pc' = [pc EXCEPT ![t] = to]
Begin(t, p, to) == Goto(t, "idle", to) /\ cur' = [cur EXCEPT ![t] = p]
End(t, from) == Goto(t, from, "idle") /\ cur' = [cur EXCEPT ![t] = None]

(* esp_event_post with portMAX_DELAY: waits while the queue is full *)
esp_event_post(event) == Len(queue) < QueueSize /\ queue' = Append(queue, event)

ApiLockFree == pc[MqttTask] = "idle"

-----------------------------------------------------------------------------
(* Tasks that create and write properties *)

CreateProperty(w, p) ==
  /\ p \notin m_properties
  /\ m_properties' = m_properties \union {p}
  /\ Begin(w, p, "register")
  /\ UNCHANGED <<configured, typed, stored, queue, value, mqtt, output>>

PostRegistered(w) ==
  /\ Goto(w, "register", "configure")
  /\ esp_event_post(<<"REGISTERED", cur[w]>>)
  /\ UNCHANGED <<declared, stored, cur, value, mqtt, output>>

(* The application chains setDefaultValue, setVisibility and setAccessibility *)
(* to property(...).                                                          *)
Configure(w) ==
  /\ End(w, "configure")
  /\ configured' = configured \union {cur[w]}
  /\ typed' = typed \union {cur[w]}
  /\ UNCHANGED <<m_properties, stored, queue, value, mqtt, output>>

(* Mutant: the value of a command is not announced, its sender knows it.      *)
setValueWithoutEcho(t, p, v) ==
  /\ IF t = MqttTask THEN pc[t] = "idle" /\ UNCHANGED <<pc, cur>> ELSE Begin(t, p, "changed")
  /\ typed' = typed \union {p}
  /\ stored' \in {stored, [stored EXCEPT ![p] = v]}

(* ConfigProperty::setValue up to emitChangeEvent; the manager may fail to    *)
(* store the value, which setValue does not look at.                          *)
setValue(t, p, v) ==
  /\ Begin(t, p, "changed")
  /\ typed' = typed \union {p}
  /\ stored' \in {stored, [stored EXCEPT ![p] = v]}

SetValue(w, p, v) ==
  /\ p \in m_properties
  /\ setValue(w, p, v)
  /\ UNCHANGED <<m_properties, configured, queue, value, mqtt, output>>

(* Mutant: no event while the event loop works on an event of the property.   *)
PostChangedCoalesced(t) ==
  /\ End(t, "changed")
  /\ IF cur[Loop] = cur[t] THEN UNCHANGED queue
                           ELSE esp_event_post(<<"CHANGED", cur[t]>>)
  /\ UNCHANGED <<declared, stored, value, mqtt, output>>

(* emitChangeEvent *)
PostChanged(t) ==
  /\ End(t, "changed")
  /\ esp_event_post(<<"CHANGED", cur[t]>>)
  /\ UNCHANGED <<declared, stored, value, mqtt, output>>

-----------------------------------------------------------------------------
(* MqttBridge on the event loop's task *)

Dispatch(event) ==
  /\ queue # <<>> /\ Head(queue) = event
  /\ queue' = Tail(queue)

(* Mutant: the visibility, not the scope, is handed to createSubscriber.      *)
HandleRegisteredNoFilter(p) ==
  /\ Dispatch(<<"REGISTERED", p>>)
  /\ scope' = [scope EXCEPT ![p] = getVisibility(p)]
  /\ IF m_isConnected THEN Begin(Loop, p, "subscribe")
                      ELSE pc[Loop] = "idle" /\ UNCHANGED <<pc, cur>>
  /\ UNCHANGED <<declared, stored, value, m_isConnected, output>>

(* handleRegistered: createSubscriber, whose subscribe call needs the lock    *)
HandleRegistered(p) ==
  /\ Dispatch(<<"REGISTERED", p>>)
  /\ pc[Loop] = "idle"
  /\ IF isVisibilityHidden(p) \/ isAccessibilityReadOnly(p)
       THEN UNCHANGED <<scope, pc, cur>>
       ELSE /\ scope' = [scope EXCEPT ![p] = IF getVisibility(p) = "Group"
                                               THEN "ScopeGroup" ELSE "ScopeDevice"]
            /\ IF m_isConnected THEN Begin(Loop, p, "subscribe") ELSE UNCHANGED <<pc, cur>>
  /\ UNCHANGED <<declared, stored, value, m_isConnected, output>>

Subscribe ==
  /\ ApiLockFree
  /\ End(Loop, "subscribe")
  /\ UNCHANGED <<declared, stored, queue, value, mqtt, output>>

(* publishValue has no overload for int: the value is converted to uint8_t.   *)
publishValue(p, v) == IF p \in IntProperties THEN v % 256 ELSE v

(* Mutant: handleChanged waits for the broker instead of giving up.           *)
HandleChangedWaits(p) ==
  /\ Dispatch(<<"CHANGED", p>>)
  /\ IF isVisibilityHidden(p)
       THEN /\ pc[Loop] = "idle"
            /\ fresh' = fresh \ {p} /\ UNCHANGED <<pc, cur, value>>
       ELSE /\ m_isConnected
            /\ Begin(Loop, p, "publish")
            /\ value' = publishValue(p, stored[p]) /\ UNCHANGED fresh
  /\ UNCHANGED <<declared, stored, mqtt, published>>

(* Mutant: without a connection the event is put off to later.                *)
HandleChangedRequeues(p) ==
  /\ queue # <<>> /\ Head(queue) = <<"CHANGED", p>>
  /\ pc[Loop] = "idle"
  /\ IF isVisibilityHidden(p) \/ ~m_isConnected
       THEN /\ queue' = Append(Tail(queue), <<"CHANGED", p>>)
            /\ UNCHANGED <<fresh, pc, cur, value>>
       ELSE /\ queue' = Tail(queue)
            /\ Begin(Loop, p, "publish")
            /\ value' = publishValue(p, stored[p])
            /\ UNCHANGED fresh
  /\ UNCHANGED <<declared, stored, mqtt, published>>

(* handleChanged: reads the value and, when connected, calls publish          *)
HandleChanged(p) ==
  /\ Dispatch(<<"CHANGED", p>>)
  /\ pc[Loop] = "idle"
  /\ IF isVisibilityHidden(p) \/ ~m_isConnected
       THEN fresh' = fresh \ {p} /\ UNCHANGED <<pc, cur, value>>
       ELSE /\ Begin(Loop, p, "publish")
            /\ value' = publishValue(p, stored[p])
            /\ UNCHANGED fresh
  /\ UNCHANGED <<declared, stored, mqtt, published>>

(* esp_mqtt_client_publish with QoS 0 and not retained; the message is lost   *)
(* when the connection is gone.                                               *)
Publish ==
  /\ ApiLockFree
  /\ End(Loop, "publish")
  /\ value' = None
  /\ \/ /\ m_isConnected
        /\ published' = [published EXCEPT ![cur[Loop]] = value]
        /\ fresh' = fresh \union {cur[Loop]}
     \/ fresh' = fresh \ {cur[Loop]} /\ UNCHANGED published
  /\ UNCHANGED <<declared, stored, queue, mqtt>>

-----------------------------------------------------------------------------
(* The MQTT task *)

(* onMqttData runs the callback that handleRegistered installed; while the    *)
(* type is unknown the callback only warns.                                   *)
Command(p, v) ==
  /\ m_isConnected /\ scope[p] # "none"
  /\ ~(pc[Loop] = "subscribe" /\ cur[Loop] = p)
  /\ p \in typed
  /\ setValue(MqttTask, p, v)
  /\ UNCHANGED <<m_properties, configured, queue, value, mqtt, output>>

ConnectionChanges ==
  /\ pc[MqttTask] = "idle"
  /\ m_isConnected' = ~m_isConnected
  /\ UNCHANGED <<declared, stored, queue, tasks, scope, output>>

-----------------------------------------------------------------------------
(* Reset or panic, also the one of std::stoi on a payload that is no number   *)
Restart ==
  /\ m_properties' = {} /\ configured' = {} /\ typed' = {}
  /\ queue' = <<>>
  /\ pc' = [t \in Tasks |-> "idle"] /\ cur' = [t \in Tasks |-> None] /\ value' = None
  /\ m_isConnected' = FALSE /\ scope' = [p \in Properties |-> "none"]
  /\ fresh' = {}
  /\ UNCHANGED <<stored, published>>

Writer(w) ==
  \/ \E p \in Properties : CreateProperty(w, p)
  \/ PostRegistered(w) \/ Configure(w)
  \/ \E p \in Properties, v \in Values : SetValue(w, p, v)
  \/ PostChanged(w)

EventLoop ==
  \/ \E p \in Properties : HandleRegistered(p) \/ HandleChanged(p)
  \/ Subscribe \/ Publish

Mqtt ==
  \/ \E p \in Properties, v \in Values : Command(p, v)
  \/ PostChanged(MqttTask)
  \/ ConnectionChanges

Next == (\E w \in Writers : Writer(w)) \/ EventLoop \/ Mqtt \/ Restart

Spec == Init /\ [][Next]_vars

(* Ready tasks run.  A queue slot and the API lock go to the task that waits  *)
(* longest, so waiting for them is strongly fair.  Nothing forces a task to   *)
(* create or write a property, a command to arrive or the broker to answer.   *)
Fairness ==
  /\ \A t \in Writers \union {MqttTask} : SF_vars(PostRegistered(t)) /\ SF_vars(PostChanged(t))
  /\ \A w \in Writers : WF_vars(Configure(w))
  /\ WF_vars(\E p \in Properties : HandleRegistered(p) \/ HandleChanged(p))
  /\ SF_vars(Subscribe) /\ SF_vars(Publish)

FairSpec == Spec /\ Fairness

-----------------------------------------------------------------------------
(* Type invariant: the queue is bounded and every task is at a known place. *)
TypeOK ==
  /\ m_properties \subseteq Properties
  /\ configured \subseteq m_properties /\ typed \subseteq m_properties
  /\ stored \in [Properties -> Values]
  /\ queue \in Seq(Events) /\ Len(queue) <= QueueSize
  /\ pc \in [Tasks -> {"idle", "register", "configure", "changed", "subscribe", "publish"}]
  /\ cur \in [Tasks -> Properties \union {None}]
  /\ value \in Int \union {None}
  /\ m_isConnected \in BOOLEAN
  /\ scope \in [Properties -> {"none", "ScopeDevice", "ScopeGroup"}]
  /\ published \in [Properties -> Int \union {None}]
  /\ fresh \subseteq Properties

(* A write of p waits for its event to be posted or handled. *)
Waiting(p) ==
  \/ \E t \in Writers \union {MqttTask} : cur[t] = p /\ pc[t] = "changed"
  \/ \E i \in 1..Len(queue) : queue[i] = <<"CHANGED", p>>

Mirror == INSTANCE ConfigMirror WITH
  Items <- Properties,
  source <- [p \in Properties |-> publishValue(p, stored[p])],
  copy <- published,
  owed <- {p \in Properties : Waiting(p)},
  taken <- IF pc[Loop] = "publish" THEN <<cur[Loop], value>> ELSE <<>>,
  followed <- fresh

(* README, Config: what is published of the properties is a mirror of what is *)
(* stored (as far as publishValue can represent it): handleChanged publishes  *)
(* for a write only, and the value it finds then; no write is forgotten       *)
(* however the tasks' events interleave.                                      *)
ImplementsConfigMirror == Mirror!MirrorSpec

(* No write of p is waiting for its event to be posted or handled. *)
Settled(p) ==
  /\ \A t \in Tasks : cur[t] = p => pc[t] \notin {"changed", "publish"}
  /\ \A i \in 1..Len(queue) : queue[i] # <<"CHANGED", p>>

(* README, Config: properties can be read via MQTT.  However the writes of    *)
(* several tasks and the handling of their events interleave, once no event   *)
(* of p is under way its last published value is the stored one (as far as    *)
(* publishValue can represent it).                                            *)
PublishedFollowsStored ==
  \A p \in fresh : Settled(p) => published[p] = publishValue(p, stored[p])

(* The MQTT task holds the API lock and waits for a queue slot, the event     *)
(* loop's task, which alone frees one, waits for the API lock.                *)
LockCycle ==
  /\ pc[MqttTask] = "changed" /\ Len(queue) = QueueSize
  /\ pc[Loop] \in {"subscribe", "publish"}

(* The event loop's task has something to do and nothing to wait for. *)
LoopReady == IF pc[Loop] = "idle" THEN queue # <<>> ELSE ApiLockFree

Backlog == 2 * Len(queue) + (IF pc[Loop] = "idle" THEN 0 ELSE 1)

(* ConfigProperty.cpp:143 waits for room without a limit.  While a post waits *)
(* the event loop can go on, unless the cycle has closed; and each of its     *)
(* steps shrinks the backlog: no handler of MqttBridge makes work for the     *)
(* task it runs on.                                                           *)
LoopServesPosts ==
  /\ [](Len(queue) = QueueSize => LoopReady \/ LockCycle)
  /\ [][EventLoop => Backlog' \in 0..(Backlog - 1)]_vars

(* Every post is done in the end, unless the cycle of the API lock and the    *)
(* event queue has closed: nothing else blocks a task for ever.               *)
OnlyTheLockCycleBlocks ==
  \A t \in Writers \union {MqttTask} :
    pc[t] \in {"register", "changed"} ~> pc[t] \notin {"register", "changed"} \/ LockCycle

(* README, Config: properties can be written via MQTT; the write of a command *)
(* comes to an end.                                                           *)
CommandsComplete == pc[MqttTask] = "changed" ~> pc[MqttTask] = "idle"

(* README, Property Visibility and Accessibility, MQTT: hidden and read-only  *)
(* properties are not subscribed.                                             *)
TableRespected ==
  \A p \in configured : Visibility[p] = "Hidden" \/ p \in ReadOnly => scope[p] = "none"
=============================================================================
