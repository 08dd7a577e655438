------------------------- MODULE MqttSubscriptions -------------------------
(***************************************************************************)
(* The subscription side of mqtt/Mqttp.cpp: createSubscriber, called by    *)
(* application tasks, against the connect, disconnect and data handlers    *)
(* that esp-mqtt runs on its own task.  The fields m_subscribers,          *)
(* m_isConnected and the topics recorded in each MqttSubscriber are shared *)
(* without a lock.                                                         *)
(*                                                                         *)
(* esp-mqtt holds its (recursive) API lock while it runs a handler and     *)
(* esp_mqtt_client_subscribe takes the same lock, so a creator's subscribe *)
(* call waits until the MQTT task is between handlers: pc[MqttTask] =      *)
(* "idle" is "the API lock is free".  The library's own connection state   *)
(* changes under that lock together with m_isConnected, which therefore    *)
(* stands for both wherever the lock is held.                              *)
(*                                                                         *)
(* A topic string name/cmd/suffix is the pair <<name, subscriber>>; the    *)
(* broker's session also notes as which kind it was subscribed.            *)
(***************************************************************************)

CONSTANTS
  Subscribers,   \* the subscribers an application may create, one per topic suffix
  GroupScoped,   \* those whose scope contains ScopeGroup
  Creators,      \* the tasks that call createSubscriber
  EventLoop,     \* the creator that also runs the IP event handlers
  MqttTask,      \* the task of esp-mqtt
  Names,         \* values of the properties mqtt_tpc_device and mqtt_tpc_group
  Settings,      \* bound on what the two properties hold together
  NoTopic,       \* the empty string
  None           \* no subscriber

ASSUME ConstantsAssumption ==
  /\ GroupScoped \subseteq Subscribers
  /\ EventLoop \in Creators
  /\ MqttTask \notin Creators
  /\ None \notin Subscribers
  /\ Settings \subseteq [{"device", "group"} -> Names]

Kinds == {"device", "group"}

Topics == Names \X Subscribers

ASSUME NoTopicAssumption == NoTopic \notin Topics

Tasks == Creators \union {MqttTask}

VARIABLES
  m_client,        \* "null", "stopped" (start failed) or "running"
  m_isConnected,
  m_subscribers,   \* the vector, as the set of its elements
  m_topic,         \* m_topic[k][s]: m_deviceTopic or m_groupTopic of s
  config,          \* the stored device and group topic properties
  link,            \* the TCP connection carries the broker session
  session,         \* kinds and topics the broker holds for the current session
  overtaken,       \* history: subscribers whose creator had yet to record what the last
                   \* connection told it when this one came (none while link is down)
  outdated,        \* history: subscribers that existed when a topic property changed and
                   \* have not been set up anew by a connection since
  created,         \* subscribers that createSubscriber was called for
  pc,              \* where each task is
  cur,             \* subscriber a task is working on
  kind,            \* which of its topics
  topic,           \* the local variable deviceTopic or groupTopic
  todo             \* subscribers setupAllSubscriptions has yet to visit

ram  == <<m_client, m_subscribers, m_topic, created>>
setup == <<cur, kind, topic, todo>>
stored == <<config, outdated>>
broker == <<link, session, overtaken>>
vars == <<ram, m_isConnected, stored, broker, pc, setup>>

(* Mqttp::Mqttp, the fields' initialisers and an empty broker session *)
Init ==
  /\ m_client = "null"
  /\ m_isConnected = FALSE
  /\ m_subscribers = {}
  /\ m_topic = [k \in Kinds |-> [s \in Subscribers |-> NoTopic]]
  /\ config \in Settings
  /\ link = FALSE
  /\ session = {}
  /\ overtaken = {}
  /\ outdated = {}
  /\ created = {}
  /\ pc = [t \in Tasks |-> "idle"]
  /\ cur = [t \in Tasks |-> None]
  /\ kind = [t \in Tasks |-> "device"]
  /\ topic = [t \in Tasks |-> NoTopic]
  /\ todo = {}

Goto(t, from, to) == pc[t] = from /\ pc' = [pc EXCEPT ![t] = to]

(* What a task does after a subscription: a creator returns to its caller, *)
(* the MQTT task takes the next subscriber of its loop.                    *)
AfterSetup(t) == IF t = MqttTask THEN "loop" ELSE "idle"

ForgetLocals(t) ==
  /\ cur' = [cur EXCEPT ![t] = None]
  /\ kind' = [kind EXCEPT ![t] = "device"]
  /\ topic' = [topic EXCEPT ![t] = NoTopic]

-----------------------------------------------------------------------------
(* createSubscriber, on a creator's task *)

(* new MqttSubscriber, by the caller of createSubscriber *)
CreateSubscriber(c, s) ==
  /\ s \notin created
  /\ Goto(c, "idle", "push")
  /\ created' = created \union {s}
  /\ cur' = [cur EXCEPT ![c] = s]
  /\ UNCHANGED <<m_client, m_subscribers, m_topic, m_isConnected, stored, broker,
                 kind, topic, todo>>

(* m_subscribers.push_back.  Two creators inside push_back at the same time  *)
(* race: both write the same slot and one of the two entries is lost.        *)
PushBack(c) ==
  /\ Goto(c, "push", "check")
  /\ \/ m_subscribers' = m_subscribers \union {cur[c]}
     \/ /\ \E d \in Creators \ {c} : pc[d] = "push"
        /\ UNCHANGED m_subscribers
  /\ UNCHANGED <<m_client, m_topic, created, m_isConnected, stored, broker, setup>>

-----------------------------------------------------------------------------
(* setupOneSubscription, on a creator's task or inside onMqttConnected *)

(* Mutant: createSubscriber without its "if (isConnected())". *)
SetupCheckNeverLate(t) ==
  /\ pc[t] = "check"
  /\ IF t = MqttTask
       THEN /\ Goto(t, "check", "read")
            /\ UNCHANGED <<cur, kind, topic>>
       ELSE /\ Goto(t, "check", AfterSetup(t))
            /\ ForgetLocals(t)
  /\ UNCHANGED <<ram, m_isConnected, stored, broker, todo>>

(* The connection test of createSubscriber and, when it succeeds, the one of *)
(* setupOneSubscription: the first that fails, or the second, decides.       *)
SetupCheck(t) ==
  /\ pc[t] = "check"
  /\ IF m_isConnected
       THEN /\ Goto(t, "check", "read")
            /\ UNCHANGED <<cur, kind, topic>>
       ELSE /\ Goto(t, "check", AfterSetup(t))
            /\ ForgetLocals(t)
  /\ UNCHANGED <<ram, m_isConnected, stored, broker, todo>>

(* Mutant: "/cmd/" and the subscriber's own topic are not appended. *)
SetupReadNameOnly(t) ==
  /\ Goto(t, "read", "subscribe")
  /\ topic' = [topic EXCEPT ![t] = config[kind[t]]]
  /\ UNCHANGED <<ram, m_isConnected, stored, broker, cur, kind, todo>>

(* Mutant: a recorded topic is subscribed again, and not built anew. *)
SetupReadReuses(t) ==
  /\ Goto(t, "read", "subscribe")
  /\ topic' = [topic EXCEPT ![t] = IF m_topic[kind[t]][cur[t]] = NoTopic
                                    THEN <<config[kind[t]], cur[t]>>
                                    ELSE m_topic[kind[t]][cur[t]]]
  /\ UNCHANGED <<ram, m_isConnected, stored, broker, cur, kind, todo>>

(* getDeviceTopic() or getGroupTopic(), and the topic built from it *)
SetupRead(t) ==
  /\ Goto(t, "read", "subscribe")
  /\ topic' = [topic EXCEPT ![t] = <<config[kind[t]], cur[t]>>]
  /\ UNCHANGED <<ram, m_isConnected, stored, broker, cur, kind, todo>>

(* esp_mqtt_client_subscribe: fails when esp-mqtt is not connected, and may  *)
(* fail or go unnoticed when the link broke but esp-mqtt does not know yet.  *)
SetupSubscribe(t) ==
  /\ t # MqttTask => pc[MqttTask] = "idle"
  /\ Goto(t, "subscribe", "store")
  /\ \/ /\ m_isConnected
        /\ session' = IF link THEN session \union {<<kind[t], topic[t]>>} ELSE session
        /\ UNCHANGED topic
     \/ /\ ~(m_isConnected /\ link)
        /\ topic' = [topic EXCEPT ![t] = NoTopic]
        /\ UNCHANGED session
  /\ UNCHANGED <<ram, m_isConnected, stored, link, overtaken, cur, kind, todo>>

(* Mutant: setDeviceTopic is called for the group topic as well. *)
SetupStoreDeviceOnly(t) ==
  /\ pc[t] = "store"
  /\ m_topic' = [m_topic EXCEPT !["device"][cur[t]] = topic[t]]
  /\ IF kind[t] = "device" /\ cur[t] \in GroupScoped
       THEN /\ Goto(t, "store", "read")
            /\ kind' = [kind EXCEPT ![t] = "group"]
            /\ topic' = [topic EXCEPT ![t] = NoTopic]
            /\ UNCHANGED cur
       ELSE /\ Goto(t, "store", AfterSetup(t))
            /\ ForgetLocals(t)
  /\ UNCHANGED <<m_client, m_subscribers, created, m_isConnected, stored, broker,
                 todo>>

(* setDeviceTopic or setGroupTopic of the subscriber; a scope with the group *)
(* bit continues with the group topic.                                       *)
SetupStore(t) ==
  /\ pc[t] = "store"
  /\ m_topic' = [m_topic EXCEPT ![kind[t]][cur[t]] = topic[t]]
  /\ IF kind[t] = "device" /\ cur[t] \in GroupScoped
       THEN /\ Goto(t, "store", "read")
            /\ kind' = [kind EXCEPT ![t] = "group"]
            /\ topic' = [topic EXCEPT ![t] = NoTopic]
            /\ UNCHANGED cur
       ELSE /\ Goto(t, "store", AfterSetup(t))
            /\ ForgetLocals(t)
  /\ UNCHANGED <<m_client, m_subscribers, created, m_isConnected, stored, broker,
                 todo>>

SetupOneSubscription(t) ==
  SetupCheck(t) \/ SetupRead(t) \/ SetupSubscribe(t) \/ SetupStore(t)

-----------------------------------------------------------------------------
(* The handlers of esp-mqtt's task *)

(* on_got_ip: initializeAndStartClient, which does nothing when m_client is  *)
(* set.  esp_mqtt_client_init may leave it null, for the next address to try *)
(* again; a failing esp_mqtt_client_start is logged and leaves it set.       *)
InitializeAndStartClient ==
  /\ pc[EventLoop] = "idle"
  /\ m_client = "null"
  /\ m_client' \in {"null", "stopped", "running"}
  /\ UNCHANGED <<m_subscribers, m_topic, created, m_isConnected, stored, broker,
                 pc, setup>>

(* esp-mqtt connects, with a clean session, and runs onMqttConnected up to   *)
(* and including the post of MQTT_CONNECTED.                                 *)
OnMqttConnected ==
  /\ m_client = "running" /\ ~m_isConnected
  /\ Goto(MqttTask, "idle", "connected")
  /\ m_isConnected' = TRUE
  /\ link' = TRUE
  /\ session' = {}
  /\ overtaken' = {cur[c] : c \in {d \in Creators : pc[d] = "store"}}
  /\ outdated' = outdated \intersect
                   {cur[c] : c \in {d \in Creators : pc[d] \in {"subscribe", "store"}}}
  /\ UNCHANGED <<ram, config, setup>>

(* Mutant: the loop runs over the subscribers with a recorded topic only. *)
SetupAllSubscriptionsOnlyKnown ==
  /\ Goto(MqttTask, "connected", "loop")
  /\ todo' = {s \in m_subscribers : m_topic["device"][s] # NoTopic}
  /\ UNCHANGED <<ram, m_isConnected, stored, broker, cur, kind, topic>>

(* setupAllSubscriptions: the range-for evaluates begin() and end() once, a  *)
(* subscriber pushed later is not visited.  The order of the vector is not   *)
(* kept: any order is a behaviour of the model.                              *)
SetupAllSubscriptions ==
  /\ Goto(MqttTask, "connected", "loop")
  /\ todo' = m_subscribers
  /\ UNCHANGED <<ram, m_isConnected, stored, broker, cur, kind, topic>>

NextSubscriber ==
  /\ \E s \in todo :
       /\ Goto(MqttTask, "loop", "check")
       /\ cur' = [cur EXCEPT ![MqttTask] = s]
       /\ todo' = todo \ {s}
  /\ UNCHANGED <<ram, m_isConnected, stored, broker, kind, topic>>

AllSubscribed ==
  /\ todo = {}
  /\ Goto(MqttTask, "loop", "idle")
  /\ UNCHANGED <<ram, m_isConnected, stored, broker, setup>>

(* esp-mqtt notices the broken link and runs onMqttDisconnected *)
OnMqttDisconnected ==
  /\ pc[MqttTask] = "idle"
  /\ m_isConnected /\ ~link
  /\ m_isConnected' = FALSE
  /\ UNCHANGED <<ram, stored, broker, pc, setup>>

IsMatchForTopic(s, t) == \E k \in Kinds : m_topic[k][s] = t

(* onMqttData for the first (or only) DATA event of a message: the callbacks *)
(* of the subscribers whose IsMatchForTopic holds of topic run, under the    *)
(* API lock.                                                                 *)
OnMqttData ==
  /\ link /\ m_isConnected
  /\ Goto(MqttTask, "idle", "data")
  /\ \E subscription \in session : topic' = [topic EXCEPT ![MqttTask] = subscription[2]]
  /\ UNCHANGED <<ram, m_isConnected, stored, broker, cur, kind, todo>>

(* onMqttData for the rest of a message longer than esp-mqtt's buffer: these *)
(* DATA events carry no topic (topic_len is 0).                              *)
OnMqttDataRest ==
  /\ pc[MqttTask] = "data"
  /\ topic' = [topic EXCEPT ![MqttTask] = NoTopic]
  /\ UNCHANGED <<ram, m_isConnected, stored, broker, pc, cur, kind, todo>>

MessageDone ==
  /\ Goto(MqttTask, "data", "idle")
  /\ topic' = [topic EXCEPT ![MqttTask] = NoTopic]
  /\ UNCHANGED <<ram, m_isConnected, stored, broker, cur, kind, todo>>

-----------------------------------------------------------------------------
(* The environment *)

(* The TCP connection breaks or the broker drops the session. *)
LinkBreaks ==
  /\ link
  /\ link' = FALSE
  /\ session' = {}
  /\ overtaken' = {}
  /\ UNCHANGED <<ram, m_isConnected, stored, pc, setup>>

(* The property mqtt_tpc_device or mqtt_tpc_group is written, over HTTP, MQTT *)
(* or by the application.                                                    *)
ChangeConfig(k, n) ==
  /\ config' = [config EXCEPT ![k] = n]
  /\ config' \in Settings
  /\ outdated' = IF n = config[k] THEN outdated ELSE created
  /\ UNCHANGED <<ram, m_isConnected, broker, pc, setup>>

(* Mqttp::setDeviceTopic and setGroupTopic: each writes the other's property. *)
SetDeviceTopic(n) == ChangeConfig("group", n)
SetGroupTopic(n) == ChangeConfig("device", n)

(* Reset, power loss or panic (also the outcome of iterating a vector whose  *)
(* buffer another task has just reallocated): all but the properties is lost.*)
Restart ==
  /\ m_client' = "null"
  /\ m_isConnected' = FALSE
  /\ m_subscribers' = {}
  /\ m_topic' = [k \in Kinds |-> [s \in Subscribers |-> NoTopic]]
  /\ link' = FALSE
  /\ session' = {}
  /\ overtaken' = {}
  /\ outdated' = {}
  /\ created' = {}
  /\ pc' = [t \in Tasks |-> "idle"]
  /\ cur' = [t \in Tasks |-> None]
  /\ kind' = [t \in Tasks |-> "device"]
  /\ topic' = [t \in Tasks |-> NoTopic]
  /\ todo' = {}
  /\ UNCHANGED config

-----------------------------------------------------------------------------
Creator(c) ==
  \/ \E s \in Subscribers : CreateSubscriber(c, s)
  \/ PushBack(c)
  \/ SetupOneSubscription(c)

Mqtt ==
  \/ OnMqttConnected
  \/ SetupAllSubscriptions
  \/ NextSubscriber
  \/ SetupOneSubscription(MqttTask)
  \/ AllSubscribed
  \/ OnMqttDisconnected
  \/ OnMqttData
  \/ OnMqttDataRest
  \/ MessageDone

Environment ==
  \/ LinkBreaks
  \/ \E k \in Kinds, n \in Names : ChangeConfig(k, n)
  \/ \E n \in Names : SetDeviceTopic(n) \/ SetGroupTopic(n)
  \/ Restart

Next ==
  \/ \E c \in Creators : Creator(c)
  \/ InitializeAndStartClient
  \/ Mqtt
  \/ Environment

Spec == Init /\ [][Next]_vars

(* A started call runs to its end and the scheduler runs every ready task.   *)
(* The MQTT task releases the API lock while it polls its socket, so a       *)
(* creator that waits for the lock gets it: strong fairness.  esp-mqtt       *)
(* reconnects on its own and notices a dead link by keep-alive.  Nothing     *)
(* makes the application create a subscriber, the broker send a message, the *)
(* link break or the device restart.                                         *)
Fairness ==
  /\ \A c \in Creators : SF_vars(PushBack(c) \/ SetupOneSubscription(c))
  /\ WF_vars(InitializeAndStartClient)
  /\ WF_vars(OnMqttConnected)
  /\ WF_vars(SetupAllSubscriptions \/ NextSubscriber \/ AllSubscribed
             \/ SetupOneSubscription(MqttTask) \/ MessageDone)
  /\ WF_vars(OnMqttDisconnected)

FairSpec == Spec /\ Fairness

-----------------------------------------------------------------------------
(* Type invariant: every field holds a value its declaration allows. *)
TypeOK ==
  /\ m_client \in {"null", "stopped", "running"}
  /\ m_isConnected \in BOOLEAN
  /\ m_subscribers \subseteq Subscribers
  /\ m_topic \in [Kinds -> [Subscribers -> Topics \union {NoTopic}]]
  /\ config \in [Kinds -> Names]
  /\ link \in BOOLEAN
  /\ session \subseteq Kinds \X Topics
  /\ overtaken \subseteq Subscribers
  /\ outdated \subseteq Subscribers
  /\ created \subseteq Subscribers
  /\ pc \in [Tasks -> {"idle", "push", "check", "read", "subscribe", "store",
                       "connected", "loop", "data"}]
  /\ cur \in [Tasks -> Subscribers \union {None}]
  /\ kind \in [Tasks -> Kinds]
  /\ topic \in [Tasks -> Topics \union {NoTopic}]
  /\ todo \subseteq Subscribers

(* A task is between the push of s and the end of its setupOneSubscription, *)
(* or the MQTT task is about to visit s.                                     *)
Unsettled(s) ==
  \/ \E t \in Tasks : cur[t] = s /\ pc[t] \in {"check", "read", "subscribe", "store"}
  \/ pc[MqttTask] = "connected"
  \/ s \in todo

(* The kinds of topic the scope of s asks for. *)
KindsOf(s) == IF s \in GroupScoped THEN Kinds ELSE {"device"}

Subscribed(s) ==
  \A k \in KindsOf(s) : \E n \in Names : <<k, <<n, s>>>> \in session

(* No subscriber falls between the two sides: while the connection lasts, a  *)
(* subscriber in m_subscribers that no task is working on is subscribed at   *)
(* the broker for every topic of its scope, whatever the order in which      *)
(* createSubscriber and onMqttConnected ran.                                 *)
SubscribedWhenSettled ==
  \A s \in m_subscribers :
    m_isConnected /\ link /\ ~Unsettled(s) => Subscribed(s)

(* isMatchForTopic compares with the recorded topics.  Mqttp.cpp:252-269:     *)
(* what is recorded in a subscriber that no task is working on is what the    *)
(* broker sends it, for every topic of its scope, whichever of the tasks that *)
(* set it up came last, unless its creator was overtaken by a reconnection.   *)
RecordedIsSubscribed ==
  \A s \in m_subscribers \ overtaken :
    m_isConnected /\ link /\ ~Unsettled(s) => 
      \A k \in KindsOf(s) : <<k, m_topic[k][s]>> \in session

(* Mqttp.cpp:240-272: a changed device or group topic takes effect with the  *)
(* next connection.  From then on a settled subscriber is subscribed under   *)
(* the topics of the stored configuration and onMqttData finds it by them,   *)
(* for every topic of its scope.  Exempted are subscribers older than the    *)
(* last change that no connection has set up since, and those whose creator  *)
(* held a topic built before the change when the connection came, or was     *)
(* overtaken by it.                                                          *)
CurrentTopicServed ==
  \A s \in m_subscribers \ (overtaken \union outdated) :
    m_isConnected /\ link /\ ~Unsettled(s) =>
      \A k \in KindsOf(s) :
        <<k, <<config[k], s>>>> \in session /\ IsMatchForTopic(s, <<config[k], s>>)

(* README, Config: properties can be written via MQTT. When every task is    *)
(* done and the connection stands, a message on the subscribed device topic  *)
(* of a subscriber is handed to its callback.                                *)
CommandsReachCallback ==
  (\A t \in Tasks : pc[t] = "idle") /\ m_isConnected /\ link =>
    \A s \in m_subscribers :
      <<"device", <<config["device"], s>>>> \in session =>
        IsMatchForTopic(s, <<config["device"], s>>)

(* When the link stays up from some point on, every subscriber ends up       *)
(* subscribed for good, however often the link broke before.                 *)
EventuallySubscribed ==
  <>[]link => <>[](\A s \in m_subscribers : Subscribed(s))
=============================================================================
