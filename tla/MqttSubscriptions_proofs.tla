---------------------- MODULE MqttSubscriptions_proofs ----------------------
(***************************************************************************)
(* For every set of subscribers, tasks and topic names: the types, that no *)
(* subscriber is lost between createSubscriber and onMqttConnected, and    *)
(* that a subscriber records the topics it is sent, those of the           *)
(* configuration at the connection.                                        *)
(***************************************************************************)
EXTENDS MqttSubscriptions, TLAPS

InSetup == {"check", "read", "subscribe", "store"}

(* What the local variables of a task hold at each of its steps. *)
LocalsOK ==
  /\ pc[MqttTask] # "push"
  /\ \A c \in Creators : pc[c] \notin {"connected", "loop", "data"}
  /\ \A t \in Tasks : pc[t] \in InSetup \union {"push"} => cur[t] \in Subscribers
  /\ \A t \in Tasks : pc[t] \notin {"read", "subscribe", "store"} => kind[t] = "device"
  /\ \A t \in Tasks : pc[t] \in InSetup /\ kind[t] = "group" => cur[t] \in GroupScoped
  /\ \A t \in Tasks : pc[t] = "subscribe" =>
        \E n \in Names : topic[t] = <<n, cur[t]>>

HasTopic(s, k) == \E n \in Names : <<k, <<n, s>>>> \in session

(* What task t has already subscribed for the subscriber it works on is held *)
(* by the session of the present connection.                                 *)
Progress(t) ==
  /\ kind[t] = "group" => HasTopic(cur[t], "device")
  /\ pc[t] = "store" => HasTopic(cur[t], kind[t])

(* s is subscribed, or some task will still subscribe what is missing. *)
Covered(s) ==
  \/ Subscribed(s)
  \/ pc[MqttTask] = "connected"
  \/ s \in todo
  \/ \E t \in Tasks : cur[t] = s /\ pc[t] \in InSetup /\ Progress(t)

LinkImpliesConnected == link => m_isConnected

EveryoneCovered == link => \A s \in m_subscribers : Covered(s)

(* The inductive invariant. *)
IInv == TypeOK /\ LocalsOK /\ LinkImpliesConnected /\ EveryoneCovered

(* The topic a task is about to subscribe is one of its subscriber's. *)
LEMMA SubscribedTopic ==
  ASSUME TypeOK, LocalsOK, NEW t \in Tasks, pc[t] = "subscribe"
  PROVE  /\ topic[t] \in Topics
         /\ \E n \in Names : topic[t] = <<n, cur[t]>>
<1>1. PICK n \in Names : topic[t] = <<n, cur[t]>>
  BY DEF LocalsOK
<1>2. kind[t] \in Kinds /\ cur[t] \in Subscribers
  BY DEF TypeOK, LocalsOK, InSetup
<1>3. QED BY <1>1, <1>2 DEF Topics

(* The step of setupOneSubscription a task takes, with its names unfolded. *)
LEMMA SetupTypes ==
  ASSUME TypeOK, LocalsOK, NEW t \in Tasks, SetupOneSubscription(t)
  PROVE  TypeOK' /\ LocalsOK'
<1> USE ConstantsAssumption DEF TypeOK, LocalsOK, Kinds, Tasks, InSetup, ram, stored, broker
<1>1. CASE SetupCheck(t)
  <2>1. TypeOK'
    BY <1>1 DEF SetupCheck, Goto, AfterSetup, ForgetLocals
  <2>2. LocalsOK'
    BY <1>1 DEF SetupCheck, Goto, AfterSetup, ForgetLocals
  <2>3. QED BY <2>1, <2>2
<1>2. CASE SetupRead(t)
  <2>1. <<config[kind[t]], cur[t]>> \in Topics
    BY <1>2 DEF SetupRead, Goto, Topics
  <2>2. TypeOK'
    BY <1>2, <2>1 DEF SetupRead, Goto
  <2>3. LocalsOK'
    BY <1>2 DEF SetupRead, Goto
  <2>4. QED BY <2>2, <2>3
<1>3. CASE SetupSubscribe(t)
  <2>1. topic[t] \in Topics
    BY <1>3, SubscribedTopic DEF SetupSubscribe, Goto
  <2>2. TypeOK'
    BY <1>3, <2>1 DEF SetupSubscribe, Goto
  <2>3. LocalsOK'
    BY <1>3 DEF SetupSubscribe, Goto
  <2>4. QED BY <2>2, <2>3
<1>4. CASE SetupStore(t)
  <2>1. TypeOK'
    BY <1>4 DEF SetupStore, Goto, AfterSetup, ForgetLocals
  <2>2. LocalsOK'
    BY <1>4 DEF SetupStore, Goto, AfterSetup, ForgetLocals
  <2>3. QED BY <2>1, <2>2
<1>5. QED BY <1>1, <1>2, <1>3, <1>4 DEF SetupOneSubscription

(* The setters of the topics are writes of a property. *)
LEMMA EnvironmentSteps ==
  ASSUME Environment
  PROVE  LinkBreaks \/ Restart \/ \E k \in Kinds, n \in Names : ChangeConfig(k, n)
BY DEF Environment, SetDeviceTopic, SetGroupTopic, Kinds

(* The types of every variable and local survive every step. *)
LEMMA NextTypes ==
  ASSUME TypeOK, LocalsOK, [Next]_vars
  PROVE  TypeOK' /\ LocalsOK'
<1> USE ConstantsAssumption DEF stored
<1>1. ASSUME NEW c \in Creators, NEW s \in Subscribers, CreateSubscriber(c, s)
      PROVE  TypeOK' /\ LocalsOK'
  BY <1>1 DEF CreateSubscriber, Goto, TypeOK, LocalsOK, Kinds, Tasks, InSetup, broker
<1>2. ASSUME NEW c \in Creators, PushBack(c)
      PROVE  TypeOK' /\ LocalsOK'
  <2>1. cur[c] \in Subscribers
    BY <1>2 DEF PushBack, Goto, LocalsOK, Tasks
  <2>2. TypeOK'
    BY <1>2, <2>1 DEF PushBack, Goto, TypeOK, Tasks, setup, broker
  <2>3. LocalsOK'
    BY <1>2 DEF PushBack, Goto, TypeOK, LocalsOK, Tasks, InSetup, setup
  <2>4. QED BY <2>2, <2>3
<1>3. ASSUME NEW t \in Tasks, SetupOneSubscription(t)
      PROVE  TypeOK' /\ LocalsOK'
  BY <1>3, SetupTypes
<1>4. CASE InitializeAndStartClient
  BY <1>4 DEF InitializeAndStartClient, TypeOK, LocalsOK, setup, broker
<1>5. CASE OnMqttConnected
  BY <1>5 DEF OnMqttConnected, Goto, TypeOK, LocalsOK, Tasks, InSetup, ram, setup
<1>6. CASE SetupAllSubscriptions
  BY <1>6 DEF SetupAllSubscriptions, Goto, TypeOK, LocalsOK, Tasks, InSetup, ram, broker
<1>7. CASE NextSubscriber
  BY <1>7 DEF NextSubscriber, Goto, TypeOK, LocalsOK, Tasks, InSetup, ram, broker
<1>8. CASE AllSubscribed
  BY <1>8 DEF AllSubscribed, Goto, TypeOK, LocalsOK, Tasks, InSetup, ram, setup, broker
<1>9. CASE OnMqttDisconnected
  BY <1>9 DEF OnMqttDisconnected, TypeOK, LocalsOK, ram, setup, broker
<1>10. CASE OnMqttData
  BY <1>10 DEF OnMqttData, Goto, TypeOK, LocalsOK, Tasks, InSetup, ram, broker
<1>11. CASE OnMqttDataRest
  BY <1>11 DEF OnMqttDataRest, TypeOK, LocalsOK, Tasks, InSetup, ram, broker
<1>12. CASE MessageDone
  BY <1>12 DEF MessageDone, Goto, TypeOK, LocalsOK, Tasks, InSetup, ram, broker
<1>13. CASE LinkBreaks
  BY <1>13 DEF LinkBreaks, TypeOK, LocalsOK, ram, setup
<1>14. ASSUME NEW k \in Kinds, NEW n \in Names, ChangeConfig(k, n)
       PROVE  TypeOK' /\ LocalsOK'
  BY <1>14 DEF ChangeConfig, TypeOK, LocalsOK, Kinds, ram, setup, broker
<1>15. CASE Restart
  BY <1>15 DEF Restart, TypeOK, LocalsOK, Kinds, Tasks, InSetup
<1>16. CASE UNCHANGED vars
  BY <1>16 DEF vars, TypeOK, LocalsOK, ram, setup, broker
<1>17. QED
  BY <1>1, <1>2, <1>3, <1>4, <1>5, <1>6, <1>7, <1>8, <1>9, <1>10, <1>11, <1>12, <1>13,
     <1>14, <1>15, <1>16, EnvironmentSteps DEF Next, Creator, Mqtt, Tasks

(* A step of setupOneSubscription keeps everyone covered: it only adds to    *)
(* the session, and the task that ends its work on s has subscribed all of s.*)
LEMMA SetupCovers ==
  ASSUME IInv, TypeOK', NEW t \in Tasks, SetupOneSubscription(t)
  PROVE  LinkImpliesConnected' /\ EveryoneCovered'
<1>1. link' = link /\ m_isConnected' = m_isConnected /\ m_subscribers' = m_subscribers
      /\ todo' = todo
  BY DEF SetupOneSubscription, SetupCheck, SetupRead, SetupSubscribe, SetupStore, ram, broker
<1>2. SUFFICES ASSUME link, NEW s \in m_subscribers
               PROVE  Covered(s)'
  BY <1>1 DEF IInv, LinkImpliesConnected, EveryoneCovered
<1>3. m_isConnected /\ Covered(s)
  BY <1>2 DEF IInv, LinkImpliesConnected, EveryoneCovered
<1>4. session \subseteq session'
  BY DEF SetupOneSubscription, SetupCheck, SetupRead, SetupSubscribe, SetupStore, broker
<1>5. \A u \in Tasks \ {t} : /\ pc'[u] = pc[u] /\ cur'[u] = cur[u] /\ kind'[u] = kind[u]
  BY DEF SetupOneSubscription, SetupCheck, SetupRead, SetupSubscribe, SetupStore,
         Goto, ForgetLocals, IInv, TypeOK
<1>6. \A x, k : HasTopic(x, k) => HasTopic(x, k)'
  BY <1>4 DEF HasTopic
<1>7. CASE Subscribed(s)
  BY <1>4, <1>7 DEF Subscribed, Covered
<1>8. CASE pc[MqttTask] = "connected"
  <2>1. t # MqttTask
    BY <1>8 DEF SetupOneSubscription, SetupCheck, SetupRead, SetupSubscribe, SetupStore, Goto
  <2>2. QED BY <2>1, <1>5, <1>8 DEF Tasks, Covered
<1>9. CASE s \in todo
  BY <1>1, <1>9 DEF Covered
<1>10. ASSUME NEW u \in Tasks, cur[u] = s, pc[u] \in InSetup, Progress(u)
       PROVE  Covered(s)'
  <2>1. CASE u # t
    BY <2>1, <1>5, <1>6, <1>10 DEF Progress, Covered
  <2>2. CASE u = t /\ SetupCheck(t)
    BY <2>2, <1>3, <1>6, <1>10 DEF SetupCheck, Goto, Progress, Covered, InSetup, IInv, TypeOK
  <2>3. CASE u = t /\ SetupRead(t)
    BY <2>3, <1>6, <1>10 DEF SetupRead, Goto, Progress, Covered, InSetup, IInv, TypeOK
  <2>4. CASE u = t /\ SetupSubscribe(t)
    <3>1. pc[t] = "subscribe" /\ session' = session \union {<<kind[t], topic[t]>>}
      BY <2>4, <1>2, <1>3 DEF SetupSubscribe, Goto
    <3>2. HasTopic(s, kind[t])'
      BY <3>1, <2>4, <1>10, SubscribedTopic DEF IInv, HasTopic, SetupSubscribe
    <3>3. QED
      BY <3>2, <2>4, <1>6, <1>10
      DEF SetupSubscribe, Goto, Progress, Covered, InSetup, IInv, TypeOK
  <2>5. CASE u = t /\ SetupStore(t)
    <3>1. pc[t] = "store" /\ session' = session
      BY <2>5 DEF SetupStore, Goto, broker
    <3>2. HasTopic(s, kind[t])
      BY <3>1, <2>5, <1>10 DEF Progress
    <3>3. CASE kind[t] = "device" /\ s \in GroupScoped
      BY <3>3, <3>2, <2>5, <1>6, <1>10
      DEF SetupStore, Goto, Progress, Covered, InSetup, IInv, TypeOK
    <3>4. CASE kind[t] = "device" /\ s \notin GroupScoped
      BY <3>1, <3>2, <3>4 DEF Subscribed, KindsOf, HasTopic, Covered
    <3>5. CASE kind[t] = "group"
      BY <3>1, <3>2, <3>5, <2>5, <1>10
      DEF Progress, Subscribed, KindsOf, Kinds, HasTopic, Covered
    <3>6. QED BY <3>3, <3>4, <3>5 DEF IInv, TypeOK, Kinds
  <2>6. QED BY <2>1, <2>2, <2>3, <2>4, <2>5 DEF SetupOneSubscription
<1>11. QED BY <1>3, <1>7, <1>8, <1>9, <1>10 DEF Covered

(* Every other step. *)
LEMMA NextCovers ==
  ASSUME IInv, TypeOK', [Next]_vars
  PROVE  LinkImpliesConnected' /\ EveryoneCovered'
<1> USE ConstantsAssumption
    DEF IInv, LinkImpliesConnected, EveryoneCovered, Covered, Subscribed, HasTopic, Progress
<1>1. ASSUME NEW c \in Creators, NEW s \in Subscribers, CreateSubscriber(c, s)
      PROVE  LinkImpliesConnected' /\ EveryoneCovered'
  <2>1. /\ UNCHANGED <<link, session, m_subscribers, m_isConnected, todo, kind>>
        /\ pc[c] = "idle" /\ pc' = [pc EXCEPT ![c] = "push"] /\ cur' = [cur EXCEPT ![c] = s]
    BY <1>1 DEF CreateSubscriber, Goto, broker
  <2>2. ASSUME link, NEW x \in m_subscribers
        PROVE  Covered(x)'
    BY <2>1, <2>2 DEF TypeOK, Tasks, InSetup
  <2>3. QED BY <2>1, <2>2
<1>2. ASSUME NEW c \in Creators, PushBack(c)
      PROVE  LinkImpliesConnected' /\ EveryoneCovered'
  <2>1. LinkImpliesConnected'
    BY <1>2 DEF PushBack, broker
  <2>2. ASSUME link, NEW s \in m_subscribers
        PROVE  Covered(s)'
    BY <1>2, <2>2 DEF PushBack, Goto, TypeOK, Tasks, InSetup, setup, broker
  <2>3. ASSUME link, NEW s, s = cur[c]
        PROVE  Covered(s)'
    <3>1. kind[c] = "device" /\ pc'[c] = "check" /\ cur' = cur /\ kind' = kind
      BY <1>2 DEF PushBack, Goto, TypeOK, LocalsOK, Tasks, setup
    <3>2. QED BY <2>3, <3>1 DEF Tasks, InSetup
  <2>4. link' = link /\ m_subscribers' \subseteq m_subscribers \union {cur[c]}
    BY <1>2 DEF PushBack, broker
  <2> HIDE DEF Covered, EveryoneCovered
  <2>5. EveryoneCovered'
    BY <2>2, <2>3, <2>4 DEF EveryoneCovered
  <2>6. QED BY <2>1, <2>5
<1>3. ASSUME NEW t \in Tasks, SetupOneSubscription(t)
      PROVE  LinkImpliesConnected' /\ EveryoneCovered'
  BY ONLY <1>3, IInv, TypeOK', SetupCovers
<1>4. CASE InitializeAndStartClient
  BY <1>4 DEF InitializeAndStartClient, setup, broker
<1>5. CASE OnMqttConnected
  BY <1>5 DEF OnMqttConnected, Goto, TypeOK, Tasks
<1>6. CASE SetupAllSubscriptions
  BY <1>6 DEF SetupAllSubscriptions, ram, broker
<1>7. CASE NextSubscriber
  <2>1. PICK x \in todo : /\ Goto(MqttTask, "loop", "check")
                          /\ cur' = [cur EXCEPT ![MqttTask] = x]
                          /\ todo' = todo \ {x}
    BY <1>7 DEF NextSubscriber
  <2>2. /\ kind[MqttTask] = "device" /\ kind' = kind /\ session' = session /\ link' = link
        /\ m_subscribers' = m_subscribers /\ m_isConnected' = m_isConnected
    BY <1>7, <2>1 DEF NextSubscriber, Goto, LocalsOK, Tasks, ram, broker
  <2>3. ASSUME link, NEW s \in m_subscribers
        PROVE  Covered(s)'
    <3>1. CASE s = x
      BY <3>1, <2>1, <2>2 DEF Goto, TypeOK, Tasks, InSetup
    <3>2. CASE s # x
      BY <3>2, <2>1, <2>2, <2>3 DEF Goto, TypeOK, Tasks, InSetup
    <3>3. QED BY <3>1, <3>2
  <2>4. QED BY <2>2, <2>3
<1>8. CASE AllSubscribed
  BY <1>8 DEF AllSubscribed, Goto, TypeOK, Tasks, InSetup, ram, setup, broker
<1>9. CASE OnMqttDisconnected
  BY <1>9 DEF OnMqttDisconnected, broker
<1>10. CASE OnMqttData
  BY <1>10 DEF OnMqttData, Goto, TypeOK, Tasks, InSetup, ram, broker
<1>11. CASE OnMqttDataRest
  BY <1>11 DEF OnMqttDataRest, ram, broker
<1>12. CASE MessageDone
  BY <1>12 DEF MessageDone, Goto, TypeOK, Tasks, InSetup, ram, broker
<1>13. CASE LinkBreaks
  BY <1>13 DEF LinkBreaks
<1>14. ASSUME NEW k \in Kinds, NEW n \in Names, ChangeConfig(k, n)
       PROVE  LinkImpliesConnected' /\ EveryoneCovered'
  BY <1>14 DEF ChangeConfig, ram, setup, broker
<1>15. CASE Restart
  BY <1>15 DEF Restart
<1>16. CASE UNCHANGED vars
  BY <1>16 DEF vars, ram, setup, broker
<1> HIDE DEF IInv, LinkImpliesConnected, EveryoneCovered, Covered, Subscribed, HasTopic, Progress
<1>17. CASE Environment
  BY <1>13, <1>14, <1>15, <1>17, EnvironmentSteps
<1>18. QED
  BY <1>1, <1>2, <1>3, <1>4, <1>5, <1>6, <1>7, <1>8, <1>9, <1>10, <1>11, <1>12, <1>16, <1>17
  DEF Next, Creator, Mqtt, Tasks

-----------------------------------------------------------------------------
(* The inductive invariant holds in every reachable state. *)
THEOREM Invariance == Spec => []IInv
<1>1. Init => IInv
  <2>1. ASSUME Init PROVE TypeOK
    <3>1. "device" \in Kinds
      BY DEF Kinds
    <3>2. config \in [Kinds -> Names]
      BY <2>1, ConstantsAssumption DEF Init, Kinds
    <3>3. m_topic \in [Kinds -> [Subscribers -> Topics \union {NoTopic}]]
      BY <2>1 DEF Init
    <3>4. /\ pc \in [Tasks -> {"idle"}] /\ cur \in [Tasks -> {None}]
          /\ kind \in [Tasks -> Kinds] /\ topic \in [Tasks -> {NoTopic}]
      BY <2>1, <3>1 DEF Init
    <3>5. QED BY <2>1, <3>2, <3>3, <3>4 DEF Init, TypeOK
  <2>2. Init => LocalsOK
    BY ConstantsAssumption DEF Init, LocalsOK, Tasks, InSetup
  <2>3. QED
    BY <2>1, <2>2 DEF Init, IInv, LinkImpliesConnected, EveryoneCovered
<1>2. IInv /\ [Next]_vars => IInv'
  BY NextTypes, NextCovers DEF IInv
<1>3. QED BY <1>1, <1>2, PTL DEF Spec

(* Every field of Mqttp and of its subscribers keeps its type. *)
THEOREM TypeCorrect == Spec => []TypeOK
<1>1. IInv => TypeOK
  BY DEF IInv
<1>2. QED BY <1>1, Invariance, PTL

(* createSubscriber and onMqttConnected together leave no subscriber of      *)
(* m_subscribers unsubscribed, for any number of tasks and subscribers.      *)
THEOREM NoSubscriberMissed == Spec => []SubscribedWhenSettled
<1>1. IInv => SubscribedWhenSettled
  BY DEF IInv, EveryoneCovered, Covered, SubscribedWhenSettled, Unsettled, InSetup
<1>2. QED BY <1>1, Invariance, PTL

-----------------------------------------------------------------------------
(* Task t is going to record a topic of kind k in s. *)
WillRecord(t, s, k) == cur[t] = s /\ pc[t] \in InSetup /\ (kind[t] = "device" \/ k = "group")

(* The topic of kind k that the present configuration gives s. *)
Current(s, k) == <<config[k], s>>

RecordedOrComing(s, k) ==
  \/ <<k, m_topic[k][s]>> \in session /\ (s \notin outdated => m_topic[k][s] = Current(s, k))
  \/ pc[MqttTask] = "connected"
  \/ s \in todo
  \/ \E t \in Tasks : WillRecord(t, s, k)

(* What task t is about to subscribe or record has the present names. *)
UpToDate(t) == cur[t] \notin outdated => topic[t] = Current(cur[t], kind[t])

AboutToSubscribe == \A t \in Tasks : pc[t] = "subscribe" => UpToDate(t)

(* A task that is about to record a topic has it from the present connection.*)
FromThisConnection ==
  link => \A t \in Tasks : pc[t] = "store" /\ cur[t] \notin overtaken =>
                              <<kind[t], topic[t]>> \in session /\ UpToDate(t)

EveryoneRecorded ==
  link => \A s \in m_subscribers \ overtaken : \A k \in KindsOf(s) : RecordedOrComing(s, k)

(* Nobody works on a subscriber that was never created. *)
Known ==
  /\ m_subscribers \union todo \subseteq created
  /\ \A t \in Tasks : pc[t] \in InSetup \union {"push"} => cur[t] \in created

RecordsInv == Known /\ AboutToSubscribe /\ FromThisConnection /\ EveryoneRecorded

LEMMA KnownStep ==
  ASSUME TypeOK, LocalsOK, Known, [Next]_vars
  PROVE  Known'
<1> USE ConstantsAssumption DEF TypeOK, LocalsOK, Known, Tasks, InSetup
<1>1. ASSUME NEW c \in Creators, NEW s \in Subscribers, CreateSubscriber(c, s)
      PROVE  Known'
  BY <1>1 DEF CreateSubscriber, Goto
<1>2. ASSUME NEW c \in Creators, PushBack(c)
      PROVE  Known'
  BY <1>2 DEF PushBack, Goto, setup
<1>3. ASSUME NEW t \in Tasks, SetupOneSubscription(t)
      PROVE  Known'
  <2>1. UNCHANGED <<m_subscribers, created, todo>> /\ pc[t] \in InSetup
    BY <1>3 DEF SetupOneSubscription, SetupCheck, SetupRead, SetupSubscribe, SetupStore, Goto, ram
  <2>2. ASSUME NEW u \in Tasks, pc'[u] \in InSetup \union {"push"}
        PROVE  pc[u] \in InSetup \union {"push"} /\ cur'[u] = cur[u]
    BY <1>3, <2>2
    DEF SetupOneSubscription, SetupCheck, SetupRead, SetupSubscribe, SetupStore, Goto, AfterSetup,
        ForgetLocals
  <2>3. QED BY <2>1, <2>2
<1>4. CASE InitializeAndStartClient \/ OnMqttDisconnected
  BY <1>4 DEF InitializeAndStartClient, OnMqttDisconnected, ram, setup
<1>5. CASE OnMqttConnected \/ SetupAllSubscriptions \/ AllSubscribed
  BY <1>5 DEF OnMqttConnected, SetupAllSubscriptions, AllSubscribed, Goto, ram, setup
<1>6. CASE NextSubscriber
  BY <1>6 DEF NextSubscriber, Goto, ram
<1>7. CASE OnMqttData \/ OnMqttDataRest \/ MessageDone
  BY <1>7 DEF OnMqttData, OnMqttDataRest, MessageDone, Goto, ram
<1>8. CASE Environment
  <2>1. CASE LinkBreaks \/ \E k \in Kinds, n \in Names : ChangeConfig(k, n)
    BY <2>1 DEF LinkBreaks, ChangeConfig, ram, setup
  <2>2. CASE Restart
    BY <2>2 DEF Restart
  <2>3. QED BY <1>8, <2>1, <2>2, EnvironmentSteps
<1>9. CASE UNCHANGED vars
  BY <1>9 DEF vars, ram, setup
<1> HIDE DEF TypeOK, LocalsOK, Known
<1>10. QED
  BY <1>1, <1>2, <1>3, <1>4, <1>5, <1>6, <1>7, <1>8, <1>9 DEF Next, Creator, Mqtt

(* A step of setupOneSubscription moves one kind of one subscriber on. *)
LEMMA SetupRecords ==
  ASSUME IInv, RecordsInv, NEW t \in Tasks, SetupOneSubscription(t)
  PROVE  AboutToSubscribe' /\ FromThisConnection' /\ EveryoneRecorded'
<1> USE DEF IInv
<1>1. /\ UNCHANGED <<link, overtaken, m_subscribers, todo, config, outdated>>
      /\ session \subseteq session'
  BY DEF SetupOneSubscription, SetupCheck, SetupRead, SetupSubscribe, SetupStore, ram, stored, broker
<1>2. \A u \in Tasks \ {t} :
        pc'[u] = pc[u] /\ cur'[u] = cur[u] /\ kind'[u] = kind[u] /\ topic'[u] = topic[u]
  BY DEF SetupOneSubscription, SetupCheck, SetupRead, SetupSubscribe, SetupStore,
         Goto, ForgetLocals, TypeOK
<1>3. \A u \in Tasks \ {t} : UpToDate(u) => UpToDate(u)'
  BY <1>1, <1>2 DEF UpToDate, Current
<1>4. pc[t] \in InSetup
  BY DEF SetupOneSubscription, SetupCheck, SetupRead, SetupSubscribe, SetupStore, Goto, InSetup
<1>5. pc[MqttTask] = "connected" => pc'[MqttTask] = "connected"
  BY <1>2, <1>4 DEF Tasks, InSetup
<1>6. pc'[t] = "subscribe" => UpToDate(t)'
  BY <1>1
  DEF SetupOneSubscription, SetupCheck, SetupRead, SetupSubscribe, SetupStore, Goto, AfterSetup,
      UpToDate, Current, TypeOK
<1>7. AboutToSubscribe'
  BY <1>2, <1>3, <1>6 DEF RecordsInv, AboutToSubscribe
<1>8. SUFFICES ASSUME link
               PROVE  /\ \A u \in Tasks : pc'[u] = "store" /\ cur'[u] \notin overtaken =>
                           <<kind'[u], topic'[u]>> \in session' /\ UpToDate(u)'
                      /\ \A s \in m_subscribers \ overtaken : \A k \in KindsOf(s) :
                           RecordedOrComing(s, k)'
  BY <1>1, <1>7 DEF FromThisConnection, EveryoneRecorded, KindsOf
<1>9. /\ m_isConnected
      /\ \A u \in Tasks : pc[u] = "store" /\ cur[u] \notin overtaken =>
           <<kind[u], topic[u]>> \in session /\ UpToDate(u)
      /\ \A s \in m_subscribers \ overtaken : \A k \in KindsOf(s) : RecordedOrComing(s, k)
  BY <1>8 DEF LinkImpliesConnected, RecordsInv, FromThisConnection, EveryoneRecorded
<1>10. \A u \in Tasks \ {t} : pc'[u] = "store" /\ cur'[u] \notin overtaken =>
         <<kind'[u], topic'[u]>> \in session' /\ UpToDate(u)'
  BY <1>1, <1>2, <1>3, <1>9
<1>11. CASE SetupCheck(t) \/ SetupRead(t) \/ SetupSubscribe(t)
  <2>1. /\ m_topic' = m_topic /\ cur'[t] = cur[t] /\ kind'[t] = kind[t] /\ pc'[t] \in InSetup
        /\ pc'[t] = "store" => /\ pc[t] = "subscribe" /\ topic'[t] = topic[t]
                               /\ <<kind'[t], topic'[t]>> \in session'
  PROOF
    <3>1. CASE SetupCheck(t)
      <4>1. m_isConnected
        BY <1>9
      <4>2. QED BY <3>1, <4>1 DEF SetupCheck, Goto, InSetup, TypeOK, ram
    <3>2. CASE SetupRead(t)
      BY <3>2 DEF SetupRead, Goto, InSetup, TypeOK, ram
    <3>3. CASE SetupSubscribe(t)
      BY <1>8, <1>9, <3>3 DEF SetupSubscribe, Goto, InSetup, TypeOK, ram
    <3>4. QED BY <1>11, <3>1, <3>2, <3>3
  <2>2. pc'[t] = "store" => UpToDate(t)'
    BY <1>1, <2>1 DEF RecordsInv, AboutToSubscribe, UpToDate, Current
  <2>3. ASSUME NEW s, NEW k, RecordedOrComing(s, k) PROVE RecordedOrComing(s, k)'
    <3>1. ASSUME NEW u \in Tasks, WillRecord(u, s, k) PROVE WillRecord(u, s, k)'
      BY <1>2, <2>1, <3>1 DEF WillRecord
    <3>2. QED BY <1>1, <1>5, <2>1, <2>3, <3>1 DEF RecordedOrComing, Current
  <2>4. QED BY <1>9, <1>10, <2>1, <2>2, <2>3
<1>12. CASE SetupStore(t)
  <2>1. /\ pc[t] = "store" /\ kind[t] \in Kinds /\ cur[t] \in Subscribers
        /\ m_topic' = [m_topic EXCEPT ![kind[t]][cur[t]] = topic[t]]
    BY <1>12 DEF SetupStore, Goto, TypeOK, LocalsOK, InSetup
  <2>2. pc'[t] # "store"
    BY <1>12 DEF SetupStore, Goto, AfterSetup, TypeOK
  <2>3. ASSUME NEW s \in m_subscribers \ overtaken, NEW k \in KindsOf(s)
        PROVE  RecordedOrComing(s, k)'
    <3>0. s \in Subscribers /\ k \in Kinds
      BY DEF TypeOK, KindsOf, Kinds
    <3>1. CASE s = cur[t] /\ k = kind[t]
      <4>1. m_topic'[k][s] = topic[t]
        BY <2>1, <3>1 DEF TypeOK
      <4>2. <<k, topic[t]>> \in session' /\ (s \notin outdated => topic[t] = Current(s, k))
        BY <1>1, <1>9, <2>1, <3>1 DEF UpToDate
      <4>3. QED BY <1>1, <4>1, <4>2 DEF RecordedOrComing, Current
    <3>2. CASE ~(s = cur[t] /\ k = kind[t])
      <4>1. m_topic'[k][s] = m_topic[k][s]
        BY <2>1, <3>0, <3>2 DEF TypeOK
      <4>2. ASSUME WillRecord(t, s, k) PROVE WillRecord(t, s, k)'
        <5>1. s = cur[t] /\ kind[t] = "device" /\ k = "group"
          BY <2>1, <3>0, <3>2, <4>2 DEF WillRecord, Kinds
        <5>2. s \in GroupScoped
          BY <5>1 DEF KindsOf
        <5>3. pc'[t] = "read" /\ cur'[t] = s
          BY <1>12, <5>1, <5>2 DEF SetupStore, Goto, TypeOK
        <5>4. QED BY <5>1, <5>3 DEF WillRecord, InSetup
      <4>3. ASSUME NEW u \in Tasks, WillRecord(u, s, k) PROVE WillRecord(u, s, k)'
        BY <1>2, <4>2, <4>3 DEF WillRecord
      <4>4. QED BY <1>1, <1>5, <1>9, <4>1, <4>3 DEF RecordedOrComing, Current
    <3>3. QED BY <3>1, <3>2
  <2>4. QED BY <1>10, <2>2, <2>3
<1>13. QED BY <1>11, <1>12 DEF SetupOneSubscription

(* Steps that leave the connection, the configuration and what is recorded   *)
(* alone: they only have to keep the tasks that will record something.       *)
LEMMA QuietRecords ==
  ASSUME RecordsInv,
         UNCHANGED <<link, session, overtaken, m_topic, m_subscribers, config, outdated>>,
         \A t \in Tasks : pc[t] \in InSetup =>
            pc'[t] = pc[t] /\ cur'[t] = cur[t] /\ kind'[t] = kind[t],
         \A t \in Tasks : pc'[t] \in {"subscribe", "store"} =>
            pc[t] = pc'[t] /\ topic'[t] = topic[t],
         pc[MqttTask] = "connected" => pc'[MqttTask] = "connected",
         todo \subseteq todo'
  PROVE  AboutToSubscribe' /\ FromThisConnection' /\ EveryoneRecorded'
<1>1. ASSUME NEW s, NEW k, RecordedOrComing(s, k) PROVE RecordedOrComing(s, k)'
  <2>1. ASSUME NEW t \in Tasks, WillRecord(t, s, k) PROVE WillRecord(t, s, k)'
    BY <2>1 DEF WillRecord
  <2>2. QED BY <1>1, <2>1 DEF RecordedOrComing, Current
<1>2. EveryoneRecorded'
  BY <1>1 DEF RecordsInv, EveryoneRecorded, KindsOf
<1>3. ASSUME NEW t \in Tasks, pc'[t] \in {"subscribe", "store"}
      PROVE  pc[t] = pc'[t] /\ UNCHANGED <<topic[t], cur[t], kind[t]>> /\ UpToDate(t)' = UpToDate(t)
  <2>1. pc[t] = pc'[t] /\ topic'[t] = topic[t]
    BY <1>3
  <2>2. cur'[t] = cur[t] /\ kind'[t] = kind[t]
    BY <1>3, <2>1 DEF InSetup
  <2>3. QED BY <2>1, <2>2 DEF UpToDate, Current
<1>4. AboutToSubscribe' /\ FromThisConnection'
  BY <1>3 DEF RecordsInv, AboutToSubscribe, FromThisConnection
<1>5. QED BY <1>2, <1>4

(* A change of a topic property makes every subscriber there is outdated. *)
LEMMA ChangeRecords ==
  ASSUME IInv, RecordsInv, NEW k \in Kinds, NEW n \in Names, ChangeConfig(k, n)
  PROVE  AboutToSubscribe' /\ FromThisConnection' /\ EveryoneRecorded'
<1>1. UNCHANGED <<link, session, overtaken, m_topic, m_subscribers, created, pc, cur, kind, topic, todo>>
  BY DEF ChangeConfig, ram, setup, broker
<1>2. CASE n = config[k]
  <2>1. config' = config /\ outdated' = outdated
    BY <1>2 DEF ChangeConfig, IInv, TypeOK
  <2>2. QED BY <1>1, <2>1, QuietRecords
<1>3. CASE n # config[k]
  <2>1. outdated' = created
    BY <1>3 DEF ChangeConfig
  <2>2. ASSUME NEW t \in Tasks, pc[t] \in {"subscribe", "store"} PROVE UpToDate(t)'
    BY <1>1, <2>1, <2>2 DEF RecordsInv, Known, InSetup, UpToDate
  <2>3. ASSUME NEW s \in m_subscribers, NEW j, RecordedOrComing(s, j)
        PROVE  RecordedOrComing(s, j)'
    BY <1>1, <2>1, <2>3 DEF RecordsInv, Known, RecordedOrComing, WillRecord
  <2>4. EveryoneRecorded'
    BY <1>1, <2>3 DEF RecordsInv, EveryoneRecorded, KindsOf
  <2>5. QED BY <1>1, <2>2, <2>4 DEF RecordsInv, AboutToSubscribe, FromThisConnection
<1>4. QED BY <1>2, <1>3

(* Every step. *)
LEMMA NextRecords ==
  ASSUME IInv, RecordsInv, [Next]_vars
  PROVE  AboutToSubscribe' /\ FromThisConnection' /\ EveryoneRecorded'
<1> USE ConstantsAssumption DEF IInv
<1>1. ASSUME NEW c \in Creators, NEW s \in Subscribers, CreateSubscriber(c, s)
      PROVE  AboutToSubscribe' /\ FromThisConnection' /\ EveryoneRecorded'
  BY <1>1, QuietRecords DEF CreateSubscriber, Goto, TypeOK, Tasks, InSetup, stored, broker
<1>2. ASSUME NEW c \in Creators, PushBack(c)
      PROVE  AboutToSubscribe' /\ FromThisConnection' /\ EveryoneRecorded'
  <2>1. /\ pc[c] = "push" /\ kind[c] = "device" /\ pc' = [pc EXCEPT ![c] = "check"]
        /\ UNCHANGED <<link, session, overtaken, m_topic, setup, config, outdated>>
        /\ m_subscribers' \subseteq m_subscribers \union {cur[c]}
    BY <1>2 DEF PushBack, Goto, LocalsOK, Tasks, stored, broker
  <2>2. FromThisConnection' /\ AboutToSubscribe'
    BY <2>1
    DEF RecordsInv, AboutToSubscribe, FromThisConnection, UpToDate, Current, TypeOK, Tasks, setup
  <2>3. ASSUME NEW s, NEW k, RecordedOrComing(s, k) PROVE RecordedOrComing(s, k)'
    BY <2>1, <2>3 DEF RecordedOrComing, Current, WillRecord, InSetup, TypeOK, Tasks, setup
  <2>4. ASSUME NEW s, s = cur[c], NEW k PROVE RecordedOrComing(s, k)'
    BY <2>1, <2>4 DEF RecordedOrComing, WillRecord, InSetup, TypeOK, Tasks, setup
  <2>5. ASSUME link', NEW s \in m_subscribers' \ overtaken', NEW k \in KindsOf(s)
        PROVE  RecordedOrComing(s, k)'
    <3>1. CASE s \in m_subscribers
      BY <2>1, <2>3, <2>5, <3>1 DEF RecordsInv, EveryoneRecorded
    <3>2. CASE s = cur[c]
      BY <2>4, <3>2
    <3>3. QED BY <2>1, <3>1, <3>2
  <2>6. EveryoneRecorded'
    BY <2>5 DEF EveryoneRecorded, KindsOf
  <2>7. QED BY <2>2, <2>6
<1>3. ASSUME NEW t \in Tasks, SetupOneSubscription(t)
      PROVE  AboutToSubscribe' /\ FromThisConnection' /\ EveryoneRecorded'
  BY <1>3, SetupRecords
<1>4. CASE InitializeAndStartClient \/ OnMqttDisconnected
  BY <1>4, QuietRecords
  DEF InitializeAndStartClient, OnMqttDisconnected, ram, setup, stored, broker
<1>5. CASE OnMqttConnected
  <2>1. /\ pc' = [pc EXCEPT ![MqttTask] = "connected"] /\ pc[MqttTask] = "idle"
        /\ UNCHANGED <<cur, kind, topic, config>>
        /\ overtaken' = {cur[c] : c \in {d \in Creators : pc[d] = "store"}}
        /\ outdated' = outdated \intersect
                         {cur[c] : c \in {d \in Creators : pc[d] \in {"subscribe", "store"}}}
    BY <1>5 DEF OnMqttConnected, Goto, setup
  <2>2. EveryoneRecorded'
    BY <2>1 DEF EveryoneRecorded, RecordedOrComing, TypeOK, Tasks
  <2>3. ASSUME NEW t \in Tasks, pc'[t] = "store" PROVE cur'[t] \in overtaken'
    BY <2>1, <2>3 DEF TypeOK, Tasks
  <2>4. ASSUME NEW t \in Tasks, pc'[t] = "subscribe" PROVE UpToDate(t)'
    <3>1. t \in Creators /\ pc[t] = "subscribe"
      BY <2>1, <2>4 DEF TypeOK, Tasks
    <3>2. UpToDate(t) /\ (cur[t] \in outdated => cur[t] \in outdated')
      BY <2>1, <3>1 DEF RecordsInv, AboutToSubscribe, Tasks
    <3>3. QED BY <2>1, <3>2 DEF UpToDate, Current
  <2>5. QED BY <2>2, <2>3, <2>4 DEF FromThisConnection, AboutToSubscribe
<1>6. CASE SetupAllSubscriptions
  <2>1. /\ todo' = m_subscribers
        /\ UNCHANGED <<link, session, overtaken, m_subscribers, cur, kind, topic, config, outdated>>
        /\ pc' = [pc EXCEPT ![MqttTask] = "loop"]
    BY <1>6 DEF SetupAllSubscriptions, Goto, ram, stored, broker
  <2>2. EveryoneRecorded'
    BY <2>1 DEF EveryoneRecorded, RecordedOrComing
  <2>3. FromThisConnection' /\ AboutToSubscribe'
    BY <2>1
    DEF RecordsInv, FromThisConnection, AboutToSubscribe, UpToDate, Current, TypeOK, Tasks
  <2>4. QED BY <2>2, <2>3
<1>7. CASE NextSubscriber
  <2>1. PICK x \in todo : /\ Goto(MqttTask, "loop", "check")
                          /\ cur' = [cur EXCEPT ![MqttTask] = x]
                          /\ todo' = todo \ {x}
    BY <1>7 DEF NextSubscriber
  <2>2. /\ kind[MqttTask] = "device" /\ UNCHANGED <<kind, topic, session, link, overtaken>>
        /\ UNCHANGED <<m_subscribers, m_topic, config, outdated>>
    BY <1>7, <2>1 DEF NextSubscriber, Goto, LocalsOK, Tasks, ram, stored, broker
  <2>3. ASSUME NEW s, NEW k, RecordedOrComing(s, k) PROVE RecordedOrComing(s, k)'
    <3>1. CASE s = x
      BY <2>1, <2>2, <3>1 DEF RecordedOrComing, WillRecord, Goto, TypeOK, Tasks, InSetup
    <3>2. CASE s # x
      BY <2>1, <2>2, <2>3, <3>2
      DEF RecordedOrComing, Current, WillRecord, Goto, TypeOK, Tasks, InSetup
    <3>3. QED BY <3>1, <3>2
  <2>4. EveryoneRecorded'
    BY <2>2, <2>3 DEF RecordsInv, EveryoneRecorded, KindsOf
  <2>5. FromThisConnection' /\ AboutToSubscribe'
    BY <2>1, <2>2
    DEF RecordsInv, FromThisConnection, AboutToSubscribe, UpToDate, Current, Goto, TypeOK, Tasks
  <2>6. QED BY <2>4, <2>5
<1>8. CASE AllSubscribed
  BY <1>8, QuietRecords
  DEF AllSubscribed, Goto, TypeOK, Tasks, InSetup, ram, setup, stored, broker
<1>9. CASE OnMqttData \/ OnMqttDataRest \/ MessageDone
  BY <1>9, QuietRecords
  DEF OnMqttData, OnMqttDataRest, MessageDone, Goto, TypeOK, Tasks, InSetup, ram, stored, broker
<1>10. CASE Environment
  <2>1. CASE LinkBreaks
    BY <2>1
    DEF LinkBreaks, RecordsInv, AboutToSubscribe, UpToDate, Current, FromThisConnection,
        EveryoneRecorded, stored, setup
  <2>2. CASE Restart
    BY <2>2 DEF Restart, AboutToSubscribe, FromThisConnection, EveryoneRecorded
  <2>3. QED BY <1>10, <2>1, <2>2, ChangeRecords, EnvironmentSteps
<1>11. CASE UNCHANGED vars
  BY <1>11, QuietRecords DEF vars, ram, setup, stored, broker
<1> HIDE DEF IInv
<1>12. CASE \E c \in Creators : Creator(c)
  BY <1>1, <1>2, <1>3, <1>12, Zenon DEF Creator, Tasks
<1>13. CASE Mqtt
  <2>1. MqttTask \in Tasks
    BY DEF Tasks
  <2>2. QED BY <1>3, <1>4, <1>5, <1>6, <1>7, <1>8, <1>9, <1>13, <2>1, Zenon DEF Mqtt
<1>14. QED BY <1>4, <1>10, <1>11, <1>12, <1>13, Zenon DEF Next

LEMMA RecordsInvariance == Spec => []RecordsInv
<1>1. Init => RecordsInv
  BY DEF Init, RecordsInv, Known, AboutToSubscribe, FromThisConnection, EveryoneRecorded, InSetup
<1>2. IInv /\ RecordsInv /\ [Next]_vars => RecordsInv'
  BY NextRecords, KnownStep DEF RecordsInv, IInv
<1>3. QED BY <1>1, <1>2, Invariance, PTL DEF Spec

(* The topics recorded in a subscriber are those the broker sends it, unless *)
(* a reconnection overtook the task that created it: nothing else makes      *)
(* onMqttData drop a command.                                                *)
THEOREM TopicsRecorded == Spec => []RecordedIsSubscribed
<1>1. RecordsInv => RecordedIsSubscribed
  BY DEF RecordsInv, EveryoneRecorded, RecordedOrComing, WillRecord, RecordedIsSubscribed,
         Unsettled, InSetup
<1>2. QED BY <1>1, RecordsInvariance, PTL

(* A connection brings every subscriber to the topics of the configuration,  *)
(* whatever was changed, subscribed or lost before it.                       *)
THEOREM CurrentTopics == Spec => []CurrentTopicServed
<1>1. RecordsInv => CurrentTopicServed
  <2> SUFFICES ASSUME RecordsInv, NEW s \in m_subscribers \ (overtaken \union outdated),
                      m_isConnected, link, ~Unsettled(s), NEW k \in KindsOf(s)
               PROVE  /\ <<k, <<config[k], s>>>> \in session
                      /\ IsMatchForTopic(s, <<config[k], s>>)
    BY DEF CurrentTopicServed
  <2>1. RecordedOrComing(s, k)
    BY DEF RecordsInv, EveryoneRecorded
  <2>2. <<k, m_topic[k][s]>> \in session /\ m_topic[k][s] = <<config[k], s>>
    BY <2>1 DEF RecordedOrComing, WillRecord, Unsettled, InSetup, Current
  <2>3. k \in Kinds
    BY DEF KindsOf, Kinds
  <2>4. QED BY <2>2, <2>3 DEF IsMatchForTopic
<1>2. QED BY <1>1, RecordsInvariance, PTL
=============================================================================
