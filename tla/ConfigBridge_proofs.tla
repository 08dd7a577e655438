------------------------- MODULE ConfigBridge_proofs ------------------------
(***************************************************************************)
(* For every set of properties, writers and values and every length of the *)
(* event queue: the state keeps its types, and what is published follows   *)
(* what is stored.                                                         *)
(***************************************************************************)
EXTENDS ConfigBridge, SequenceTheorems, TLAPS

(* Where each kind of task can be, and that a busy one works on a property. *)
Places ==
  /\ \A w \in Writers : pc[w] \in {"idle", "register", "configure", "changed"}
  /\ pc[MqttTask] \in {"idle", "changed"}
  /\ pc[Loop] \in {"idle", "subscribe", "publish"}
  /\ \A t \in Tasks : pc[t] # "idle" => cur[t] \in m_properties
  /\ \A i \in 1..Len(queue) : queue[i][2] \in m_properties
  /\ pc[Loop] = "publish" => value \in Int

(* The value the event loop is about to publish is the stored one, or an     *)
(* event of a later write is on its way.                                     *)
ValueCurrent ==
  pc[Loop] = "publish" /\ ~Waiting(cur[Loop]) =>
    value = publishValue(cur[Loop], stored[cur[Loop]])

(* PublishedFollowsStored, with the write of p and its event told apart from *)
(* the event loop's work on p.                                               *)
Follows ==
  \A p \in fresh :
    ~Waiting(p) /\ ~(pc[Loop] = "publish" /\ cur[Loop] = p) =>
      published[p] = publishValue(p, stored[p])

IInv == TypeOK /\ Places /\ ValueCurrent /\ Follows

-----------------------------------------------------------------------------
(* publishValue of an int is a remainder, so a number again. *)
LEMMA PublishValueInt ==
  ASSUME NEW p \in Properties, NEW v \in Values
  PROVE  publishValue(p, v) \in Int
BY BridgeAssumption DEF publishValue

(* A post appends one event to a queue that had room. *)
LEMMA PostQueue ==
  ASSUME TypeOK, NEW e \in Events, esp_event_post(e)
  PROVE  /\ queue' \in Seq(Events) /\ Len(queue') = Len(queue) + 1 /\ Len(queue') <= QueueSize
         /\ \A i \in 1..Len(queue) : queue'[i] = queue[i]
         /\ queue'[Len(queue')] = e
BY BridgeAssumption, AppendProperties DEF esp_event_post, TypeOK

(* The event loop takes the first event, the others move up. *)
LEMMA DispatchQueue ==
  ASSUME TypeOK, NEW e, Dispatch(e)
  PROVE  /\ queue' \in Seq(Events) /\ Len(queue') = Len(queue) - 1 /\ Len(queue') <= QueueSize
         /\ Len(queue) >= 1 /\ queue[1] = e
         /\ \A i \in 1..Len(queue') : queue'[i] = queue[i + 1]
<1>1. queue \in Seq(Events) /\ queue # <<>> /\ queue' = Tail(queue) /\ Len(queue) <= QueueSize
  BY DEF Dispatch, TypeOK
<1>2. Len(queue) \in Nat /\ Len(queue) >= 1
  BY <1>1, EmptySeq, LenProperties
<1>3. /\ queue' \in Seq(Events) /\ Len(queue') = Len(queue) - 1
      /\ \A i \in 1..Len(queue') : queue'[i] = queue[i + 1]
  BY <1>1, HeadTailProperties
<1>4. queue[1] = e
  BY <1>1, <1>2 DEF Dispatch
<1>5. Len(queue') <= QueueSize
  <2>1. QueueSize \in Nat
    BY BridgeAssumption
  <2>2. QED BY <1>1, <1>2, <1>3, <2>1
<1>6. QED BY <1>2, <1>3, <1>4, <1>5

LEMMA InitInv == Init => IInv
<1> SUFFICES ASSUME Init PROVE IInv
  OBVIOUS
<1>1. queue \in Seq(Events) /\ Len(queue) = 0 /\ Len(queue) <= QueueSize
  <2>1. QueueSize \in Nat
    BY BridgeAssumption
  <2>2. QED BY <2>1 DEF Init
<1>2. TypeOK
  BY <1>1 DEF Init, TypeOK
<1>3. Places /\ ValueCurrent /\ Follows
  BY <1>1, BridgeAssumption DEF Init, Places, ValueCurrent, Follows, Tasks
<1>4. QED BY <1>2, <1>3 DEF IInv

-----------------------------------------------------------------------------
(* Every step keeps the types and the places.                                 *)
LEMMA TypesNext == TypeOK /\ Places /\ [Next]_vars => TypeOK' /\ Places'
<1> SUFFICES ASSUME TypeOK, Places, [Next]_vars PROVE TypeOK' /\ Places'
  OBVIOUS
<1> USE BridgeAssumption
<1>1. ASSUME NEW w \in Writers, NEW p \in Properties, CreateProperty(w, p) PROVE TypeOK' /\ Places'
  <2>1. TypeOK'
    BY <1>1 DEF TypeOK, Places, Tasks, CreateProperty, Begin, Goto, mqtt, output
  <2>2. Places'
    BY <1>1 DEF TypeOK, Places, Tasks, CreateProperty, Begin, Goto, mqtt, output
  <2>3. QED BY <2>1, <2>2
<1>2. ASSUME NEW w \in Writers, PostRegistered(w) PROVE TypeOK' /\ Places'
  <2>1. w \in Tasks /\ cur[w] \in m_properties /\ cur[w] \in Properties
    BY <1>2 DEF TypeOK, Places, Tasks, PostRegistered, Goto
  <2> DEFINE e == <<"REGISTERED", cur[w]>>
  <2>2. e \in Events /\ esp_event_post(e) /\ e[2] = cur[w]
    BY <1>2, <2>1 DEF PostRegistered, Events
  <2> HIDE DEF e
  <2>3. /\ queue' \in Seq(Events) /\ Len(queue') = Len(queue) + 1 /\ Len(queue') <= QueueSize
        /\ \A i \in 1..Len(queue) : queue'[i] = queue[i]
        /\ queue'[Len(queue')] = e
    BY <2>2, PostQueue
  <2>4. \A i \in 1..Len(queue') : queue'[i][2] \in m_properties
    <3>1. Len(queue) \in Nat
      BY DEF TypeOK
    <3>2. QED BY <2>1, <2>2, <2>3, <3>1 DEF Places
  <2>5. TypeOK'
    BY <1>2, <2>1, <2>3 DEF TypeOK, PostRegistered, Goto, declared, mqtt, output
  <2>6. Places'
    BY <1>2, <2>1, <2>4 DEF TypeOK, Places, Tasks, PostRegistered, Goto, declared, mqtt, output
  <2>7. QED BY <2>5, <2>6
<1>3. ASSUME NEW w \in Writers, Configure(w) PROVE TypeOK' /\ Places'
  <2>1. TypeOK'
    BY <1>3 DEF TypeOK, Places, Tasks, Configure, End, Goto, mqtt, output
  <2>2. Places'
    BY <1>3 DEF TypeOK, Places, Tasks, Configure, End, Goto, mqtt, output
  <2>3. QED BY <2>1, <2>2
<1>4. ASSUME NEW w \in Writers, NEW p \in Properties, NEW v \in Values, SetValue(w, p, v) PROVE TypeOK' /\ Places'
  <2>1. /\ w \in Tasks /\ p \in m_properties /\ typed' = typed \union {p}
        /\ pc' = [pc EXCEPT ![w] = "changed"] /\ cur' = [cur EXCEPT ![w] = p]
        /\ UNCHANGED <<m_properties, configured, queue, value, mqtt, output>>
    BY <1>4 DEF SetValue, setValue, Begin, Goto, Tasks
  <2>2. stored' \in [Properties -> Values]
    BY <1>4 DEF SetValue, setValue, TypeOK
  <2>3. TypeOK'
    BY <2>1, <2>2 DEF TypeOK, mqtt, output
  <2>4. Places'
    BY <1>4, <2>1 DEF TypeOK, Places, Tasks
  <2>5. QED BY <2>3, <2>4
<1>5. ASSUME NEW t \in Writers \union {MqttTask}, PostChanged(t) PROVE TypeOK' /\ Places'
  <2>1. t \in Tasks /\ cur[t] \in m_properties /\ cur[t] \in Properties
    BY <1>5 DEF TypeOK, Places, Tasks, PostChanged, End, Goto
  <2> DEFINE e == <<"CHANGED", cur[t]>>
  <2>2. e \in Events /\ esp_event_post(e) /\ e[2] = cur[t]
    BY <1>5, <2>1 DEF PostChanged, Events
  <2> HIDE DEF e
  <2>3. /\ queue' \in Seq(Events) /\ Len(queue') = Len(queue) + 1 /\ Len(queue') <= QueueSize
        /\ \A i \in 1..Len(queue) : queue'[i] = queue[i]
        /\ queue'[Len(queue')] = e
    BY <2>2, PostQueue
  <2>4. \A i \in 1..Len(queue') : queue'[i][2] \in m_properties
    <3>1. Len(queue) \in Nat
      BY DEF TypeOK
    <3>2. QED BY <2>1, <2>2, <2>3, <3>1 DEF Places
  <2>5. TypeOK'
    BY <1>5, <2>1, <2>3 DEF TypeOK, PostChanged, End, Goto, declared, mqtt, output
  <2>6. Places'
    BY <1>5, <2>1, <2>4 DEF TypeOK, Places, Tasks, PostChanged, End, Goto, declared, mqtt, output
  <2>7. QED BY <2>5, <2>6
<1>6. ASSUME NEW p \in Properties, HandleRegistered(p) PROVE TypeOK' /\ Places'
  <2>1. p \in m_properties /\ Loop \in Tasks
    <3>1. Len(queue) >= 1 /\ queue[1] = <<"REGISTERED", p>> /\ Len(queue) \in Nat
      BY <1>6, DispatchQueue DEF HandleRegistered, TypeOK
    <3>2. QED BY <3>1 DEF Places, Tasks
  <2>2. /\ queue' \in Seq(Events) /\ Len(queue') <= QueueSize
        /\ \A i \in 1..Len(queue') : queue'[i][2] \in m_properties
    <3>1. Len(queue) \in Nat /\ Dispatch(<<"REGISTERED", p>>)
      BY <1>6 DEF HandleRegistered, TypeOK
    <3>2. /\ queue' \in Seq(Events) /\ Len(queue') = Len(queue) - 1 /\ Len(queue') <= QueueSize
          /\ \A i \in 1..Len(queue') : queue'[i] = queue[i + 1]
      BY <3>1, DispatchQueue
    <3>3. \A i \in 1..Len(queue') : i + 1 \in 1..Len(queue)
      BY <3>1, <3>2
    <3>4. QED BY <3>2, <3>3 DEF Places
  <2>3. scope' \in [Properties -> {"none", "ScopeDevice", "ScopeGroup"}]
    BY <1>6 DEF HandleRegistered, TypeOK
  <2>4. UNCHANGED <<pc, cur>> \/ Begin(Loop, p, "subscribe")
    BY <1>6 DEF HandleRegistered
  <2>5. TypeOK'
    <3>1. UNCHANGED <<declared, stored, value, m_isConnected, output>>
      BY <1>6 DEF HandleRegistered
    <3>2. /\ pc' \in [Tasks -> {"idle", "register", "configure", "changed", "subscribe", "publish"}]
          /\ cur' \in [Tasks -> Properties \union {None}]
      BY <2>1, <2>4 DEF TypeOK, Begin, Goto
    <3>3. QED BY <2>2, <2>3, <3>1, <3>2 DEF TypeOK, declared, output
  <2>6. Places'
    <3>1. m_properties' = m_properties /\ value' = value
      BY <1>6 DEF HandleRegistered, declared
    <3>2. QED BY <2>1, <2>2, <2>4, <3>1 DEF TypeOK, Places, Tasks, Begin, Goto
  <2>7. QED BY <2>5, <2>6
<1>7. ASSUME NEW p \in Properties, HandleChanged(p) PROVE TypeOK' /\ Places'
  <2>1. p \in m_properties /\ Loop \in Tasks
    <3>1. Len(queue) >= 1 /\ queue[1] = <<"CHANGED", p>> /\ Len(queue) \in Nat
      BY <1>7, DispatchQueue DEF HandleChanged, TypeOK
    <3>2. QED BY <3>1 DEF Places, Tasks
  <2>2. /\ queue' \in Seq(Events) /\ Len(queue') <= QueueSize
        /\ \A i \in 1..Len(queue') : queue'[i][2] \in m_properties
    <3>1. Len(queue) \in Nat /\ Dispatch(<<"CHANGED", p>>)
      BY <1>7 DEF HandleChanged, TypeOK
    <3>2. /\ queue' \in Seq(Events) /\ Len(queue') = Len(queue) - 1 /\ Len(queue') <= QueueSize
          /\ \A i \in 1..Len(queue') : queue'[i] = queue[i + 1]
      BY <3>1, DispatchQueue
    <3>3. \A i \in 1..Len(queue') : i + 1 \in 1..Len(queue)
      BY <3>1, <3>2
    <3>4. QED BY <3>2, <3>3 DEF Places
  <2>3. publishValue(p, stored[p]) \in Int
    BY PublishValueInt DEF TypeOK
  <2>4. TypeOK'
    BY <1>7, <2>1, <2>2, <2>3 DEF TypeOK, HandleChanged, Begin, Goto, declared, mqtt
  <2>5. Places'
    BY <1>7, <2>1, <2>2, <2>3 DEF TypeOK, Places, Tasks, HandleChanged, Begin, Goto, declared, mqtt
  <2>6. QED BY <2>4, <2>5
<1>8. ASSUME Subscribe PROVE TypeOK' /\ Places'
  <2>1. TypeOK'
    BY <1>8 DEF TypeOK, Places, Tasks, Subscribe, End, Goto, declared, mqtt, output
  <2>2. Places'
    BY <1>8 DEF TypeOK, Places, Tasks, Subscribe, End, Goto, declared, mqtt, output
  <2>3. QED BY <2>1, <2>2
<1>9. ASSUME Publish PROVE TypeOK' /\ Places'
  <2>1. TypeOK'
    BY <1>9 DEF TypeOK, Places, Tasks, Publish, End, Goto, declared, mqtt
  <2>2. Places'
    BY <1>9 DEF TypeOK, Places, Tasks, Publish, End, Goto, declared, mqtt
  <2>3. QED BY <2>1, <2>2
<1>10. ASSUME NEW p \in Properties, NEW v \in Values, Command(p, v) PROVE TypeOK' /\ Places'
  <2>1. TypeOK'
    BY <1>10 DEF TypeOK, Places, Tasks, Command, setValue, Begin, Goto, mqtt, output
  <2>2. Places'
    BY <1>10 DEF TypeOK, Places, Tasks, Command, setValue, Begin, Goto, mqtt, output
  <2>3. QED BY <2>1, <2>2
<1>11. ASSUME ConnectionChanges PROVE TypeOK' /\ Places'
  <2>1. TypeOK'
    BY <1>11 DEF TypeOK, Places, Tasks, ConnectionChanges, declared, tasks, output
  <2>2. Places'
    BY <1>11 DEF TypeOK, Places, Tasks, ConnectionChanges, declared, tasks, output
  <2>3. QED BY <2>1, <2>2
<1>12. ASSUME Restart PROVE TypeOK' /\ Places'
  <2>1. queue' \in Seq(Events) /\ Len(queue') = 0 /\ Len(queue') <= QueueSize
    <3>1. QueueSize \in Nat
      OBVIOUS
    <3>2. QED BY <1>12, <3>1 DEF Restart
  <2>2. TypeOK'
    BY <1>12, <2>1 DEF Restart, TypeOK
  <2>3. Places'
    BY <1>12, <2>1 DEF Restart, Places, Tasks
  <2>4. QED BY <2>2, <2>3
<1>13. ASSUME UNCHANGED vars PROVE TypeOK' /\ Places'
  <2>1. TypeOK'
    BY <1>13 DEF TypeOK, Places, Tasks, vars, declared, tasks, mqtt, output
  <2>2. Places'
    BY <1>13 DEF TypeOK, Places, Tasks, vars, declared, tasks, mqtt, output
  <2>3. QED BY <2>1, <2>2
<1>14. QED BY <1>1, <1>2, <1>3, <1>4, <1>5, <1>6, <1>7, <1>8, <1>9, <1>10, <1>11, <1>12, <1>13 DEF Next, Writer, EventLoop, Mqtt

-----------------------------------------------------------------------------
(* A write, from its setValue to the handling of its event, is waiting.       *)
LEMMA WriteWaits ==
  ASSUME TypeOK, Places, NEW t \in Writers \union {MqttTask},
         NEW p \in Properties, NEW v \in Values, setValue(t, p, v)
  PROVE  Waiting(p)'
BY DEF setValue, Begin, Goto, Waiting, TypeOK, Tasks

(* What waits stays in the queue when an event is posted behind it. *)
LEMMA PostKeeps ==
  ASSUME TypeOK, NEW e \in Events, esp_event_post(e), NEW p \in Properties,
         \E i \in 1..Len(queue) : queue[i] = <<"CHANGED", p>>
  PROVE  Waiting(p)'
<1>1. /\ Len(queue') = Len(queue) + 1 /\ \A i \in 1..Len(queue) : queue'[i] = queue[i]
      /\ Len(queue) \in Nat
  BY PostQueue DEF TypeOK
<1>2. \E i \in 1..Len(queue') : queue'[i] = <<"CHANGED", p>>
  BY <1>1
<1>3. QED BY <1>2 DEF Waiting

(* What waits stays in the queue when another event is dispatched. *)
LEMMA DispatchKeeps ==
  ASSUME TypeOK, NEW e, Dispatch(e), NEW p \in Properties, e # <<"CHANGED", p>>,
         \E i \in 1..Len(queue) : queue[i] = <<"CHANGED", p>>
  PROVE  Waiting(p)'
<1>1. /\ Len(queue') = Len(queue) - 1 /\ queue[1] = e /\ Len(queue) \in Nat
      /\ \A i \in 1..Len(queue') : queue'[i] = queue[i + 1]
  BY DispatchQueue DEF TypeOK
<1>2. PICK i \in 1..Len(queue) : queue[i] = <<"CHANGED", p>>
  OBVIOUS
<1>3. i - 1 \in 1..Len(queue') /\ (i - 1) + 1 = i
  <2>1. i # 1
    BY <1>1, <1>2
  <2>2. QED BY <1>1, <2>1
<1>4. queue'[i - 1] = <<"CHANGED", p>>
  BY <1>1, <1>2, <1>3
<1>5. QED BY <1>3, <1>4 DEF Waiting

(* Only the event loop's task, handling the event of p, or a restart ends the *)
(* waiting of a write of p.                                                   *)
LEMMA StillWaiting ==
  ASSUME TypeOK, Places, [Next]_vars, NEW p \in Properties, Waiting(p),
         ~HandleChanged(p), ~Restart
  PROVE  Waiting(p)'
<1> USE BridgeAssumption
<1> DEFINE InTask == \E t \in Writers \union {MqttTask} : cur[t] = p /\ pc[t] = "changed"
           InQueue == \E i \in 1..Len(queue) : queue[i] = <<"CHANGED", p>>
<1>0. InTask \/ InQueue
  BY DEF Waiting
<1>a. ASSUME NEW w \in Writers, PostRegistered(w) PROVE Waiting(p)'
  <2>1. /\ <<"REGISTERED", cur[w]>> \in Events
        /\ esp_event_post(<<"REGISTERED", cur[w]>>)
    BY <1>a DEF PostRegistered, Events, Places, Goto, TypeOK, Tasks
  <2>2. CASE InQueue
    BY <2>1, <2>2, PostKeeps
  <2>3. CASE InTask
    BY <1>a, <2>3 DEF PostRegistered, Goto, Waiting, TypeOK, Tasks
  <2>4. QED BY <1>0, <2>2, <2>3
<1>b. ASSUME NEW u \in Writers \union {MqttTask}, PostChanged(u) PROVE Waiting(p)'
  <2>1. /\ <<"CHANGED", cur[u]>> \in Events
        /\ esp_event_post(<<"CHANGED", cur[u]>>)
    BY <1>b DEF PostChanged, End, Events, Places, Goto, TypeOK, Tasks
  <2>2. CASE InQueue
    BY <2>1, <2>2, PostKeeps
  <2>3. CASE cur[u] = p
    <3>1. Len(queue') \in 1..Len(queue') /\ queue'[Len(queue')] = <<"CHANGED", p>>
      BY <2>1, <2>3, PostQueue DEF TypeOK
    <3>2. QED BY <3>1 DEF Waiting
  <2>4. CASE InTask /\ cur[u] # p
    BY <1>b, <2>4 DEF PostChanged, End, Goto, Waiting, TypeOK, Tasks
  <2>5. QED BY <1>0, <2>2, <2>3, <2>4
<1>c. ASSUME NEW q \in Properties, HandleRegistered(q) PROVE Waiting(p)'
  <2>1. CASE InQueue
    BY <1>c, <2>1, DispatchKeeps DEF HandleRegistered
  <2>2. CASE InTask
    <3>1. UNCHANGED <<pc, cur>> \/ Begin(Loop, q, "subscribe")
      BY <1>c DEF HandleRegistered
    <3>2. QED BY <2>2, <3>1 DEF Begin, Goto, Waiting, TypeOK, Tasks
  <2>3. QED BY <1>0, <2>1, <2>2
<1>d. ASSUME NEW q \in Properties, HandleChanged(q) PROVE Waiting(p)'
  <2>0. q # p
    BY <1>d
  <2>1. CASE InQueue
    BY <1>d, <2>0, <2>1, DispatchKeeps DEF HandleChanged
  <2>2. CASE InTask
    <3>1. UNCHANGED <<pc, cur>> \/ Begin(Loop, q, "publish")
      BY <1>d DEF HandleChanged
    <3>2. QED BY <2>2, <3>1 DEF Begin, Goto, Waiting, TypeOK, Tasks
  <2>3. QED BY <1>0, <2>1, <2>2
<1>e. ASSUME NEW w \in Writers, NEW q \in Properties, CreateProperty(w, q) PROVE Waiting(p)'
  BY <1>0, <1>e DEF CreateProperty, Begin, Goto, Waiting, TypeOK, Tasks
<1>f. ASSUME NEW w \in Writers, Configure(w) PROVE Waiting(p)'
  BY <1>0, <1>f DEF Configure, End, Goto, Waiting, TypeOK, Tasks
<1>g. ASSUME NEW w \in Writers, NEW q \in Properties, NEW v \in Values, SetValue(w, q, v)
      PROVE Waiting(p)'
  BY <1>0, <1>g DEF SetValue, setValue, Begin, Goto, Waiting, TypeOK, Tasks
<1>h. ASSUME NEW q \in Properties, NEW v \in Values, Command(q, v) PROVE Waiting(p)'
  BY <1>0, <1>h DEF Command, setValue, Begin, Goto, Waiting, TypeOK, Tasks
<1>i. CASE Subscribe
  BY <1>0, <1>i DEF Subscribe, End, Goto, Waiting, TypeOK, Tasks
<1>j. CASE Publish
  BY <1>0, <1>j DEF Publish, End, Goto, Waiting, TypeOK, Tasks
<1>k. CASE ConnectionChanges \/ UNCHANGED vars
  BY <1>0, <1>k DEF ConnectionChanges, vars, tasks, Waiting
<1>l. QED
  BY <1>a, <1>b, <1>c, <1>d, <1>e, <1>f, <1>g, <1>h, <1>i, <1>j, <1>k
  DEF Next, Writer, EventLoop, Mqtt

-----------------------------------------------------------------------------
(* A step that neither writes p nor handles its event leaves what is stored   *)
(* and published of p alone, unless it publishes p or restarts.               *)
LEMMA Untouched ==
  ASSUME TypeOK, Places, [Next]_vars, NEW p \in Properties, ~Waiting(p)',
         ~Restart, ~(Publish /\ cur[Loop] = p)
  PROVE  stored'[p] = stored[p] /\ published'[p] = published[p]
<1> USE BridgeAssumption
<1>1. ASSUME NEW w \in Writers, NEW q \in Properties, NEW v \in Values, SetValue(w, q, v)
      PROVE stored'[p] = stored[p] /\ published'[p] = published[p]
  <2>1. setValue(w, q, v) /\ published' = published
    BY <1>1 DEF SetValue, output
  <2>2. q # p
    BY <2>1, WriteWaits
  <2>3. QED BY <2>1, <2>2 DEF setValue, TypeOK
<1>2. ASSUME NEW q \in Properties, NEW v \in Values, Command(q, v)
      PROVE stored'[p] = stored[p] /\ published'[p] = published[p]
  <2>1. setValue(MqttTask, q, v) /\ published' = published
    BY <1>2 DEF Command, output
  <2>2. q # p
    BY <2>1, WriteWaits
  <2>3. QED BY <2>1, <2>2 DEF setValue, TypeOK
<1>3. ASSUME Publish PROVE stored'[p] = stored[p] /\ published'[p] = published[p]
  BY <1>3 DEF Publish, TypeOK
<1>4. ASSUME NEW w \in Writers,
             \/ \E q \in Properties : CreateProperty(w, q)
             \/ PostRegistered(w) \/ Configure(w)
      PROVE stored'[p] = stored[p] /\ published'[p] = published[p]
  BY <1>4 DEF CreateProperty, PostRegistered, Configure, output
<1>5. ASSUME NEW t \in Writers \union {MqttTask}, PostChanged(t)
      PROVE stored'[p] = stored[p] /\ published'[p] = published[p]
  BY <1>5 DEF PostChanged, output
<1>6. ASSUME NEW q \in Properties, HandleRegistered(q) \/ HandleChanged(q)
      PROVE stored'[p] = stored[p] /\ published'[p] = published[p]
  BY <1>6 DEF HandleRegistered, HandleChanged, output
<1>7. ASSUME Subscribe \/ ConnectionChanges \/ UNCHANGED vars
      PROVE stored'[p] = stored[p] /\ published'[p] = published[p]
  BY <1>7 DEF Subscribe, ConnectionChanges, output, vars
<1>8. QED
  BY <1>1, <1>2, <1>3, <1>4, <1>5, <1>6, <1>7 DEF Next, Writer, EventLoop, Mqtt

(* Only handleChanged brings the event loop's task to a publish. *)
LEMMA PublishBegins ==
  ASSUME TypeOK, Places, [Next]_vars, pc'[Loop] = "publish",
         \A p \in Properties : ~HandleChanged(p)
  PROVE  pc[Loop] = "publish" /\ cur'[Loop] = cur[Loop] /\ value' = value /\ ~Publish
<1> USE BridgeAssumption DEF TypeOK, Tasks
<1>1. ASSUME NEW w \in Writers, NEW p \in Properties, CreateProperty(w, p)
      PROVE pc[Loop] = "publish" /\ cur'[Loop] = cur[Loop] /\ value' = value /\ ~Publish
  BY <1>1 DEF CreateProperty, Begin, Goto, Publish, End
<1>2. ASSUME NEW w \in Writers, PostRegistered(w) \/ Configure(w)
      PROVE pc[Loop] = "publish" /\ cur'[Loop] = cur[Loop] /\ value' = value /\ ~Publish
  BY <1>2 DEF PostRegistered, Configure, End, Goto, Publish
<1>3. ASSUME NEW w \in Writers, NEW p \in Properties, NEW v \in Values, SetValue(w, p, v)
      PROVE pc[Loop] = "publish" /\ cur'[Loop] = cur[Loop] /\ value' = value /\ ~Publish
  BY <1>3 DEF SetValue, setValue, Begin, Goto, Publish, End
<1>4. ASSUME NEW t \in Writers \union {MqttTask}, PostChanged(t)
      PROVE pc[Loop] = "publish" /\ cur'[Loop] = cur[Loop] /\ value' = value /\ ~Publish
  BY <1>4 DEF PostChanged, End, Goto, Publish
<1>5. ASSUME NEW p \in Properties, NEW v \in Values, Command(p, v)
      PROVE pc[Loop] = "publish" /\ cur'[Loop] = cur[Loop] /\ value' = value /\ ~Publish
  BY <1>5 DEF Command, setValue, Begin, Goto, Publish, End
<1>6. ASSUME NEW p \in Properties, HandleRegistered(p) PROVE FALSE
  BY <1>6 DEF HandleRegistered, Begin, Goto
<1>7. ASSUME Subscribe \/ Publish \/ Restart PROVE FALSE
  BY <1>7 DEF Subscribe, Publish, Restart, End, Goto
<1>8. ASSUME ConnectionChanges \/ UNCHANGED vars
      PROVE pc[Loop] = "publish" /\ cur'[Loop] = cur[Loop] /\ value' = value /\ ~Publish
  <2>1. UNCHANGED tasks
    BY <1>8 DEF ConnectionChanges, vars
  <2>2. pc[Loop] = "publish" /\ cur'[Loop] = cur[Loop] /\ value' = value
    BY <2>1 DEF tasks
  <2>3. ~Publish
    BY <2>1, <2>2 DEF tasks, Publish, End, Goto
  <2>4. QED BY <2>2, <2>3
<1>9. QED
  BY <1>1, <1>2, <1>3, <1>4, <1>5, <1>6, <1>7, <1>8 DEF Next, Writer, EventLoop, Mqtt

(* The value about to be published stays the stored one. *)
LEMMA ValueNext == IInv /\ [Next]_vars => ValueCurrent'
<1> SUFFICES ASSUME TypeOK, Places, ValueCurrent, [Next]_vars, pc'[Loop] = "publish",
                    NEW q, q = cur'[Loop], ~Waiting(q)'
             PROVE  value' = publishValue(q, stored'[q])
  BY DEF IInv, ValueCurrent, publishValue, Waiting
<1> USE BridgeAssumption
<1>1. ASSUME NEW p \in Properties, HandleChanged(p)
      PROVE value' = publishValue(q, stored'[q])
  BY <1>1 DEF HandleChanged, Begin, Goto, TypeOK, Tasks
<1>2. ASSUME \A p \in Properties : ~HandleChanged(p)
      PROVE value' = publishValue(q, stored'[q])
  <2>1. pc[Loop] = "publish" /\ q = cur[Loop] /\ value' = value /\ ~Publish
    BY <1>2, PublishBegins
  <2>2. q \in Properties
    BY <2>1 DEF TypeOK, Places, Tasks
  <2>3. ~Restart
    BY DEF Restart, Tasks
  <2>4. ~Waiting(q)
    BY <1>2, <2>2, <2>3, StillWaiting
  <2>5. stored'[q] = stored[q]
    BY <2>1, <2>2, <2>3, Untouched
  <2>6. value = publishValue(q, stored[q])
    BY <2>1, <2>4 DEF ValueCurrent, publishValue, Waiting
  <2>7. QED BY <2>1, <2>5, <2>6 DEF publishValue
<1>3. QED BY <1>1, <1>2

(* What is published stays the stored value, or is behind a waiting write.    *)
LEMMA FollowsNext == IInv /\ [Next]_vars => Follows'
<1> SUFFICES ASSUME TypeOK, Places, ValueCurrent, Follows, [Next]_vars, NEW p \in fresh',
                    ~Waiting(p)', ~(pc'[Loop] = "publish" /\ cur'[Loop] = p)
             PROVE  published'[p] = publishValue(p, stored'[p])
  BY DEF IInv, Follows, publishValue
<1> USE BridgeAssumption
<1>1. TypeOK' /\ p \in Properties
  BY TypesNext DEF TypeOK
<1>2. ~Restart
  BY DEF Restart
<1>3. ~HandleChanged(p)
  BY DEF HandleChanged, Begin, Goto, TypeOK, Tasks
<1>4. ~Waiting(p)
  BY <1>1, <1>2, <1>3, StillWaiting
<1>5. CASE Publish /\ cur[Loop] = p
  <2>1. pc[Loop] = "publish" /\ stored' = stored /\ published'[p] = value
    BY <1>1, <1>5 DEF Publish, End, Goto, TypeOK
  <2>2. value = publishValue(p, stored[p])
    BY <1>4, <1>5, <2>1 DEF ValueCurrent, publishValue, Waiting
  <2>3. QED BY <2>1, <2>2
<1>6. CASE ~(Publish /\ cur[Loop] = p)
  <2>1. stored'[p] = stored[p] /\ published'[p] = published[p]
    BY <1>1, <1>2, <1>6, Untouched
  <2>2. p \in fresh /\ ~(pc[Loop] = "publish" /\ cur[Loop] = p)
    <3>1. p \in fresh
      BY <1>2, <1>6 DEF Next, Writer, EventLoop, Mqtt, vars, output, CreateProperty,
        PostRegistered, Configure, SetValue, PostChanged, HandleRegistered, HandleChanged,
        Subscribe, Publish, Command, ConnectionChanges
    <3>2. ASSUME pc[Loop] = "publish", cur[Loop] = p PROVE pc'[Loop] = "publish" /\ cur'[Loop] = p
      BY <1>2, <1>6, <3>2 DEF Next, Writer, EventLoop, Mqtt, vars, tasks, CreateProperty,
        PostRegistered, Configure, SetValue, setValue, PostChanged, HandleRegistered,
        HandleChanged, Subscribe, Command, ConnectionChanges, Begin, End, Goto, TypeOK, Tasks
    <3>3. QED BY <3>1, <3>2
  <2>3. QED BY <2>1, <2>2, <1>4 DEF Follows, publishValue
<1>7. QED BY <1>5, <1>6

-----------------------------------------------------------------------------
(* The inductive invariant holds in every reachable state. *)
THEOREM BridgeInvariance == Spec => []IInv
<1>1. IInv /\ [Next]_vars => IInv'
  BY TypesNext, ValueNext, FollowsNext DEF IInv
<1>2. QED BY InitInv, <1>1, PTL DEF Spec

(* The event queue never grows beyond its length and every task is at a place *)
(* of the code, however many writers and properties there are.                *)
THEOREM BridgeTypeCorrect == Spec => []TypeOK
<1>1. IInv => TypeOK
  BY DEF IInv
<1>2. QED BY BridgeInvariance, <1>1, PTL

(* handleChanged reads the value when the event is handled, not when it is    *)
(* posted: the last value published is therefore the stored one as soon as no *)
(* event of the property is under way, in whatever order writers post.        *)
THEOREM PublishedFollows == Spec => []PublishedFollowsStored
<1>1. IInv => PublishedFollowsStored
  <2> SUFFICES ASSUME IInv, NEW p \in fresh, Settled(p)
               PROVE  published[p] = publishValue(p, stored[p])
    BY DEF PublishedFollowsStored
  <2>1. ~Waiting(p) /\ ~(pc[Loop] = "publish" /\ cur[Loop] = p)
    BY DEF Settled, Waiting, Tasks
  <2>2. QED BY <2>1 DEF IInv, Follows
<1>2. QED BY BridgeInvariance, <1>1, PTL

(* handleChanged hands an int to publishValue(uint8_t): once nothing waits,  *)
(* the value published of an int is the stored one exactly when that lies in *)
(* 0..255, above 255 and below 0 it never is; that of a string always is.    *)
THEOREM PublishedExactlyInByteRange ==
  Spec => [](\A p \in fresh :
               Settled(p) => (published[p] = stored[p] <=>
                              (p \in IntProperties => stored[p] \in 0..255)))
<1>1. TypeOK /\ PublishedFollowsStored =>
        \A p \in fresh :
          Settled(p) => (published[p] = stored[p] <=>
                         (p \in IntProperties => stored[p] \in 0..255))
  <2> SUFFICES ASSUME TypeOK, PublishedFollowsStored, NEW p \in fresh, Settled(p)
               PROVE  published[p] = stored[p] <=>
                        (p \in IntProperties => stored[p] \in 0..255)
    OBVIOUS
  <2>1. published[p] = publishValue(p, stored[p])
    BY DEF PublishedFollowsStored
  <2>2. stored[p] \in Int
    BY BridgeAssumption DEF TypeOK
  <2>3. stored[p] % 256 = stored[p] <=> stored[p] \in 0..255
    BY <2>2
  <2>4. QED BY <2>1, <2>3 DEF publishValue
<1>2. QED BY <1>1, BridgeTypeCorrect, PublishedFollows, PTL

-----------------------------------------------------------------------------
(* An event of p comes into the queue from a task that wrote p only. *)
LEMMA WaitsForAWrite ==
  ASSUME TypeOK, Places, [Next]_vars, NEW p \in Properties, Waiting(p)'
  PROVE  \/ Waiting(p)
         \/ \E t \in Writers \union {MqttTask}, v \in Values : setValue(t, p, v)
<1> SUFFICES ASSUME ~Waiting(p),
                    \A t \in Writers \union {MqttTask}, v \in Values : ~setValue(t, p, v)
             PROVE  FALSE
  OBVIOUS
<1> USE BridgeAssumption
<1> DEFINE InTask == \E t \in Writers \union {MqttTask} : cur[t] = p /\ pc[t] = "changed"
           InQueue == \E i \in 1..Len(queue) : queue[i] = <<"CHANGED", p>>
<1>1. ~InTask /\ ~InQueue
  BY DEF Waiting
<1>2. InTask' \/ InQueue'
  BY DEF Waiting
<1>3. ASSUME NEW w \in Writers, PostRegistered(w) PROVE FALSE
  <2>1. /\ <<"REGISTERED", cur[w]>> \in Events /\ esp_event_post(<<"REGISTERED", cur[w]>>)
    BY <1>3 DEF PostRegistered, Events, Places, Goto, TypeOK, Tasks
  <2>2. ~InQueue'
    <3>1. /\ Len(queue) \in Nat /\ Len(queue') = Len(queue) + 1
          /\ \A i \in 1..Len(queue) : queue'[i] = queue[i]
          /\ queue'[Len(queue')] = <<"REGISTERED", cur[w]>>
      BY <2>1, PostQueue DEF TypeOK
    <3>2. QED BY <1>1, <3>1
  <2>3. ~InTask'
    BY <1>1, <1>3 DEF PostRegistered, Goto, TypeOK, Tasks
  <2>4. QED BY <1>2, <2>2, <2>3
<1>4. ASSUME NEW u \in Writers \union {MqttTask}, PostChanged(u) PROVE FALSE
  <2> DEFINE e == <<"CHANGED", cur[u]>>
  <2>1. e \in Events /\ esp_event_post(e) /\ e # <<"CHANGED", p>>
    BY <1>1, <1>4 DEF PostChanged, End, Events, Places, Goto, TypeOK, Tasks
  <2> HIDE DEF e
  <2>2. ~InQueue'
    <3>1. /\ Len(queue) \in Nat /\ Len(queue') = Len(queue) + 1
          /\ \A i \in 1..Len(queue) : queue'[i] = queue[i]
          /\ queue'[Len(queue')] = e
      BY <2>1, PostQueue DEF TypeOK
    <3>2. \A i \in 1..Len(queue') : i \in 1..Len(queue) \/ i = Len(queue')
      BY <3>1
    <3>3. \A i \in 1..Len(queue') : queue'[i] # <<"CHANGED", p>>
      BY <1>1, <2>1, <3>1, <3>2
    <3>4. QED BY <3>3
  <2>3. ~InTask'
    BY <1>1, <1>4 DEF PostChanged, End, Goto, TypeOK, Tasks
  <2>4. QED BY <1>2, <2>2, <2>3
<1>5. ASSUME NEW q \in Properties, HandleRegistered(q) \/ HandleChanged(q) PROVE FALSE
  <2>1. PICK e : Dispatch(e)
    BY <1>5 DEF HandleRegistered, HandleChanged
  <2>2. ~InQueue'
    <3>1. /\ Len(queue) \in Nat /\ Len(queue') = Len(queue) - 1
          /\ \A i \in 1..Len(queue') : queue'[i] = queue[i + 1]
      BY <2>1, DispatchQueue DEF TypeOK
    <3>2. \A i \in 1..Len(queue') : i + 1 \in 1..Len(queue)
      BY <3>1
    <3>3. QED BY <1>1, <3>1, <3>2
  <2>3. UNCHANGED <<pc, cur>> \/ Begin(Loop, q, "subscribe") \/ Begin(Loop, q, "publish")
    BY <1>5 DEF HandleRegistered, HandleChanged
  <2>4. ~InTask'
    BY <1>1, <2>3 DEF Begin, Goto, TypeOK, Tasks
  <2>5. QED BY <1>2, <2>2, <2>4
<1>6. ASSUME NEW t \in Writers \union {MqttTask}, NEW q \in Properties, NEW v \in Values,
             setValue(t, q, v), UNCHANGED queue
      PROVE  FALSE
  <2>1. q # p
    BY <1>6
  <2>2. ~InTask'
    BY <1>1, <1>6, <2>1 DEF setValue, Begin, Goto, TypeOK, Tasks
  <2>3. QED BY <1>1, <1>2, <1>6, <2>2
<1>7. ASSUME NEW w \in Writers, NEW q \in Properties, CreateProperty(w, q) PROVE FALSE
  BY <1>1, <1>2, <1>7 DEF CreateProperty, Begin, Goto, TypeOK, Tasks
<1>8. ASSUME NEW w \in Writers, Configure(w) PROVE FALSE
  BY <1>1, <1>2, <1>8 DEF Configure, End, Goto, TypeOK, Tasks
<1>9. CASE Subscribe \/ Publish
  BY <1>1, <1>2, <1>9 DEF Subscribe, Publish, End, Goto, TypeOK, Tasks
<1>10. CASE Restart
  <2>1. Len(queue') = 0
    BY <1>10 DEF Restart
  <2>2. QED BY <1>2, <1>10, <2>1 DEF Restart, Tasks
<1>11. CASE ConnectionChanges \/ UNCHANGED vars
  BY <1>1, <1>2, <1>11 DEF ConnectionChanges, vars, tasks
<1>12. QED
  BY <1>3, <1>4, <1>5, <1>6, <1>7, <1>8, <1>9, <1>10, <1>11
  DEF Next, Writer, EventLoop, Mqtt, SetValue, Command

(* The mirror's state, as the refinement mapping computes it. *)
Source == [p \in Properties |-> publishValue(p, stored[p])]
Owed == {p \in Properties : Waiting(p)}
Taken == IF pc[Loop] = "publish" THEN <<cur[Loop], value>> ELSE <<>>

MirrorStep ==
  \/ UNCHANGED <<Source, published, Owed, Taken, fresh>>
  \/ \E i \in Properties :
       /\ \A other \in Properties \ {i} : Source'[other] = Source[other]
       /\ Owed' = Owed \union {i} /\ UNCHANGED <<published, Taken, fresh>>
  \/ \E i \in Properties :
       /\ i \in Owed /\ Owed' \in {Owed, Owed \ {i}} /\ UNCHANGED <<Source, published>>
       /\ \/ Taken = <<>> /\ Taken' = <<i, Source[i]>> /\ fresh' = fresh
          \/ fresh' = fresh \ {i} /\ Taken' = Taken
  \/ /\ Taken # <<>> /\ Taken' = <<>> /\ UNCHANGED <<Source, Owed>>
     /\ \/ /\ published' = [published EXCEPT ![Taken[1]] = Taken[2]]
           /\ fresh' = fresh \union {Taken[1]}
        \/ published' = published /\ fresh' = fresh \ {Taken[1]}
  \/ Owed' = {} /\ Taken' = <<>> /\ fresh' = {} /\ UNCHANGED <<Source, published>>

(* A reset forgets what is owed and what is on its way. *)
LEMMA RestartMaps ==
  ASSUME Restart
  PROVE  MirrorStep
<1>1. Owed' = {}
  <2>1. Len(queue') = 0 /\ \A t \in Tasks : pc'[t] = "idle"
    BY DEF Restart
  <2>2. QED BY <2>1 DEF Owed, Waiting, Tasks
<1>2. Taken' = <<>>
  BY BridgeAssumption DEF Restart, Taken, Tasks
<1>3. fresh' = {} /\ Source' = Source /\ published' = published
  BY DEF Restart, Source, publishValue
<1>4. QED BY <1>1, <1>2, <1>3 DEF MirrorStep

(* handleChanged pays the debt of its property. *)
LEMMA HandleMaps ==
  ASSUME TypeOK, Places, [Next]_vars, NEW p \in Properties, HandleChanged(p)
  PROVE  MirrorStep
<1> USE BridgeAssumption
<1>1. Dispatch(<<"CHANGED", p>>) /\ pc[Loop] = "idle" /\ Taken = <<>>
  BY DEF HandleChanged, Begin, Goto, Taken
<1>2. queue[1] = <<"CHANGED", p>> /\ Len(queue) \in Nat /\ Len(queue) >= 1
  BY <1>1, DispatchQueue DEF TypeOK
<1>3. p \in Owed /\ p \in m_properties
  BY <1>2 DEF Owed, Waiting, Places
<1>4. ~Restart
  BY <1>3 DEF HandleChanged, Restart, declared
<1>5. ASSUME NEW q \in Properties, q # p PROVE q \in Owed' <=> q \in Owed
  <2>1. ~HandleChanged(q)
    BY <1>1, <1>5 DEF HandleChanged, Dispatch
  <2>2. Waiting(q) => Waiting(q)'
    BY <1>4, <2>1, StillWaiting
  <2>3. ASSUME NEW t \in Writers \union {MqttTask}, NEW v \in Values, setValue(t, q, v) PROVE FALSE
    BY <2>3 DEF setValue, HandleChanged, Begin, Goto, TypeOK, Tasks
  <2>4. Waiting(q)' => Waiting(q)
    BY <2>3, WaitsForAWrite
  <2>5. QED BY <2>2, <2>4 DEF Owed
<1>6. Owed' \in {Owed, Owed \ {p}}
  BY <1>3, <1>5 DEF Owed
<1>7. Source' = Source /\ published' = published
  BY DEF HandleChanged, Source, publishValue
<1>8. CASE isVisibilityHidden(p) \/ ~m_isConnected
  <2>1. fresh' = fresh \ {p} /\ Taken' = Taken
    BY <1>8 DEF HandleChanged, Taken
  <2>2. QED BY <1>3, <1>6, <1>7, <2>1 DEF MirrorStep
<1>9. CASE ~(isVisibilityHidden(p) \/ ~m_isConnected)
  <2>1. /\ pc' = [pc EXCEPT ![Loop] = "publish"] /\ cur' = [cur EXCEPT ![Loop] = p]
        /\ value' = publishValue(p, stored[p]) /\ fresh' = fresh
    BY <1>9 DEF HandleChanged, Begin, Goto
  <2>2. Taken' = <<p, Source[p]>>
    BY <2>1 DEF Taken, TypeOK, Tasks, Source
  <2>3. QED BY <1>1, <1>3, <1>6, <1>7, <2>1, <2>2 DEF MirrorStep
<1>10. QED BY <1>8, <1>9

(* What the other steps leave alone. *)
LEMMA OwedKept ==
  ASSUME TypeOK, Places, [Next]_vars, ~Restart, \A p \in Properties : ~HandleChanged(p),
         NEW q \in Properties,
         \A t \in Writers \union {MqttTask}, v \in Values : ~setValue(t, q, v)
  PROVE  q \in Owed' <=> q \in Owed
BY StillWaiting, WaitsForAWrite DEF Owed

(* setValue leaves a debt. *)
LEMMA WriteMaps ==
  ASSUME TypeOK, Places, [Next]_vars, ~Restart, \A p \in Properties : ~HandleChanged(p),
         NEW t \in Writers \union {MqttTask}, NEW p \in Properties, NEW v \in Values,
         setValue(t, p, v), UNCHANGED <<value, output>>
  PROVE  MirrorStep
<1> USE BridgeAssumption
<1>1. p \in Owed'
  BY WriteWaits DEF Owed
<1>2. ASSUME NEW q \in Properties, q # p PROVE q \in Owed' <=> q \in Owed
  <2>1. \A u \in Writers \union {MqttTask}, w \in Values : ~setValue(u, q, w)
    BY <1>2 DEF setValue, Begin, Goto, TypeOK, Tasks
  <2>2. QED BY <2>1, OwedKept
<1>3. Owed' = Owed \union {p}
  BY <1>1, <1>2 DEF Owed
<1>4. \A other \in Properties \ {p} : Source'[other] = Source[other]
  BY DEF setValue, TypeOK, Source, publishValue
<1>5. Taken' = Taken
  BY DEF setValue, Begin, Goto, TypeOK, Tasks, Taken
<1>6. QED BY <1>3, <1>4, <1>5 DEF MirrorStep, output

(* The steps that neither write nor handle a write's event. *)
OtherStep ==
  \/ \E w \in Writers, p \in Properties : CreateProperty(w, p)
  \/ \E w \in Writers : PostRegistered(w) \/ Configure(w)
  \/ \E t \in Writers \union {MqttTask} : PostChanged(t)
  \/ \E p \in Properties : HandleRegistered(p)
  \/ Subscribe \/ Publish \/ ConnectionChanges \/ UNCHANGED vars

(* No other step writes. *)
LEMMA NoWrite ==
  ASSUME TypeOK, Places, NEW t \in Writers \union {MqttTask}, NEW q \in Properties, NEW v \in Values, OtherStep
  PROVE  ~setValue(t, q, v)
<1> USE BridgeAssumption DEF setValue, Begin, End, Goto, TypeOK, Tasks
<1>1. ASSUME NEW w \in Writers,
             PostRegistered(w) \/ Configure(w) \/ \E p \in Properties : CreateProperty(w, p)
      PROVE  ~setValue(t, q, v)
  BY <1>1 DEF CreateProperty, PostRegistered, Configure
<1>2. ASSUME NEW u \in Writers \union {MqttTask}, PostChanged(u)
      PROVE  ~setValue(t, q, v)
  BY <1>2 DEF PostChanged
<1>3. ASSUME NEW p \in Properties, HandleRegistered(p)
      PROVE  ~setValue(t, q, v)
  BY <1>3 DEF HandleRegistered
<1>4. CASE Subscribe \/ Publish
  BY <1>4 DEF Subscribe, Publish
<1>5. CASE ConnectionChanges \/ UNCHANGED vars
  BY <1>5 DEF ConnectionChanges, vars, tasks
<1>6. QED BY <1>1, <1>2, <1>3, <1>4, <1>5 DEF OtherStep

(* Every step of the bridge is a step of the mirror, or not seen by it. *)
LEMMA StepMaps ==
  ASSUME TypeOK, Places, [Next]_vars
  PROVE  MirrorStep
<1> USE BridgeAssumption
<1>1. CASE Restart
  BY <1>1, RestartMaps
<1>2. ASSUME NEW p \in Properties, HandleChanged(p) PROVE MirrorStep
  BY <1>2, HandleMaps
<1>3. ASSUME ~Restart, \A p \in Properties : ~HandleChanged(p) PROVE MirrorStep
  <2> USE <1>3
  <2>1. ASSUME NEW w \in Writers, NEW p \in Properties, NEW v \in Values, SetValue(w, p, v)
        PROVE  MirrorStep
    BY <2>1, WriteMaps DEF SetValue
  <2>2. ASSUME NEW p \in Properties, NEW v \in Values, Command(p, v) PROVE MirrorStep
    BY <2>2, WriteMaps DEF Command
  <2>3. CASE OtherStep
    <3>1. \A q \in Properties : q \in Owed' <=> q \in Owed
      BY <2>3, NoWrite, OwedKept
    <3>2. Owed' = Owed
      BY <3>1 DEF Owed
    <3>3. Source' = Source
      <4>1. stored' = stored
        BY <2>3 DEF OtherStep, CreateProperty, PostRegistered, Configure, PostChanged, HandleRegistered,
                    Subscribe, Publish, ConnectionChanges, vars
      <4>2. QED BY <4>1 DEF Source, publishValue
    <3>4. CASE Publish
      <4>1. /\ pc[Loop] = "publish" /\ pc' = [pc EXCEPT ![Loop] = "idle"]
            /\ \/ /\ published' = [published EXCEPT ![cur[Loop]] = value]
                  /\ fresh' = fresh \union {cur[Loop]}
               \/ fresh' = fresh \ {cur[Loop]} /\ published' = published
        BY <3>4 DEF Publish, End, Goto
      <4>2. Taken = <<cur[Loop], value>> /\ Taken' = <<>>
        BY <4>1 DEF Taken, TypeOK, Tasks
      <4>3. Taken # <<>> /\ Taken[1] = cur[Loop] /\ Taken[2] = value
        BY <4>2
      <4>4. QED BY <3>2, <3>3, <4>1, <4>2, <4>3 DEF MirrorStep
    <3>5. CASE ~Publish
      <4>1. UNCHANGED output
        BY <2>3, <3>5 DEF OtherStep, CreateProperty, PostRegistered, Configure, PostChanged, HandleRegistered,
                          Subscribe, ConnectionChanges, vars
      <4>2. Taken' = Taken
        <5>1. ASSUME pc'[Loop] = "publish"
              PROVE  pc[Loop] = "publish" /\ cur'[Loop] = cur[Loop] /\ value' = value
          BY <5>1, PublishBegins
        <5>2. ASSUME pc[Loop] = "publish" PROVE pc'[Loop] = "publish"
          BY <2>3, <3>5, <5>2 DEF OtherStep, CreateProperty, PostRegistered, Configure, PostChanged,
             HandleRegistered, Subscribe, ConnectionChanges, Begin, End, Goto, TypeOK, Tasks, vars, tasks
        <5>3. QED BY <5>1, <5>2 DEF Taken
      <4>3. QED BY <3>2, <3>3, <4>1, <4>2 DEF MirrorStep, output
    <3>6. QED BY <3>4, <3>5
  <2>4. QED BY <2>1, <2>2, <2>3 DEF Next, Writer, EventLoop, Mqtt, OtherStep
<1>4. QED BY <1>1, <1>2, <1>3

(* The bridge is a mirror: published values are read from the store, each    *)
(* for a write that has not been mirrored yet, and no write is forgotten.    *)
THEOREM BridgeIsMirror == Spec => ImplementsConfigMirror
<1>1. Init => Mirror!MirrorInit
  <2> SUFFICES ASSUME Init PROVE Mirror!MirrorInit
    OBVIOUS
  <2>1. Len(queue) = 0 /\ fresh = {} /\ \A t \in Tasks : pc[t] = "idle"
    BY DEF Init
  <2>2. QED BY <2>1, BridgeAssumption DEF Mirror!MirrorInit, Waiting, Tasks
<1>2. IInv /\ [Next]_vars => MirrorStep
  BY StepMaps DEF IInv
<1>3. MirrorStep => [Mirror!MirrorNext]_<<Source, published, Owed, Taken, fresh>>
  BY DEF MirrorStep, Mirror!MirrorNext, Mirror!Write, Mirror!Take, Mirror!Miss, Mirror!Pay,
         Mirror!Deliver, Mirror!Lose, Mirror!Crash, Source, Owed, Taken
<1>4. QED
  BY <1>1, <1>2, <1>3, BridgeInvariance, PTL
  DEF Spec, ImplementsConfigMirror, Mirror!MirrorSpec, Source, Owed, Taken

-----------------------------------------------------------------------------
(* A step of the event loop's task handles an event or ends the work on one. *)
LEMMA LoopShrinks ==
  ASSUME TypeOK, EventLoop
  PROVE  Backlog' \in 0..(Backlog - 1)
<1>0. Len(queue) \in Nat /\ Loop \in Tasks
  BY DEF TypeOK, Tasks
<1>1. ASSUME NEW p \in Properties, HandleRegistered(p) \/ HandleChanged(p)
      PROVE  Backlog' \in 0..(Backlog - 1)
  <2>1. PICK e : Dispatch(e)
    BY <1>1 DEF HandleRegistered, HandleChanged
  <2>2. PICK m \in Nat : Len(queue) = m + 1 /\ Len(queue') = m
    <3>1. Len(queue) >= 1 /\ Len(queue') = Len(queue) - 1
      BY <2>1, DispatchQueue
    <3>2. Len(queue) - 1 \in Nat /\ Len(queue) = (Len(queue) - 1) + 1
      BY <1>0, <3>1
    <3>3. QED BY <3>1, <3>2
  <2>3. pc[Loop] = "idle"
    BY <1>1 DEF HandleRegistered, HandleChanged
  <2>4. Backlog = 2 * m + 2
    BY <2>2, <2>3 DEF Backlog
  <2>5. Backlog' = 2 * m \/ Backlog' = 2 * m + 1
    BY <2>2 DEF Backlog
  <2>6. QED BY <2>4, <2>5
<1>2. CASE Subscribe \/ Publish
  <2>1. queue' = queue /\ pc[Loop] # "idle" /\ pc'[Loop] = "idle"
    BY <1>0, <1>2 DEF Subscribe, Publish, End, Goto, TypeOK
  <2>2. PICK m \in Nat : Len(queue) = m /\ Len(queue') = m
    BY <1>0, <2>1
  <2>3. Backlog = 2 * m + 1 /\ Backlog' = 2 * m
    BY <2>1, <2>2 DEF Backlog
  <2>4. QED BY <2>3
<1>3. QED BY <1>1, <1>2 DEF EventLoop

(* A full queue is served, for any number of writers and any length of it:   *)
(* the cycle of lock and queue is the only way for a post to wait in vain.   *)
THEOREM OnlyTheCycleStopsTheLoop == Spec => LoopServesPosts
<1>1. IInv => (Len(queue) = QueueSize => LoopReady \/ LockCycle)
  <2> SUFFICES ASSUME TypeOK, Places, Len(queue) = QueueSize, ~LoopReady
               PROVE  LockCycle
    BY DEF IInv
  <2>1. pc[Loop] # "idle"
    BY BridgeAssumption DEF LoopReady
  <2>2. pc[MqttTask] # "idle"
    BY <2>1 DEF LoopReady, ApiLockFree
  <2>3. QED BY <2>1, <2>2 DEF LockCycle, Places
<1>2. IInv /\ [Next]_vars => [EventLoop => Backlog' \in 0..(Backlog - 1)]_vars
  BY LoopShrinks DEF IInv
<1>3. QED BY <1>1, <1>2, BridgeInvariance, PTL DEF Spec, LoopServesPosts
=============================================================================
