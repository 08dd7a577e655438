---------------------------- MODULE Station_proofs ----------------------------
(***************************************************************************)
(* For every length of the event queue, width of the error counter and     *)
(* limit: types, the credentials, the status shown and the services.       *)
(***************************************************************************)
EXTENDS Station, SequenceTheorems, TLAPS

MainPlaces == {"fs", "http", "wifi", "provision", "start", "connect", "config", "mqtt",
               "time", "timezone", "app"}
LoopPlaces == {"idle", "got_web", "got_wifi", "got_mqtt", "init_client", "got_time",
               "disconnected", "reconnect", "countdown"}
States == {"PROVISIONING", "CONNECTING", "CONNECTED", "DISCONNECTED"}

(* A task moves, the others stay. *)
LEMMA GotoMain ==
  ASSUME TypeOK, NEW from, NEW to \in MainPlaces, Goto("main", from, to)
  PROVE  /\ pc' \in [main : MainPlaces, loop : LoopPlaces, mqtt : {"idle", "post"}]
         /\ pc["main"] = from /\ pc'["main"] = to
         /\ pc'["loop"] = pc["loop"] /\ pc'["mqtt"] = pc["mqtt"]
BY DEF TypeOK, Goto, MainPlaces, LoopPlaces

LEMMA GotoLoop ==
  ASSUME TypeOK, NEW from, NEW to \in LoopPlaces, Goto("loop", from, to)
  PROVE  /\ pc' \in [main : MainPlaces, loop : LoopPlaces, mqtt : {"idle", "post"}]
         /\ pc["loop"] = from /\ pc'["loop"] = to
         /\ pc'["main"] = pc["main"] /\ pc'["mqtt"] = pc["mqtt"]
BY DEF TypeOK, Goto, MainPlaces, LoopPlaces

LEMMA GotoMqtt ==
  ASSUME TypeOK, NEW from, NEW to \in {"idle", "post"}, Goto("mqtt", from, to)
  PROVE  /\ pc' \in [main : MainPlaces, loop : LoopPlaces, mqtt : {"idle", "post"}]
         /\ pc["mqtt"] = from /\ pc'["mqtt"] = to
         /\ pc'["main"] = pc["main"] /\ pc'["loop"] = pc["loop"]
BY DEF TypeOK, Goto, MainPlaces, LoopPlaces

(* The queue keeps within its length. *)
LEMMA PostTypes ==
  ASSUME TypeOK, NEW e \in Events, Post(e)
  PROVE  queue' \in Seq(Events) /\ Len(queue') <= QueueSize
BY StationAssumption DEF TypeOK, Post, HasRoom

LEMMA PostStatusTypes ==
  ASSUME TypeOK, NEW source \in Sources, NEW state \in States, PostStatus(source, state)
  PROVE  queue' \in Seq(Events) /\ Len(queue') <= QueueSize /\ dropped' \subseteq Sources
<1>1. [name |-> "STATUS", source |-> source, state |-> state] \in Events
  BY DEF Events, States
<1>2. QED BY <1>1, PostTypes DEF TypeOK, PostStatus

LEMMA DispatchTypes ==
  ASSUME TypeOK, NEW name, NEW to \in LoopPlaces, Dispatch(name, to)
  PROVE  /\ queue' \in Seq(Events) /\ Len(queue') <= QueueSize
         /\ Head(queue) \in Events /\ Head(queue).name = name
         /\ pc' \in [main : MainPlaces, loop : LoopPlaces, mqtt : {"idle", "post"}]
BY GotoLoop, StationAssumption DEF TypeOK, Dispatch

(* Whatever sets the RAM as Init and Restart do is typed. *)
LEMMA FreshTypes ==
  /\ [main |-> "fs", loop |-> "idle", mqtt |-> "idle"]
       \in [main : MainPlaces, loop : LoopPlaces, mqtt : {"idle", "post"}]
  /\ <<>> \in Seq(Events) /\ Len(<<>>) <= QueueSize
  /\ [wifi |-> "DISCONNECTED", mqtt |-> "DISCONNECTED"] \in [Sources -> States]
<1>1. [wifi |-> "DISCONNECTED", mqtt |-> "DISCONNECTED"] = [s \in Sources |-> "DISCONNECTED"]
  BY DEF Sources
<1>2. QED BY <1>1, StationAssumption DEF MainPlaces, LoopPlaces, States

LEMMA RestartTypes == TypeOK /\ Restart => TypeOK'
<1> SUFFICES ASSUME TypeOK, Restart PROVE TypeOK'
  OBVIOUS
<1>1. 0 \in 0..(CounterRange - 1) /\ ClientProperties \in 0..ClientProperties
      /\ 0 \in 0..RESET_WIFI_AFTER_ERROR_COUNT
  BY StationAssumption
<1>2. QED BY <1>1, FreshTypes DEF TypeOK, Restart, MainPlaces, LoopPlaces, States

-----------------------------------------------------------------------------
(* Every step keeps the types.  First the boot on the main task. *)
LEMMA MainTypes == TypeOK /\ Main => TypeOK'
<1> SUFFICES ASSUME TypeOK, Main PROVE TypeOK'
  OBVIOUS
<1> USE DEF TypeOK, MainPlaces, LoopPlaces
<1>1. CASE InitFs
  BY <1>1, GotoMain DEF InitFs, services, history
<1>2. CASE InitHttp
  BY <1>2, GotoMain DEF InitHttp, Register, Components, radio, services, history
<1>3. CASE InitWifi
  BY <1>3, GotoMain DEF InitWifi, Register, Components, radio, services, history
<1>4. CASE StartProvisioning
  BY <1>4, GotoMain, PostStatusTypes DEF StartProvisioning, services, Sources, States
<1>5. CASE PostConnecting
  BY <1>5, GotoMain, PostStatusTypes DEF PostConnecting, radio, services, Sources, States
<1>6. CASE StartStation
  BY <1>6, GotoMain DEF StartStation, services, history
<1>7. CASE InitConfig
  BY <1>7, GotoMain DEF InitConfig, radio, services, history
<1>8. CASE InitMqtt
  BY <1>8, GotoMain DEF InitMqtt, Register, Components, radio, services, history
<1>9. CASE InitTime
  BY <1>9, GotoMain DEF InitTime, Register, Components, radio, services, history
<1>10. CASE CreateProperty
  <2>1. Event("PROPERTY") \in Events
    BY DEF Event, Events
  <2>2. QED BY <1>10, <2>1, PostTypes DEF CreateProperty, radio, services, history
<1>11. QED BY <1>1, <1>2, <1>3, <1>4, <1>5, <1>6, <1>7, <1>8, <1>9, <1>10 DEF Main

LEMMA LoopTypes == TypeOK /\ Loop => TypeOK'
<1> SUFFICES ASSUME TypeOK, Loop PROVE TypeOK'
  OBVIOUS
<1> USE DEF TypeOK, MainPlaces, LoopPlaces
<1>1. CASE GotIp
  BY <1>1, DispatchTypes DEF GotIp, radio, services
<1>2. CASE CountDisconnect \/ ResetCredentials
  <2>1. /\ wifi_connect_error_count' \in 0..(CounterRange - 1)
        /\ failures' \in 0..RESET_WIFI_AFTER_ERROR_COUNT
    BY <1>2, StationAssumption
    DEF CountDisconnect, ResetCredentials, CountFailure, Count
  <2>2. CASE CountDisconnect
    BY <2>1, <2>2, DispatchTypes DEF CountDisconnect, CountFailure, services
  <2>3. CASE ResetCredentials
    BY <2>1, <2>3, DispatchTypes DEF ResetCredentials, CountFailure, services
  <2>4. QED BY <1>2, <2>2, <2>3
<1>3. CASE ShowStatus
  <2>1. Head(queue).source \in Sources /\ Head(queue).state \in States
    BY <1>3, DispatchTypes DEF ShowStatus, Events, States
  <2>2. QED BY <1>3, <2>1, DispatchTypes DEF ShowStatus, radio, services, history, States
<1>4. CASE HandleProperty
  BY <1>4, DispatchTypes DEF HandleProperty, radio, services, history
<1>5. CASE GotIpWeb
  BY <1>5, GotoLoop DEF GotIpWeb, radio, history
<1>6. CASE GotIpWifi
  BY <1>6, GotoLoop, PostStatusTypes, StationAssumption
  DEF GotIpWifi, radio, services, Sources, States
<1>7. CASE GotIpMqtt
  BY <1>7, GotoLoop, StationAssumption DEF GotIpMqtt, radio, services, history
<1>8. CASE CreateClientProperty
  <2>1. Event("PROPERTY") \in Events
    BY DEF Event, Events
  <2>2. queue' \in Seq(Events) /\ Len(queue') <= QueueSize
    BY <1>8, <2>1, PostTypes DEF CreateClientProperty
  <2>3. properties' \in 0..ClientProperties
    BY <1>8, StationAssumption DEF CreateClientProperty
  <2>4. QED BY <1>8, <2>2, <2>3, GotoLoop DEF CreateClientProperty, radio, history
<1>9. CASE StartMqttClient
  BY <1>9, GotoLoop DEF StartMqttClient, radio, history
<1>10. CASE GotIpTime
  BY <1>10, GotoLoop DEF GotIpTime, radio, history
<1>11. CASE PostDisconnected
  BY <1>11, GotoLoop, PostStatusTypes DEF PostDisconnected, radio, services, Sources, States
<1>12. CASE Reconnect
  BY <1>12, GotoLoop DEF Reconnect, services, history
<1>13. CASE CountedDown
  BY <1>13, RestartTypes DEF CountedDown
<1>14. QED
  BY <1>1, <1>2, <1>3, <1>4, <1>5, <1>6, <1>7, <1>8, <1>9, <1>10, <1>11, <1>12, <1>13
  DEF Loop, LoopWork

LEMMA NextTypes == TypeOK /\ [Next]_vars => TypeOK'
<1> SUFFICES ASSUME TypeOK, [Next]_vars PROVE TypeOK'
  OBVIOUS
<1>1. CASE Main \/ Loop
  BY <1>1, MainTypes, LoopTypes
<1> USE DEF TypeOK, MainPlaces, LoopPlaces
<1>2. CASE OnMqttConnected
  BY <1>2, GotoMqtt DEF OnMqttConnected, radio, history
<1>3. CASE OnMqttDisconnected
  BY <1>3, GotoMqtt DEF OnMqttDisconnected, radio, history
<1>4. CASE PostMqtt
  BY <1>4, GotoMqtt, PostStatusTypes DEF PostMqtt, radio, services, Sources, States
<1>5. CASE Associate
  <2>1. Event("GOT_IP") \in Events
    BY DEF Event, Events
  <2>2. queue' \in Seq(Events) /\ Len(queue') <= QueueSize /\ dropped' \subseteq Sources
    BY <1>5, <2>1, PostTypes DEF Associate, Sources
  <2>3. QED BY <1>5, <2>2 DEF Associate, services
<1>6. CASE Disconnect
  <2>1. Event("STA_DISCONNECTED") \in Events
    BY DEF Event, Events
  <2>2. QED BY <1>6, <2>1, PostTypes DEF Disconnect, services, history
<1>7. CASE Provision
  BY <1>7 DEF Provision, services, history
<1>8. CASE PowerCycle
  BY <1>8, RestartTypes DEF PowerCycle
<1>9. CASE UNCHANGED vars
  BY <1>9 DEF vars, radio, services, history
<1>10. QED
  BY <1>1, <1>2, <1>3, <1>4, <1>5, <1>6, <1>7, <1>8, <1>9 DEF Next, Mqtt, Driver

-----------------------------------------------------------------------------
(* What a queue of events will bring about. *)

IsRadio(e) == e.name \in {"GOT_IP", "STA_DISCONNECTED"}
IsStatus(e, source) == e.name = "STATUS" /\ e.source = source

NoRadio(q) == \A i \in 1..Len(q) : ~IsRadio(q[i])

NoDisconnect(q) == \A i \in 1..Len(q) : q[i].name # "STA_DISCONNECTED"

(* One disconnect, and nothing from the radio behind it. *)
DisconnectLast(q) ==
  \E i \in 1..Len(q) :
    /\ q[i].name = "STA_DISCONNECTED"
    /\ \A j \in 1..Len(q) : /\ j > i => ~IsRadio(q[j])
                            /\ j < i => q[j].name # "STA_DISCONNECTED"

(* Status shows source as connected once q, or what it shows now, is handled. *)
WillShow(q, shown, source) ==
  \/ \E i \in 1..Len(q) :
       /\ IsStatus(q[i], source) /\ q[i].state = "CONNECTED"
       /\ \A j \in 1..Len(q) : j > i => ~IsStatus(q[j], source)
  \/ (\A i \in 1..Len(q) : ~IsStatus(q[i], source)) /\ shown = "CONNECTED"

LEMMA AppendIs ==
  ASSUME NEW q \in Seq(Events), NEW e
  PROVE  LET r == Append(q, e)
         IN  /\ Len(r) = Len(q) + 1 /\ Len(q) \in Nat /\ r[Len(q) + 1] = e
             /\ \A i \in 1..Len(q) : r[i] = q[i]
             /\ \A i : i \in 1..Len(r) <=> i \in 1..Len(q) \/ i = Len(q) + 1
<1>1. Len(q) \in Nat /\ Len(Append(q, e)) = Len(q) + 1
  OBVIOUS
<1>2. \A i \in 1..Len(q) : Append(q, e)[i] = q[i]
  OBVIOUS
<1>3. Append(q, e)[Len(q) + 1] = e
  OBVIOUS
<1>4. QED BY <1>1, <1>2, <1>3

LEMMA TailIs ==
  ASSUME NEW q \in Seq(Events), q # <<>>
  PROVE  LET r == Tail(q)
         IN  /\ Len(r) = Len(q) - 1 /\ Len(q) \in Nat /\ Len(q) > 0 /\ Head(q) = q[1]
             /\ \A i \in 1..Len(r) : r[i] = q[i + 1]
OBVIOUS

LEMMA AppendRadio ==
  ASSUME NEW q \in Seq(Events), NEW e
  PROVE  /\ NoRadio(Append(q, e)) <=> NoRadio(q) /\ ~IsRadio(e)
         /\ NoDisconnect(Append(q, e)) <=> NoDisconnect(q) /\ e.name # "STA_DISCONNECTED"
         /\ ~IsRadio(e) => (DisconnectLast(q) => DisconnectLast(Append(q, e)))
         /\ e.name = "STA_DISCONNECTED" /\ NoDisconnect(q) => DisconnectLast(Append(q, e))
<1> DEFINE r == Append(q, e)
<1>1. /\ Len(r) = Len(q) + 1 /\ Len(q) \in Nat /\ r[Len(q) + 1] = e
      /\ \A i \in 1..Len(q) : r[i] = q[i]
      /\ \A i : i \in 1..Len(r) <=> i \in 1..Len(q) \/ i = Len(q) + 1
  BY AppendIs
<1> HIDE DEF r
<1>2. NoRadio(r) <=> NoRadio(q) /\ ~IsRadio(e)
  BY <1>1 DEF NoRadio
<1>3. NoDisconnect(r) <=> NoDisconnect(q) /\ e.name # "STA_DISCONNECTED"
  BY <1>1 DEF NoDisconnect
<1>4. ASSUME ~IsRadio(e), DisconnectLast(q)
      PROVE  DisconnectLast(r)
  BY <1>1, <1>4 DEF DisconnectLast, IsRadio
<1>5. ASSUME e.name = "STA_DISCONNECTED", NoDisconnect(q)
      PROVE  DisconnectLast(r)
  <2>1. r[Len(q) + 1].name = "STA_DISCONNECTED" /\ Len(q) + 1 \in 1..Len(r)
    BY <1>1, <1>5
  <2>2. \A j \in 1..Len(r) : ~(j > Len(q) + 1) /\ (j < Len(q) + 1 => r[j].name # "STA_DISCONNECTED")
    BY <1>1, <1>5 DEF NoDisconnect
  <2>3. QED BY <2>1, <2>2 DEF DisconnectLast
<1>6. QED BY <1>2, <1>3, <1>4, <1>5 DEF r

LEMMA TailRadio ==
  ASSUME NEW q \in Seq(Events), q # <<>>
  PROVE  /\ NoRadio(q) => NoRadio(Tail(q))
         /\ ~IsRadio(Head(q)) => (NoRadio(Tail(q)) => NoRadio(q))
         /\ NoDisconnect(q) => NoDisconnect(Tail(q)) /\ Head(q).name # "STA_DISCONNECTED"
         /\ DisconnectLast(q) =>
              IF Head(q).name = "STA_DISCONNECTED" THEN NoRadio(Tail(q))
                                                   ELSE DisconnectLast(Tail(q))
         /\ NoRadio(q) => ~IsRadio(Head(q))
<1> DEFINE r == Tail(q)
<1>1. /\ Len(r) = Len(q) - 1 /\ Len(q) \in Nat /\ Len(q) > 0 /\ Head(q) = q[1]
      /\ \A i \in 1..Len(r) : r[i] = q[i + 1]
  BY TailIs
<1> HIDE DEF r
<1>2. /\ NoRadio(q) => NoRadio(r)
      /\ NoRadio(q) => ~IsRadio(Head(q))
  BY <1>1 DEF NoRadio
<1>3. ASSUME ~IsRadio(Head(q)), NoRadio(r)
      PROVE  NoRadio(q)
  <2>1. SUFFICES ASSUME NEW i \in 1..Len(q) PROVE ~IsRadio(q[i])
    BY DEF NoRadio
  <2>2. CASE i = 1
    BY <2>2, <1>1, <1>3
  <2>3. CASE i # 1
    <3>1. i - 1 \in 1..Len(r) /\ r[i - 1] = q[i]
      BY <2>3, <1>1
    <3>2. QED BY <3>1, <1>3 DEF NoRadio
  <2>4. QED BY <2>2, <2>3
<1>4. NoDisconnect(q) => NoDisconnect(r) /\ Head(q).name # "STA_DISCONNECTED"
  BY <1>1 DEF NoDisconnect
<1>5. ASSUME DisconnectLast(q)
      PROVE  IF Head(q).name = "STA_DISCONNECTED" THEN NoRadio(r) ELSE DisconnectLast(r)
  <2>1. PICK i \in 1..Len(q) :
          /\ q[i].name = "STA_DISCONNECTED"
          /\ \A j \in 1..Len(q) : /\ j > i => ~IsRadio(q[j])
                                  /\ j < i => q[j].name # "STA_DISCONNECTED"
    BY <1>5 DEF DisconnectLast
  <2>2. CASE Head(q).name = "STA_DISCONNECTED"
    <3>1. i = 1
      BY <1>1, <2>1, <2>2
    <3>2. NoRadio(r)
      BY <3>1, <2>1, <1>1 DEF NoRadio
    <3>3. QED BY <2>2, <3>2
  <2>3. CASE Head(q).name # "STA_DISCONNECTED"
    <3>1. i - 1 \in 1..Len(r) /\ r[i - 1].name = "STA_DISCONNECTED"
      BY <1>1, <2>1, <2>3
    <3>2. \A j \in 1..Len(r) : /\ j > i - 1 => ~IsRadio(r[j])
                               /\ j < i - 1 => r[j].name # "STA_DISCONNECTED"
      BY <1>1, <2>1
    <3>3. DisconnectLast(r)
      BY <3>1, <3>2 DEF DisconnectLast
    <3>4. QED BY <2>3, <3>3
  <2>4. QED BY <2>2, <2>3
<1>6. QED BY <1>2, <1>3, <1>4, <1>5 DEF r

LEMMA AppendShows ==
  ASSUME NEW q \in Seq(Events), NEW e, NEW shown, NEW source
  PROVE  WillShow(Append(q, e), shown, source) <=>
           IF IsStatus(e, source) THEN e.state = "CONNECTED" ELSE WillShow(q, shown, source)
<1> DEFINE r == Append(q, e)
<1>1. /\ Len(r) = Len(q) + 1 /\ Len(q) \in Nat /\ r[Len(q) + 1] = e
      /\ \A i \in 1..Len(q) : r[i] = q[i]
      /\ \A i : i \in 1..Len(r) <=> i \in 1..Len(q) \/ i = Len(q) + 1
  BY AppendIs
<1> HIDE DEF r
<1>2. CASE IsStatus(e, source)
  <2>1. Len(q) + 1 \in 1..Len(r) /\ \A j \in 1..Len(r) : ~(j > Len(q) + 1)
    BY <1>1
  <2>2. ~(\A i \in 1..Len(r) : ~IsStatus(r[i], source))
    BY <1>1, <1>2, <2>1
  <2>3. ASSUME NEW i \in 1..Len(r), i # Len(q) + 1
        PROVE  ~(\A j \in 1..Len(r) : j > i => ~IsStatus(r[j], source))
    BY <1>1, <1>2, <2>1, <2>3
  <2>4. WillShow(r, shown, source) <=> e.state = "CONNECTED"
    BY <1>1, <1>2, <2>1, <2>2, <2>3 DEF WillShow
  <2>5. QED BY <1>2, <2>4 DEF r
<1>3. CASE ~IsStatus(e, source)
  <2>1. (\A i \in 1..Len(r) : ~IsStatus(r[i], source))
          <=> (\A i \in 1..Len(q) : ~IsStatus(q[i], source))
    BY <1>1, <1>3
  <2>2. ASSUME NEW i \in 1..Len(q)
        PROVE  (\A j \in 1..Len(r) : j > i => ~IsStatus(r[j], source))
                 <=> (\A j \in 1..Len(q) : j > i => ~IsStatus(q[j], source))
    BY <1>1, <1>3
  <2>3. WillShow(r, shown, source) <=> WillShow(q, shown, source)
    BY <1>1, <1>3, <2>1, <2>2 DEF WillShow
  <2>4. QED BY <1>3, <2>3 DEF r
<1>4. QED BY <1>2, <1>3

LEMMA TailShows ==
  ASSUME NEW q \in Seq(Events), q # <<>>, NEW shown, NEW source
  PROVE  WillShow(Tail(q), IF IsStatus(Head(q), source) THEN Head(q).state ELSE shown, source)
           <=> WillShow(q, shown, source)
<1> DEFINE r == Tail(q)
           now == IF IsStatus(Head(q), source) THEN Head(q).state ELSE shown
<1>1. /\ Len(r) = Len(q) - 1 /\ Len(q) \in Nat /\ Len(q) > 0 /\ Head(q) = q[1]
      /\ \A i \in 1..Len(r) : r[i] = q[i + 1]
  BY TailIs
<1>2. now = IF IsStatus(q[1], source) THEN q[1].state ELSE shown
  BY <1>1
<1>3. \A i \in 2..Len(q) : i - 1 \in 1..Len(r) /\ r[i - 1] = q[i]
  BY <1>1
<1> HIDE DEF r, now
<1>4. ASSUME NEW i \in 1..Len(r)
      PROVE  (\A j \in 1..Len(r) : j > i => ~IsStatus(r[j], source))
               <=> (\A j \in 1..Len(q) : j > i + 1 => ~IsStatus(q[j], source))
  <2>1. ASSUME \A j \in 1..Len(r) : j > i => ~IsStatus(r[j], source),
               NEW j \in 1..Len(q), j > i + 1
        PROVE  ~IsStatus(q[j], source)
    <3>1. j \in 2..Len(q) /\ j - 1 > i
      BY <1>1, <1>4, <2>1
    <3>2. QED BY <2>1, <3>1, <1>3
  <2>2. ASSUME \A j \in 1..Len(q) : j > i + 1 => ~IsStatus(q[j], source),
               NEW j \in 1..Len(r), j > i
        PROVE  ~IsStatus(r[j], source)
    <3>1. j + 1 \in 1..Len(q) /\ j + 1 > i + 1 /\ r[j] = q[j + 1]
      BY <1>1, <1>4, <2>2
    <3>2. QED BY <2>2, <3>1
  <2>3. QED BY <2>1, <2>2
<1>5. (\A i \in 1..Len(r) : ~IsStatus(r[i], source))
        <=> (\A j \in 1..Len(q) : j > 1 => ~IsStatus(q[j], source))
  <2>1. ASSUME \A i \in 1..Len(r) : ~IsStatus(r[i], source), NEW j \in 1..Len(q), j > 1
        PROVE  ~IsStatus(q[j], source)
    <3>1. j \in 2..Len(q)
      BY <1>1, <2>1
    <3>2. QED BY <2>1, <3>1, <1>3
  <2>2. ASSUME \A j \in 1..Len(q) : j > 1 => ~IsStatus(q[j], source), NEW i \in 1..Len(r)
        PROVE  ~IsStatus(r[i], source)
    <3>1. i + 1 \in 1..Len(q) /\ i + 1 > 1 /\ r[i] = q[i + 1]
      BY <1>1, <2>2
    <3>2. QED BY <2>2, <3>1
  <2>3. QED BY <2>1, <2>2
<1>6. ASSUME WillShow(r, now, source)
      PROVE  WillShow(q, shown, source)
  <2>1. CASE \E i \in 1..Len(r) :
               /\ IsStatus(r[i], source) /\ r[i].state = "CONNECTED"
               /\ \A j \in 1..Len(r) : j > i => ~IsStatus(r[j], source)
    <3>1. PICK i \in 1..Len(r) :
            /\ IsStatus(r[i], source) /\ r[i].state = "CONNECTED"
            /\ \A j \in 1..Len(r) : j > i => ~IsStatus(r[j], source)
      BY <2>1
    <3>2. i + 1 \in 1..Len(q) /\ r[i] = q[i + 1]
      BY <1>1
    <3>3. QED BY <3>1, <3>2, <1>4 DEF WillShow
  <2>2. CASE (\A i \in 1..Len(r) : ~IsStatus(r[i], source)) /\ now = "CONNECTED"
    <3>1. \A j \in 1..Len(q) : j > 1 => ~IsStatus(q[j], source)
      BY <2>2, <1>5
    <3>2. 1 \in 1..Len(q)
      BY <1>1
    <3>3. CASE IsStatus(q[1], source)
      BY <3>1, <3>2, <3>3, <2>2, <1>2 DEF WillShow
    <3>4. CASE ~IsStatus(q[1], source)
      <4>1. \A j \in 1..Len(q) : ~IsStatus(q[j], source)
        BY <3>1, <3>4, <1>1
      <4>2. QED BY <4>1, <3>4, <2>2, <1>2 DEF WillShow
    <3>5. QED BY <3>3, <3>4
  <2>3. QED BY <1>6, <2>1, <2>2 DEF WillShow
<1>7. ASSUME WillShow(q, shown, source)
      PROVE  WillShow(r, now, source)
  <2>1. CASE \E i \in 1..Len(q) :
               /\ IsStatus(q[i], source) /\ q[i].state = "CONNECTED"
               /\ \A j \in 1..Len(q) : j > i => ~IsStatus(q[j], source)
    <3>1. PICK i \in 1..Len(q) :
            /\ IsStatus(q[i], source) /\ q[i].state = "CONNECTED"
            /\ \A j \in 1..Len(q) : j > i => ~IsStatus(q[j], source)
      BY <2>1
    <3>2. CASE i = 1
      BY <3>1, <3>2, <1>2, <1>5 DEF WillShow
    <3>3. CASE i # 1
      <4>1. i \in 2..Len(q) /\ i = (i - 1) + 1
        BY <3>3, <1>1
      <4>2. PICK k \in 1..Len(r) : i = k + 1 /\ r[k] = q[i]
        BY <4>1, <1>3
      <4>3. QED BY <3>1, <4>2, <1>4 DEF WillShow
    <3>4. QED BY <3>2, <3>3
  <2>2. CASE (\A i \in 1..Len(q) : ~IsStatus(q[i], source)) /\ shown = "CONNECTED"
    <3>1. ~IsStatus(q[1], source)
      BY <2>2, <1>1
    <3>2. QED BY <3>1, <2>2, <1>2, <1>5 DEF WillShow
  <2>3. QED BY <1>7, <2>1, <2>2 DEF WillShow
<1>8. QED BY <1>6, <1>7 DEF r, now

-----------------------------------------------------------------------------
(* The credentials.  The counter, which wraps, is a lower bound of the       *)
(* failures in a row until those have reached the limit.                     *)
FailInv ==
  failures = RESET_WIFI_AFTER_ERROR_COUNT \/ wifi_connect_error_count <= failures

LEMMA CountIs ==
  ASSUME TypeOK
  PROVE  Count = IF wifi_connect_error_count + 1 = CounterRange THEN 0
                                                               ELSE wifi_connect_error_count + 1
<1>1. wifi_connect_error_count \in Nat /\ wifi_connect_error_count < CounterRange
      /\ CounterRange \in Nat
  BY StationAssumption DEF TypeOK
<1>2. CASE wifi_connect_error_count + 1 = CounterRange
  BY <1>1, <1>2 DEF Count
<1>3. CASE wifi_connect_error_count + 1 # CounterRange
  BY <1>1, <1>3 DEF Count
<1>4. QED BY <1>2, <1>3

LEMMA FailStep == TypeOK /\ FailInv /\ [Next]_vars => FailInv'
<1> SUFFICES ASSUME TypeOK, FailInv, [Next]_vars PROVE FailInv'
  OBVIOUS
<1>1. CASE \E to \in {"disconnected", "countdown"} : CountFailure(to)
  <2>1. wifi_connect_error_count' = Count
        /\ failures' = IF failures < RESET_WIFI_AFTER_ERROR_COUNT THEN failures + 1 ELSE failures
    BY <1>1 DEF CountFailure
  <2>2. wifi_connect_error_count \in Nat /\ failures \in 0..RESET_WIFI_AFTER_ERROR_COUNT
    BY DEF TypeOK
  <2>3. QED BY <2>1, <2>2, CountIs, StationAssumption DEF FailInv
<1>2. CASE GotIpWifi \/ Restart
  BY <1>2 DEF GotIpWifi, Restart, FailInv
<1>3. CASE UNCHANGED <<wifi_connect_error_count, failures>>
  BY <1>3 DEF FailInv
<1>4. QED
  BY <1>1, <1>2, <1>3
  DEF Next, Main, Loop, LoopWork, Mqtt, Driver, InitFs, InitHttp, InitWifi, StartProvisioning,
      PostConnecting, StartStation, InitConfig, InitMqtt, InitTime, CreateProperty, GotIp,
      GotIpWeb, GotIpMqtt, CreateClientProperty, StartMqttClient, GotIpTime, CountDisconnect,
      ResetCredentials, PostDisconnected, Reconnect, CountedDown, PowerCycle, ShowStatus,
      HandleProperty, OnMqttConnected, OnMqttDisconnected, PostMqtt, Associate, Disconnect,
      Provision, vars, radio, services, history

LEMMA KeptStep ==
  ASSUME TypeOK, FailInv, [Next]_vars, creds # "none", creds' = "none"
  PROVE  pc["main"] = "fs" \/ failures' = RESET_WIFI_AFTER_ERROR_COUNT
<1>1. CASE InitFs
  BY <1>1 DEF InitFs, Goto
<1>2. CASE ResetCredentials
  <2>1. Count = RESET_WIFI_AFTER_ERROR_COUNT
        /\ failures' = IF failures < RESET_WIFI_AFTER_ERROR_COUNT THEN failures + 1 ELSE failures
    BY <1>2 DEF ResetCredentials, CountFailure
  <2>2. wifi_connect_error_count \in Nat /\ failures \in 0..RESET_WIFI_AFTER_ERROR_COUNT
    BY DEF TypeOK
  <2>3. QED BY <2>1, <2>2, CountIs, StationAssumption DEF FailInv
<1>3. CASE UNCHANGED creds \/ creds' \in {"good", "bad"}
  BY <1>3
<1>4. QED
  BY <1>1, <1>2, <1>3
  DEF Next, Main, Loop, LoopWork, Mqtt, Driver, InitHttp, InitWifi, StartProvisioning,
      PostConnecting, StartStation, InitConfig, InitMqtt, InitTime, CreateProperty, GotIp,
      GotIpWeb, GotIpWifi, GotIpMqtt, CreateClientProperty, StartMqttClient, GotIpTime,
      CountDisconnect, PostDisconnected, Reconnect, CountedDown, PowerCycle, Restart, ShowStatus,
      HandleProperty, OnMqttConnected, OnMqttDisconnected, PostMqtt, Associate, Disconnect,
      Provision, vars, radio, services, history

LEMMA InitTypes == Init => TypeOK /\ FailInv
<1> SUFFICES ASSUME Init PROVE TypeOK /\ FailInv
  OBVIOUS
<1>1. 0 \in 0..(CounterRange - 1) /\ ClientProperties \in 0..ClientProperties
      /\ 0 \in 0..RESET_WIFI_AFTER_ERROR_COUNT
  BY StationAssumption
<1>2. TypeOK
  BY <1>1, FreshTypes DEF TypeOK, Init, MainPlaces, LoopPlaces, States
<1>3. FailInv
  BY DEF Init, FailInv
<1>4. QED BY <1>2, <1>3

(* Types hold in every reachable state. *)
THEOREM StationTypes == Spec => []TypeOK
<1>1. QED BY InitTypes, NextTypes, PTL DEF Spec

(* Wifip::on_wifi_disconnect wipes the credentials only after the limit of   *)
(* failures in a row, whatever the counter's width.                          *)
THEOREM StationKeepsCredentials == Spec => CredentialsKept
<1>1. TypeOK /\ FailInv /\ [Next]_vars =>
        [creds # "none" /\ creds' = "none" =>
           pc["main"] = "fs" \/ failures' = RESET_WIFI_AFTER_ERROR_COUNT]_vars
  BY KeptStep
<1>2. QED BY <1>1, InitTypes, NextTypes, FailStep, PTL DEF Spec, CredentialsKept

-----------------------------------------------------------------------------
(* What the queue and the tasks' places say of the radio and the status.     *)

Down == {"disconnected", "reconnect", "countdown"}
Serving == {"got_web", "got_wifi", "got_mqtt", "init_client", "got_time"}
Booting == {"fs", "http", "wifi", "provision", "start", "connect"}

(* The driver is off until the boot starts it, and what it last did is the   *)
(* last radio event that the loop has not yet handled to its end.            *)
DriverInv ==
  /\ pc["main"] \in Booting => driver = "off"
  /\ driver = "up" => NoDisconnect(queue) /\ pc["loop"] \notin Down
  /\ driver = "down" => \/ DisconnectLast(queue) /\ pc["loop"] \notin Down
                        \/ NoRadio(queue) /\ pc["loop"] \in Down
  /\ driver \notin {"up", "down"} =>
       NoRadio(queue) /\ pc["loop"] \notin Down \union {"got_web", "got_wifi"}

(* Without a radio event on its way, Status will show what there is. *)
WifiShown ==
  /\ "wifi" \notin dropped /\ NoRadio(queue)
  /\ pc["loop"] \notin {"got_web", "got_wifi", "disconnected", "countdown"}
  => (WillShow(queue, status["wifi"], "wifi") <=> driver = "up")

MqttShown ==
  "mqtt" \notin dropped /\ pc["mqtt"] = "idle" =>
    (WillShow(queue, status["mqtt"], "mqtt") <=> m_isConnected)

ShownInv == WifiShown /\ MqttShown

(* An address that comes after the registrations is served by all handlers. *)
Registered ==
  /\ pc["main"] = "time" => "mqtt" \in ipHandlers
  /\ pc["main"] \in {"timezone", "app"} => {"mqtt", "time"} \subseteq ipHandlers

Attempted == m_client = "null" => refused

Served ==
  /\ pc["loop"] \in Serving /\ ~early => {"mqtt", "time"} \subseteq ipHandlers
  /\ pc["loop"] = "got_time" /\ ~early => Attempted

AllStarted ==
  /\ driver = "up" /\ "wifi" \notin dropped /\ ~early
  /\ pc["loop"] \notin Serving /\ NoRadio(queue)
  => Attempted /\ "time" \in started

ServedInv == Registered /\ Served /\ AllStarted

IInv == TypeOK /\ FailInv /\ DriverInv /\ ShownInv /\ ServedInv

-----------------------------------------------------------------------------
(* What the ways of changing the queue do to what it will bring about.       *)

RadioSame ==
  /\ NoRadio(queue') <=> NoRadio(queue)
  /\ NoDisconnect(queue) => NoDisconnect(queue')
  /\ DisconnectLast(queue) => DisconnectLast(queue')

LEMMA AppendOther ==
  ASSUME TypeOK, NEW e, ~IsRadio(e), queue' = Append(queue, e)
  PROVE  RadioSame
BY AppendRadio DEF RadioSame, IsRadio, TypeOK

LEMMA PostProperty ==
  ASSUME TypeOK, Post(Event("PROPERTY"))
  PROVE  /\ RadioSame
         /\ \A shown, source : WillShow(queue', shown, source) <=> WillShow(queue, shown, source)
<1> DEFINE e == Event("PROPERTY")
<1>1. queue' = Append(queue, e) /\ e.name = "PROPERTY" /\ queue \in Seq(Events)
  BY DEF Post, Event, TypeOK
<1>2. ~IsRadio(e) /\ \A source : ~IsStatus(e, source)
  BY <1>1 DEF IsRadio, IsStatus
<1> HIDE DEF e
<1>3. RadioSame
  BY <1>1, <1>2, AppendOther
<1>4. ASSUME NEW shown, NEW source
      PROVE  WillShow(queue', shown, source) <=> WillShow(queue, shown, source)
  BY <1>1, <1>2, AppendShows
<1>5. QED BY <1>3, <1>4

LEMMA PostStatusShows ==
  ASSUME TypeOK, NEW source \in Sources, NEW state \in States, PostStatus(source, state)
  PROVE  /\ RadioSame
         /\ source \notin dropped' =>
              \A shown : WillShow(queue', shown, source) <=> state = "CONNECTED"
         /\ \A other \in Sources \ {source} :
              /\ other \in dropped' <=> other \in dropped
              /\ \A shown : WillShow(queue', shown, other) <=> WillShow(queue, shown, other)
<1> DEFINE e == [name |-> "STATUS", source |-> source, state |-> state]
<1>1. /\ e.name = "STATUS" /\ e.source = source /\ e.state = state /\ queue \in Seq(Events)
      /\ \/ queue' = Append(queue, e) /\ dropped' = dropped \ {source}
         \/ queue' = queue /\ dropped' = dropped \union {source}
  BY DEF PostStatus, Post, TypeOK
<1> HIDE DEF e
<1>2. ~IsRadio(e) /\ IsStatus(e, source) /\ \A other \in Sources \ {source} : ~IsStatus(e, other)
  BY <1>1 DEF IsRadio, IsStatus
<1>3. RadioSame
  BY <1>1, <1>2, AppendOther DEF RadioSame
<1>4. ASSUME NEW shown, source \notin dropped'
      PROVE  WillShow(queue', shown, source) <=> state = "CONNECTED"
  <2>1. queue' = Append(queue, e)
    BY <1>1, <1>4
  <2>2. WillShow(Append(queue, e), shown, source) <=> e.state = "CONNECTED"
    BY <1>1, <1>2, AppendShows
  <2>3. QED BY <1>1, <2>1, <2>2
<1>5. ASSUME NEW shown, NEW other \in Sources \ {source}
      PROVE  WillShow(queue', shown, other) <=> WillShow(queue, shown, other)
  <2>1. WillShow(Append(queue, e), shown, other) <=> WillShow(queue, shown, other)
    BY <1>1, <1>2, AppendShows
  <2>2. CASE queue' = Append(queue, e)
    BY <2>1, <2>2
  <2>3. CASE queue' = queue
    BY <2>3
  <2>4. QED BY <1>1, <2>2, <2>3
<1>6. QED BY <1>1, <1>3, <1>4, <1>5

LEMMA DispatchOther ==
  ASSUME TypeOK, NEW name \in {"STATUS", "PROPERTY"}, NEW to \in LoopPlaces, Dispatch(name, to)
  PROVE  RadioSame
<1>1. queue \in Seq(Events) /\ queue # <<>> /\ queue' = Tail(queue) /\ Head(queue).name = name
  BY DEF Dispatch, TypeOK
<1>2. ~IsRadio(Head(queue)) /\ Head(queue).name # "STA_DISCONNECTED"
  BY <1>1 DEF IsRadio
<1>3. QED BY <1>1, <1>2, TailRadio DEF RadioSame

LEMMA UnchangedRadio == queue' = queue => RadioSame
BY DEF RadioSame

-----------------------------------------------------------------------------
(* A step of a task that leaves the driver and the radio's events alone, and *)
(* does not lead into or out of the handling of a disconnect.                *)
LEMMA SameDriver ==
  ASSUME DriverInv, RadioSame, driver' = driver,
         pc'["main"] \in Booting => pc["main"] \in Booting,
         pc'["loop"] \in Down <=> pc["loop"] \in Down,
         pc'["loop"] \in {"got_web", "got_wifi"} => pc["loop"] \in {"got_web", "got_wifi"}
  PROVE  DriverInv'
BY DEF DriverInv, RadioSame

LEMMA MainDriver == TypeOK /\ DriverInv /\ Main => DriverInv'
<1> SUFFICES ASSUME TypeOK, DriverInv, Main PROVE DriverInv'
  OBVIOUS
<1> USE DEF MainPlaces, Booting
<1>1. CASE InitFs \/ InitHttp \/ InitWifi \/ InitConfig \/ InitMqtt \/ InitTime
  <2>1. /\ queue' = queue /\ driver' = driver /\ pc'["loop"] = pc["loop"]
        /\ pc'["main"] \in Booting => pc["main"] \in Booting
    BY <1>1, GotoMain DEF InitFs, InitHttp, InitWifi, InitConfig, InitMqtt, InitTime, radio
  <2>2. QED BY <2>1, UnchangedRadio, SameDriver
<1>2. CASE StartProvisioning
  <2>1. /\ pc["main"] = "provision" /\ pc'["main"] = "config" /\ pc'["loop"] = pc["loop"]
        /\ driver' = "provisioning"
    BY <1>2, GotoMain DEF StartProvisioning
  <2>2. RadioSame
    BY <1>2, PostStatusShows DEF StartProvisioning, Sources, States
  <2>3. QED BY <2>1, <2>2 DEF DriverInv, RadioSame
<1>3. CASE PostConnecting
  <2>1. /\ pc["main"] = "start" /\ pc'["main"] = "connect" /\ pc'["loop"] = pc["loop"]
        /\ driver' = driver
    BY <1>3, GotoMain DEF PostConnecting, radio
  <2>2. RadioSame
    BY <1>3, PostStatusShows DEF PostConnecting, Sources, States
  <2>3. QED BY <2>1, <2>2, SameDriver
<1>4. CASE StartStation
  <2>1. /\ pc["main"] = "connect" /\ pc'["main"] = "config" /\ pc'["loop"] = pc["loop"]
        /\ driver' = "connecting" /\ queue' = queue
    BY <1>4, GotoMain DEF StartStation
  <2>2. QED BY <2>1 DEF DriverInv
<1>5. CASE CreateProperty
  <2>1. /\ pc'["main"] = "app" /\ pc'["loop"] = pc["loop"] /\ driver' = driver
    BY <1>5 DEF CreateProperty, radio, TypeOK
  <2>2. RadioSame
    BY <1>5, PostProperty DEF CreateProperty
  <2>3. QED BY <2>1, <2>2, SameDriver
<1>6. QED BY <1>1, <1>2, <1>3, <1>4, <1>5 DEF Main

LEMMA RestartDriver ==
  ASSUME Restart
  PROVE  DriverInv'
BY DEF Restart, DriverInv, NoRadio, Down, Booting

(* The handling of a radio event by the loop's task. *)
LEMMA DispatchRadio ==
  ASSUME TypeOK, DriverInv, NEW name \in {"GOT_IP", "STA_DISCONNECTED"},
         NEW to \in LoopPlaces, Dispatch(name, to)
  PROVE  /\ pc["loop"] = "idle" /\ pc'["loop"] = to /\ pc'["main"] = pc["main"]
         /\ pc'["mqtt"] = pc["mqtt"] /\ driver \in {"up", "down"}
         /\ name = "GOT_IP" => /\ driver = "up" => NoDisconnect(queue')
                               /\ driver = "down" => DisconnectLast(queue')
         /\ name = "STA_DISCONNECTED" => driver = "down" /\ NoRadio(queue')
<1>1. queue \in Seq(Events) /\ queue # <<>> /\ queue' = Tail(queue) /\ Head(queue).name = name
  BY DEF Dispatch, TypeOK
<1>2. /\ pc["loop"] = "idle" /\ pc'["loop"] = to /\ pc'["main"] = pc["main"]
      /\ pc'["mqtt"] = pc["mqtt"]
  BY GotoLoop DEF Dispatch
<1>3. IsRadio(Head(queue)) /\ ~NoRadio(queue)
  BY <1>1, TailRadio DEF IsRadio
<1>4. driver \in {"up", "down"}
  BY <1>3 DEF DriverInv
<1>5. driver = "up" => NoDisconnect(Tail(queue)) /\ Head(queue).name # "STA_DISCONNECTED"
  BY <1>1, TailRadio DEF DriverInv
<1>6. driver = "down" => DisconnectLast(queue)
  BY <1>3 DEF DriverInv
<1>7. driver = "down" =>
        IF Head(queue).name = "STA_DISCONNECTED" THEN NoRadio(Tail(queue))
                                                 ELSE DisconnectLast(Tail(queue))
  BY <1>1, <1>6, TailRadio
<1>8. QED BY <1>1, <1>2, <1>4, <1>5, <1>7

LEMMA LoopDriver == TypeOK /\ DriverInv /\ Loop => DriverInv'
<1> SUFFICES ASSUME TypeOK, DriverInv, Loop PROVE DriverInv'
  OBVIOUS
<1> USE DEF LoopPlaces, Down
<1>1. CASE GotIp
  <2>1. driver' = driver
    BY <1>1 DEF GotIp, radio
  <2>2. QED BY <1>1, <2>1, DispatchRadio DEF GotIp, DriverInv
<1>2. CASE \E to \in {"disconnected", "countdown"} : CountFailure(to)
  BY <1>2, DispatchRadio DEF CountFailure, DriverInv
<1>3. CASE ShowStatus \/ HandleProperty
  <2>1. RadioSame /\ driver' = driver
    BY <1>3, DispatchOther DEF ShowStatus, HandleProperty, radio
  <2>2. pc["loop"] = "idle" /\ pc'["loop"] = "idle" /\ pc'["main"] = pc["main"]
    BY <1>3, GotoLoop DEF ShowStatus, HandleProperty, Dispatch
  <2>3. QED BY <2>1, <2>2, SameDriver
<1>4. CASE GotIpWeb \/ GotIpMqtt \/ StartMqttClient \/ GotIpTime
  <2>1. RadioSame /\ driver' = driver
    BY <1>4, UnchangedRadio DEF GotIpWeb, GotIpMqtt, StartMqttClient, GotIpTime, radio
  <2>2. /\ pc["loop"] \in Serving /\ pc'["loop"] \in Serving \union {"idle"}
        /\ pc'["main"] = pc["main"]
        /\ pc'["loop"] = "got_wifi" => pc["loop"] = "got_web"
        /\ pc'["loop"] # "got_web"
    BY <1>4, GotoLoop DEF GotIpWeb, GotIpMqtt, StartMqttClient, GotIpTime, Serving
  <2>3. QED BY <2>1, <2>2, SameDriver DEF Serving
<1>5. CASE GotIpWifi
  <2>1. RadioSame /\ driver' = driver
    BY <1>5, PostStatusShows DEF GotIpWifi, radio, Sources, States
  <2>2. pc["loop"] = "got_wifi" /\ pc'["loop"] = "got_mqtt" /\ pc'["main"] = pc["main"]
    BY <1>5, GotoLoop DEF GotIpWifi
  <2>3. QED BY <2>1, <2>2, SameDriver
<1>6. CASE CreateClientProperty
  <2>1. RadioSame /\ driver' = driver
    BY <1>6, PostProperty, UnchangedRadio DEF CreateClientProperty, radio
  <2>2. pc["loop"] = "init_client" /\ pc'["loop"] = "init_client" /\ pc'["main"] = pc["main"]
    BY <1>6, GotoLoop DEF CreateClientProperty
  <2>3. QED BY <2>1, <2>2, SameDriver
<1>7. CASE PostDisconnected
  <2>1. RadioSame /\ driver' = driver
    BY <1>7, PostStatusShows DEF PostDisconnected, radio, Sources, States
  <2>2. pc["loop"] = "disconnected" /\ pc'["loop"] = "reconnect" /\ pc'["main"] = pc["main"]
    BY <1>7, GotoLoop DEF PostDisconnected
  <2>3. QED BY <2>1, <2>2, SameDriver
<1>8. CASE Reconnect
  <2>1. /\ pc["loop"] = "reconnect" /\ pc'["loop"] = "idle" /\ pc'["main"] = pc["main"]
        /\ driver' = "connecting" /\ queue' = queue
    BY <1>8, GotoLoop DEF Reconnect
  <2>2. driver = "down" /\ NoRadio(queue)
    BY <2>1 DEF DriverInv
  <2>3. pc["main"] \notin Booting
    BY <2>2 DEF DriverInv
  <2>4. QED BY <2>1, <2>2, <2>3 DEF DriverInv
<1>9. CASE CountedDown
  BY <1>9, RestartDriver DEF CountedDown
<1>10. QED
  BY <1>1, <1>2, <1>3, <1>4, <1>5, <1>6, <1>7, <1>8, <1>9
  DEF Loop, LoopWork, CountDisconnect, ResetCredentials

LEMMA DriverStep == TypeOK /\ DriverInv /\ [Next]_vars => DriverInv'
<1> SUFFICES ASSUME TypeOK, DriverInv, [Next]_vars PROVE DriverInv'
  OBVIOUS
<1>1. CASE Main \/ Loop
  BY <1>1, MainDriver, LoopDriver
<1>2. CASE OnMqttConnected \/ OnMqttDisconnected
  <2>1. /\ queue' = queue /\ driver' = driver /\ pc'["main"] = pc["main"]
        /\ pc'["loop"] = pc["loop"]
    BY <1>2, GotoMqtt DEF OnMqttConnected, OnMqttDisconnected, radio
  <2>2. QED BY <2>1, UnchangedRadio, SameDriver
<1>3. CASE PostMqtt
  <2>1. driver' = driver /\ pc'["main"] = pc["main"] /\ pc'["loop"] = pc["loop"]
    BY <1>3, GotoMqtt DEF PostMqtt, radio
  <2>2. RadioSame
    BY <1>3, PostStatusShows DEF PostMqtt, Sources, States
  <2>3. QED BY <2>1, <2>2, SameDriver
<1>4. CASE Associate
  <2>1. /\ driver = "connecting" /\ driver' = "up" /\ pc' = pc
        /\ queue' \in {queue, Append(queue, Event("GOT_IP"))}
    BY <1>4 DEF Associate, Post
  <2>2. NoRadio(queue) /\ pc["loop"] \notin Down /\ pc["main"] \notin Booting
    BY <2>1 DEF DriverInv
  <2>3. NoDisconnect(queue)
    BY <2>2 DEF NoRadio, NoDisconnect, IsRadio
  <2>4. NoDisconnect(queue')
    <3>1. Event("GOT_IP").name # "STA_DISCONNECTED" /\ queue \in Seq(Events)
      BY DEF Event, TypeOK
    <3>2. NoDisconnect(Append(queue, Event("GOT_IP")))
      BY <3>1, <2>3, AppendRadio
    <3>3. CASE queue' = queue
      BY <3>3, <2>3
    <3>4. CASE queue' = Append(queue, Event("GOT_IP"))
      BY <3>4, <3>2
    <3>5. QED BY <2>1, <3>3, <3>4
  <2>5. QED BY <2>1, <2>2, <2>4 DEF DriverInv
<1>5. CASE Disconnect
  <2>1. /\ driver \in {"connecting", "up"} /\ driver' = "down" /\ pc' = pc
        /\ queue' = Append(queue, Event("STA_DISCONNECTED"))
    BY <1>5 DEF Disconnect, Post
  <2>2. (NoRadio(queue) \/ NoDisconnect(queue)) /\ pc["loop"] \notin Down
        /\ pc["main"] \notin Booting
    BY <2>1 DEF DriverInv
  <2>3. NoDisconnect(queue)
    BY <2>2 DEF NoRadio, NoDisconnect, IsRadio
  <2>4. DisconnectLast(queue')
    BY <2>1, <2>3, AppendRadio DEF TypeOK, Event
  <2>5. QED BY <2>1, <2>2, <2>4 DEF DriverInv
<1>6. CASE Provision
  BY <1>6 DEF Provision, DriverInv
<1>7. CASE PowerCycle
  BY <1>7, RestartDriver DEF PowerCycle
<1>8. CASE UNCHANGED vars
  BY <1>8 DEF vars, radio, DriverInv
<1>9. QED BY <1>1, <1>2, <1>3, <1>4, <1>5, <1>6, <1>7, <1>8 DEF Next, Mqtt, Driver

-----------------------------------------------------------------------------
(* The status: each half of ShownInv under a step.                           *)

(* What Status will show of a source is as before. *)
ShowsSame(source) ==
  /\ source \in dropped' <=> source \in dropped
  /\ WillShow(queue', status'[source], source) <=> WillShow(queue, status[source], source)

LEMMA PostedElse ==
  ASSUME TypeOK, NEW source \in Sources, NEW state \in States, PostStatus(source, state),
         status' = status, NEW other \in Sources \ {source}
  PROVE  ShowsSame(other)
BY PostStatusShows DEF ShowsSame

LEMMA PostedIs ==
  ASSUME TypeOK, NEW source \in Sources, NEW state \in States, PostStatus(source, state),
         source \notin dropped'
  PROVE  WillShow(queue', status'[source], source) <=> state = "CONNECTED"
BY PostStatusShows

(* An event that is no status event, at the end of the queue. *)
LEMMA AppendedShows ==
  ASSUME TypeOK, NEW e, e.name # "STATUS", queue' = Append(queue, e), status' = status,
         NEW source \in Sources
  PROVE  WillShow(queue', status'[source], source) <=> WillShow(queue, status[source], source)
<1>1. ~IsStatus(e, source) /\ queue \in Seq(Events)
  BY DEF IsStatus, TypeOK
<1>2. WillShow(Append(queue, e), status[source], source)
        <=> WillShow(queue, status[source], source)
  BY <1>1, AppendShows
<1>3. QED BY <1>2

(* The loop takes the first event, and shows it if it is a status event. *)
LEMMA DispatchedShows ==
  ASSUME TypeOK, NEW name, NEW to, Dispatch(name, to), dropped' = dropped,
         IF name = "STATUS"
           THEN status' = [status EXCEPT ![Head(queue).source] = Head(queue).state]
           ELSE status' = status,
         NEW source \in Sources
  PROVE  ShowsSame(source)
<1>1. /\ queue \in Seq(Events) /\ queue # <<>> /\ queue' = Tail(queue)
      /\ Head(queue) \in Events /\ Head(queue).name = name
  BY DEF Dispatch, TypeOK
<1>2. status'[source] = IF IsStatus(Head(queue), source) THEN Head(queue).state
                                                         ELSE status[source]
  <2>1. CASE name = "STATUS"
    BY <2>1, <1>1 DEF IsStatus, TypeOK, Events
  <2>2. CASE name # "STATUS"
    BY <2>2, <1>1 DEF IsStatus
  <2>3. QED BY <2>1, <2>2
<1>3. WillShow(Tail(queue), IF IsStatus(Head(queue), source) THEN Head(queue).state
                                                             ELSE status[source], source)
        <=> WillShow(queue, status[source], source)
  BY <1>1, TailShows
<1>4. QED BY <1>1, <1>2, <1>3 DEF ShowsSame

Silent ==
  \/ InitFs \/ InitHttp \/ InitWifi \/ StartStation \/ InitConfig \/ InitMqtt \/ InitTime
  \/ CreateProperty \/ GotIp \/ CountDisconnect \/ ResetCredentials \/ ShowStatus
  \/ HandleProperty \/ GotIpWeb \/ GotIpMqtt \/ CreateClientProperty \/ StartMqttClient
  \/ GotIpTime \/ Reconnect \/ OnMqttConnected \/ OnMqttDisconnected \/ Disconnect \/ Provision
  \/ UNCHANGED vars

Posting ==
  StartProvisioning \/ PostConnecting \/ GotIpWifi \/ PostDisconnected \/ PostMqtt

LEMMA NextSplits == [Next]_vars => Silent \/ Posting \/ Associate \/ Restart
BY DEF Next, Main, Loop, LoopWork, Mqtt, Driver, CountedDown, PowerCycle, Silent, Posting

(* A step that posts no status changes nothing of what will be shown. *)
LEMMA SilentShows ==
  ASSUME TypeOK, Silent, NEW source \in Sources
  PROVE  ShowsSame(source)
<1>1. CASE UNCHANGED <<queue, status, dropped>>
  BY <1>1 DEF ShowsSame
<1>2. CASE GotIp \/ HandleProperty \/ CountDisconnect \/ ResetCredentials
  <2>1. status' = status /\ dropped' = dropped
    BY <1>2 DEF GotIp, HandleProperty, CountDisconnect, ResetCredentials, CountFailure, history
  <2>2. PICK name \in {"GOT_IP", "PROPERTY", "STA_DISCONNECTED"},
             to \in {"got_web", "idle", "disconnected", "countdown"} : Dispatch(name, to)
    BY <1>2 DEF GotIp, HandleProperty, CountDisconnect, ResetCredentials, CountFailure
  <2>3. QED BY <2>1, <2>2, DispatchedShows
<1>3. CASE ShowStatus
  <2>1. /\ Dispatch("STATUS", "idle") /\ dropped' = dropped
        /\ status' = [status EXCEPT ![Head(queue).source] = Head(queue).state]
    BY <1>3 DEF ShowStatus, history
  <2>2. QED BY <2>1, DispatchedShows
<1>4. CASE CreateProperty \/ CreateClientProperty \/ Disconnect
  <2>1. status' = status /\ dropped' = dropped
    BY <1>4 DEF CreateProperty, CreateClientProperty, Disconnect, history
  <2>2. queue' = queue \/ \E name \in {"PROPERTY", "STA_DISCONNECTED"} :
                            queue' = Append(queue, Event(name))
    BY <1>4 DEF CreateProperty, CreateClientProperty, Disconnect, Post
  <2>3. CASE queue' = queue
    BY <2>1, <2>3 DEF ShowsSame
  <2>4. ASSUME NEW name \in {"PROPERTY", "STA_DISCONNECTED"}, queue' = Append(queue, Event(name))
        PROVE  ShowsSame(source)
    <3>1. Event(name).name # "STATUS"
      BY DEF Event
    <3>2. WillShow(queue', status'[source], source) <=> WillShow(queue, status[source], source)
      BY <2>1, <2>4, <3>1, AppendedShows
    <3>3. QED BY <2>1, <3>2 DEF ShowsSame
  <2>5. QED BY <2>2, <2>3, <2>4
<1>5. QED
  BY <1>1, <1>2, <1>3, <1>4
  DEF Silent, InitFs, InitHttp, InitWifi, StartStation, InitConfig, InitMqtt, InitTime, GotIpWeb,
      GotIpMqtt, StartMqttClient, GotIpTime, Reconnect, OnMqttConnected, OnMqttDisconnected,
      Provision, vars, history

(* What a step that posts no status does to the radio and the tasks. *)
LEMMA SilentWifi ==
  ASSUME TypeOK, DriverInv, Silent
  PROVE  \/ ~NoRadio(queue')
         \/ pc'["loop"] \in {"got_web", "got_wifi", "disconnected", "countdown"}
         \/ /\ NoRadio(queue)
            /\ pc["loop"] \notin {"got_web", "got_wifi", "disconnected", "countdown"}
            /\ driver' = "up" <=> driver = "up"
<1> USE DEF LoopPlaces, MainPlaces
<1>1. CASE GotIp \/ CountDisconnect \/ ResetCredentials \/ GotIpWeb
  BY <1>1, GotoLoop DEF GotIp, CountDisconnect, ResetCredentials, CountFailure, Dispatch, GotIpWeb
<1>2. CASE Disconnect
  <2>1. queue' = Append(queue, Event("STA_DISCONNECTED")) /\ queue \in Seq(Events)
    BY <1>2 DEF Disconnect, Post, TypeOK
  <2>2. IsRadio(Event("STA_DISCONNECTED"))
    BY DEF IsRadio, Event
  <2>3. QED BY <2>1, <2>2, AppendRadio
<1>3. CASE ShowStatus \/ HandleProperty
  <2>1. pc["loop"] = "idle" /\ driver' = driver
    BY <1>3 DEF ShowStatus, HandleProperty, Dispatch, Goto, radio
  <2>2. RadioSame
    BY <1>3, DispatchOther DEF ShowStatus, HandleProperty
  <2>3. QED BY <2>1, <2>2 DEF RadioSame
<1>4. CASE CreateProperty \/ CreateClientProperty
  <2>1. RadioSame
    BY <1>4, PostProperty, UnchangedRadio DEF CreateProperty, CreateClientProperty
  <2>2. pc'["loop"] = pc["loop"] /\ driver' = driver
    <3>1. CASE CreateProperty
      BY <3>1 DEF CreateProperty, TypeOK, radio
    <3>2. CASE CreateClientProperty
      BY <3>2, GotoLoop DEF CreateClientProperty, radio
    <3>3. QED BY <1>4, <3>1, <3>2
  <2>3. QED BY <2>1, <2>2 DEF RadioSame
<1>5. CASE GotIpMqtt \/ StartMqttClient \/ GotIpTime
  BY <1>5 DEF GotIpMqtt, StartMqttClient, GotIpTime, Goto, radio
<1>6. CASE Reconnect
  <2>1. pc["loop"] = "reconnect" /\ driver' = "connecting" /\ queue' = queue
    BY <1>6 DEF Reconnect, Goto
  <2>2. driver # "up"
    BY <2>1 DEF DriverInv, Down
  <2>3. QED BY <2>1, <2>2
<1>7. CASE StartStation
  <2>1. /\ pc["main"] = "connect" /\ pc'["loop"] = pc["loop"] /\ driver' = "connecting"
        /\ queue' = queue
    BY <1>7, GotoMain DEF StartStation
  <2>2. driver # "up"
    BY <2>1 DEF DriverInv, Booting
  <2>3. QED BY <2>1, <2>2
<1>8. CASE InitFs \/ InitHttp \/ InitWifi \/ InitConfig \/ InitMqtt \/ InitTime
  BY <1>8, GotoMain DEF InitFs, InitHttp, InitWifi, InitConfig, InitMqtt, InitTime, radio
<1>9. CASE OnMqttConnected \/ OnMqttDisconnected
  BY <1>9, GotoMqtt DEF OnMqttConnected, OnMqttDisconnected, radio
<1>10. CASE Provision
  BY <1>10 DEF Provision
<1>11. CASE UNCHANGED vars
  BY <1>11 DEF vars, radio
<1>12. QED
  BY <1>1, <1>2, <1>3, <1>4, <1>5, <1>6, <1>7, <1>8, <1>9, <1>10, <1>11 DEF Silent

LEMMA WifiStep == TypeOK /\ DriverInv /\ WifiShown /\ [Next]_vars => WifiShown'
<1> SUFFICES ASSUME TypeOK, DriverInv, WifiShown, [Next]_vars PROVE WifiShown'
  OBVIOUS
<1> USE DEF LoopPlaces, MainPlaces
<1>1. CASE Silent
  BY <1>1, SilentShows, SilentWifi DEF WifiShown, ShowsSame, Sources
<1>2. CASE StartProvisioning \/ PostConnecting
  <2>1. PICK state \in States \ {"CONNECTED"} : PostStatus("wifi", state)
    BY <1>2 DEF StartProvisioning, PostConnecting, States
  <2>2. "wifi" \notin dropped' => ~WillShow(queue', status'["wifi"], "wifi")
    BY <2>1, PostedIs DEF Sources
  <2>3. driver # "up" /\ driver' # "up"
    BY <1>2 DEF StartProvisioning, PostConnecting, Goto, DriverInv, Booting, radio
  <2>4. QED BY <2>2, <2>3 DEF WifiShown
<1>3. CASE GotIpWifi
  <2>1. pc["loop"] = "got_wifi" /\ driver' = driver /\ PostStatus("wifi", "CONNECTED")
    BY <1>3 DEF GotIpWifi, Goto, radio
  <2>2. "wifi" \notin dropped' => WillShow(queue', status'["wifi"], "wifi")
    BY <2>1, PostedIs DEF Sources, States
  <2>3. NoRadio(queue') => NoRadio(queue)
    BY <2>1, PostStatusShows DEF Sources, States, RadioSame
  <2>4. NoRadio(queue) => ~DisconnectLast(queue)
    BY DEF NoRadio, DisconnectLast, IsRadio
  <2>5. NoRadio(queue) => driver = "up"
    BY <2>1, <2>4 DEF DriverInv, Down
  <2>6. QED BY <2>1, <2>2, <2>3, <2>5 DEF WifiShown
<1>4. CASE PostDisconnected
  <2>1. pc["loop"] = "disconnected" /\ driver' = driver /\ PostStatus("wifi", "DISCONNECTED")
    BY <1>4 DEF PostDisconnected, Goto, radio
  <2>2. "wifi" \notin dropped' => ~WillShow(queue', status'["wifi"], "wifi")
    BY <2>1, PostedIs DEF Sources, States
  <2>3. driver # "up"
    BY <2>1 DEF DriverInv, Down
  <2>4. QED BY <2>1, <2>2, <2>3 DEF WifiShown
<1>5. CASE PostMqtt
  <2>1. PICK state \in States : PostStatus("mqtt", state)
    BY <1>5 DEF PostMqtt, States
  <2>2. status' = status /\ driver' = driver /\ pc'["loop"] = pc["loop"]
    BY <1>5, GotoMqtt DEF PostMqtt, radio
  <2>3. ShowsSame("wifi") /\ RadioSame
    BY <2>1, <2>2, PostedElse, PostStatusShows DEF Sources
  <2>4. QED BY <2>2, <2>3 DEF WifiShown, ShowsSame, RadioSame
<1>6. CASE Associate
  <2>1. CASE Post(Event("GOT_IP"))
    <3>1. queue' = Append(queue, Event("GOT_IP")) /\ queue \in Seq(Events)
      BY <2>1 DEF Post, TypeOK
    <3>2. IsRadio(Event("GOT_IP"))
      BY DEF IsRadio, Event
    <3>3. QED BY <3>1, <3>2, AppendRadio DEF WifiShown
  <2>2. CASE "wifi" \in dropped'
    BY <2>2 DEF WifiShown
  <2>3. QED BY <1>6, <2>1, <2>2 DEF Associate
<1>7. CASE Restart
  <2>1. queue' = <<>> /\ status'["wifi"] = "DISCONNECTED" /\ driver' = "off"
    BY <1>7 DEF Restart
  <2>2. ~WillShow(<<>>, "DISCONNECTED", "wifi")
    BY DEF WillShow
  <2>3. QED BY <2>1, <2>2 DEF WifiShown
<1>8. QED BY <1>1, <1>2, <1>3, <1>4, <1>5, <1>6, <1>7, NextSplits DEF Posting

LEMMA MqttStep == TypeOK /\ MqttShown /\ [Next]_vars => MqttShown'
<1> SUFFICES ASSUME TypeOK, MqttShown, [Next]_vars PROVE MqttShown'
  OBVIOUS
<1> USE DEF LoopPlaces, MainPlaces
<1>1. ASSUME ShowsSame("mqtt"), pc'["mqtt"] = pc["mqtt"], m_isConnected' = m_isConnected
      PROVE  MqttShown'
  BY <1>1 DEF MqttShown, ShowsSame
<1>2. CASE OnMqttConnected \/ OnMqttDisconnected
  BY <1>2, GotoMqtt DEF OnMqttConnected, OnMqttDisconnected, MqttShown
<1>3. CASE Silent /\ ~(OnMqttConnected \/ OnMqttDisconnected)
  <2>1. ShowsSame("mqtt")
    BY <1>3, SilentShows DEF Sources
  <2>2. m_isConnected' = m_isConnected
    BY <1>3
    DEF Silent, InitFs, InitHttp, InitWifi, StartStation, InitConfig, InitMqtt, InitTime,
        CreateProperty, GotIp, CountDisconnect, ResetCredentials, CountFailure, ShowStatus,
        HandleProperty, GotIpWeb, GotIpMqtt, CreateClientProperty, StartMqttClient, GotIpTime,
        Reconnect, Disconnect, Provision, vars, services
  <2>3. pc'["mqtt"] = pc["mqtt"]
    <3>1. CASE \E t \in {"main", "loop"} : \E from \in MainPlaces \union LoopPlaces,
                 to \in MainPlaces \union LoopPlaces : Goto(t, from, to)
      BY <3>1 DEF Goto, TypeOK
    <3>2. CASE pc' = pc \/ CreateProperty
      BY <3>2 DEF CreateProperty, TypeOK
    <3>3. QED
      BY <1>3, <3>1, <3>2
      DEF Silent, InitFs, InitHttp, InitWifi, StartStation, InitConfig, InitMqtt, InitTime,
          GotIp, CountDisconnect, ResetCredentials, CountFailure, ShowStatus, Dispatch,
          HandleProperty, GotIpWeb, GotIpMqtt, CreateClientProperty, StartMqttClient, GotIpTime,
          Reconnect, Disconnect, Provision, vars
  <2>4. QED BY <1>1, <2>1, <2>2, <2>3
<1>4. CASE StartProvisioning \/ PostConnecting \/ GotIpWifi \/ PostDisconnected
  <2>1. PICK state \in States : PostStatus("wifi", state)
    BY <1>4 DEF StartProvisioning, PostConnecting, GotIpWifi, PostDisconnected, States
  <2>2. status' = status /\ m_isConnected' = m_isConnected /\ pc'["mqtt"] = pc["mqtt"]
    BY <1>4, GotoMain, GotoLoop
    DEF StartProvisioning, PostConnecting, GotIpWifi, PostDisconnected, services
  <2>3. QED BY <2>1, <2>2, <1>1, PostedElse DEF Sources
<1>5. CASE PostMqtt
  <2>1. PICK state \in States :
          PostStatus("mqtt", state) /\ (state = "CONNECTED" <=> m_isConnected)
    BY <1>5 DEF PostMqtt, States
  <2>2. m_isConnected' = m_isConnected
    BY <1>5 DEF PostMqtt, services
  <2>3. "mqtt" \notin dropped' =>
          (WillShow(queue', status'["mqtt"], "mqtt") <=> state = "CONNECTED")
    BY <2>1, PostedIs DEF Sources
  <2>4. QED BY <2>1, <2>2, <2>3 DEF MqttShown
<1>6. CASE Associate
  <2>1. /\ status' = status /\ m_isConnected' = m_isConnected /\ pc' = pc
        /\ "mqtt" \in dropped' <=> "mqtt" \in dropped
        /\ queue' = queue \/ queue' = Append(queue, Event("GOT_IP"))
    BY <1>6 DEF Associate, Post, services
  <2>2. CASE queue' = queue
    BY <2>1, <2>2, <1>1 DEF ShowsSame
  <2>3. CASE queue' = Append(queue, Event("GOT_IP"))
    <3>1. Event("GOT_IP").name # "STATUS"
      BY DEF Event
    <3>2. WillShow(queue', status'["mqtt"], "mqtt") <=> WillShow(queue, status["mqtt"], "mqtt")
      BY <2>1, <2>3, <3>1, AppendedShows DEF Sources
    <3>3. QED BY <2>1, <3>2, <1>1 DEF ShowsSame
  <2>4. QED BY <2>1, <2>2, <2>3
<1>7. CASE Restart
  <2>1. queue' = <<>> /\ status'["mqtt"] = "DISCONNECTED" /\ m_isConnected' = FALSE
    BY <1>7 DEF Restart
  <2>2. ~WillShow(<<>>, "DISCONNECTED", "mqtt")
    BY DEF WillShow
  <2>3. QED BY <2>1, <2>2 DEF MqttShown
<1>8. QED BY <1>2, <1>3, <1>4, <1>5, <1>6, <1>7, NextSplits DEF Posting

-----------------------------------------------------------------------------
(* The services: the handlers registered, the address being served, and what *)
(* was started.                                                              *)

LEMMA OnlyMore ==
  ASSUME [Next]_vars, ~Restart
  PROVE  /\ ipHandlers \subseteq ipHandlers' /\ started \subseteq started'
         /\ Attempted /\ ~GotIp => Attempted'
<1> USE DEF Attempted, Register, radio, services, history
<1>1. CASE InitHttp \/ InitWifi \/ InitMqtt \/ InitTime
  BY <1>1 DEF InitHttp, InitWifi, InitMqtt, InitTime
<1>2. CASE GotIpWeb \/ GotIpTime \/ StartMqttClient
  <2>1. CASE GotIpWeb \/ GotIpTime
    BY <2>1 DEF GotIpWeb, GotIpTime
  <2>2. CASE StartMqttClient
    BY <2>2, Zenon DEF StartMqttClient
  <2>3. QED BY <1>2, <2>1, <2>2
<1>3. CASE UNCHANGED <<ipHandlers, started, m_client, refused>>
  BY <1>3
<1>4. CASE GotIp
  BY <1>4 DEF GotIp
<1>5. QED
  BY <1>1, <1>2, <1>3, <1>4
  DEF Next, Main, Loop, LoopWork, Mqtt, Driver, InitFs, StartProvisioning, PostConnecting,
      StartStation, InitConfig, CreateProperty, GotIpWifi, GotIpMqtt,
      CreateClientProperty, CountDisconnect, ResetCredentials, CountFailure, PostDisconnected,
      Reconnect, CountedDown, PowerCycle, ShowStatus, HandleProperty, OnMqttConnected,
      OnMqttDisconnected, PostMqtt, Associate, Disconnect, Provision, vars

LEMMA RegisteredStep == TypeOK /\ Registered /\ [Next]_vars => Registered'
<1> SUFFICES ASSUME TypeOK, Registered, [Next]_vars PROVE Registered'
  OBVIOUS
<1> USE DEF LoopPlaces, MainPlaces
<1>1. CASE Restart
  BY <1>1 DEF Restart, Registered
<1>2. CASE pc'["main"] = pc["main"] /\ ~Restart
  BY <1>2, OnlyMore DEF Registered
<1>3. CASE Main
  <2>1. CASE InitMqtt \/ InitTime
    BY <2>1, GotoMain DEF InitMqtt, InitTime, Register, Registered
  <2>2. CASE CreateProperty
    BY <2>2 DEF CreateProperty, TypeOK, Registered
  <2>3. CASE ~(InitMqtt \/ InitTime \/ CreateProperty)
    BY <1>3, <2>3, GotoMain
    DEF Main, InitFs, InitHttp, InitWifi, StartProvisioning, PostConnecting, StartStation,
        InitConfig, Registered
  <2>4. QED BY <2>1, <2>2, <2>3
<1>4. ASSUME ~Main, ~Restart
      PROVE  pc'["main"] = pc["main"]
  <2>1. CASE \E t \in {"loop", "mqtt"} : \E from \in LoopPlaces \union {"post"},
               to \in LoopPlaces \union {"post"} : Goto(t, from, to)
    BY <2>1 DEF Goto, TypeOK
  <2>2. CASE pc' = pc
    BY <2>2
  <2>3. QED
    BY <1>4, <2>1, <2>2
    DEF Next, Loop, LoopWork, Mqtt, Driver, GotIp, GotIpWeb, GotIpWifi, GotIpMqtt,
        CreateClientProperty, StartMqttClient, GotIpTime, CountDisconnect, ResetCredentials,
        CountFailure, PostDisconnected, Reconnect, CountedDown, PowerCycle, ShowStatus,
        HandleProperty, Dispatch, OnMqttConnected, OnMqttDisconnected, PostMqtt, Associate,
        Disconnect, Provision, vars
<1>5. QED BY <1>1, <1>2, <1>3, <1>4

(* Every other step leaves the loop's task outside the service of an address, *)
(* or where it is.                                                            *)
LEMMA ServedStep == TypeOK /\ Registered /\ Served /\ [Next]_vars => Served'
<1> SUFFICES ASSUME TypeOK, Registered, Served, [Next]_vars PROVE Served'
  OBVIOUS
<1> USE DEF LoopPlaces, MainPlaces
<1>1. CASE Restart
  BY <1>1 DEF Restart, Served, Serving
<1>2. ASSUME pc'["loop"] = pc["loop"], early' = early, ~Restart
      PROVE  Served'
  <2>1. ~GotIp
    BY <1>2, GotoLoop DEF GotIp, Dispatch
  <2>2. QED BY <1>2, <2>1, OnlyMore DEF Served
<1>3. CASE GotIp
  BY <1>3, GotoLoop DEF GotIp, Dispatch, Registered, Served, TypeOK
<1>4. CASE GotIpWeb \/ GotIpWifi \/ StartMqttClient
  BY <1>4, GotoLoop DEF GotIpWeb, GotIpWifi, StartMqttClient, history, Served, Serving, Attempted
<1>5. CASE GotIpMqtt
  BY <1>5, GotoLoop DEF GotIpMqtt, services, history, Served, Serving, Attempted
<1>6. CASE CreateClientProperty
  BY <1>6, GotoLoop DEF CreateClientProperty, history, Served, Serving
<1>7. CASE GotIpTime \/ CountDisconnect \/ ResetCredentials \/ ShowStatus \/ HandleProperty
             \/ PostDisconnected \/ Reconnect
  <2>1. PICK from \in LoopPlaces, to \in LoopPlaces \ Serving : Goto("loop", from, to)
    BY <1>7
    DEF GotIpTime, CountDisconnect, ResetCredentials, CountFailure, ShowStatus, HandleProperty,
        PostDisconnected, Reconnect, Dispatch, Serving
  <2>2. pc'["loop"] \notin Serving
    BY <2>1, GotoLoop
  <2>3. QED BY <2>2 DEF Served, Serving
<1>8. CASE Main /\ ~Restart
  <2>1. early' = early
    BY <1>8
    DEF Main, InitFs, InitHttp, InitWifi, StartProvisioning, PostConnecting, StartStation,
        InitConfig, InitMqtt, InitTime, CreateProperty, history
  <2>2. pc'["loop"] = pc["loop"]
    <3>1. CASE CreateProperty
      BY <3>1 DEF CreateProperty, TypeOK
    <3>2. CASE ~CreateProperty
      BY <1>8, <3>2, GotoMain
      DEF Main, InitFs, InitHttp, InitWifi, StartProvisioning, PostConnecting, StartStation,
          InitConfig, InitMqtt, InitTime
    <3>3. QED BY <3>1, <3>2
  <2>3. QED BY <1>2, <1>8, <2>1, <2>2
<1>9. CASE (Mqtt \/ Driver \/ UNCHANGED vars) /\ ~Restart
  <2>1. early' = early
    BY <1>9
    DEF Mqtt, Driver, OnMqttConnected, OnMqttDisconnected, PostMqtt, Associate, Disconnect,
        Provision, vars, history
  <2>2. pc'["loop"] = pc["loop"]
    BY <1>9, GotoMqtt
    DEF Mqtt, Driver, OnMqttConnected, OnMqttDisconnected, PostMqtt, Associate, Disconnect,
        Provision, vars
  <2>3. QED BY <1>2, <1>9, <2>1, <2>2
<1>10. QED
  BY <1>1, <1>3, <1>4, <1>5, <1>6, <1>7, <1>8, <1>9
  DEF Next, Loop, LoopWork, CountedDown, PowerCycle

LEMMA AllStartedStep ==
  TypeOK /\ DriverInv /\ Served /\ AllStarted /\ [Next]_vars => AllStarted'
<1> SUFFICES ASSUME TypeOK, DriverInv, Served, AllStarted, [Next]_vars,
                    driver' = "up", "wifi" \notin dropped', ~early',
                    pc'["loop"] \notin Serving, NoRadio(queue')
             PROVE  Attempted' /\ "time" \in started'
  BY DEF AllStarted
<1> USE DEF LoopPlaces, MainPlaces
<1>1. ~Restart
  BY DEF Restart
<1>2. ASSUME driver = "up", "wifi" \notin dropped, early' = early, pc["loop"] \notin Serving,
             NoRadio(queue)
      PROVE  Attempted' /\ "time" \in started'
  <2>1. ~GotIp
    BY GotoLoop DEF GotIp, Dispatch, Serving
  <2>2. QED BY <1>1, <1>2, <2>1, OnlyMore DEF AllStarted
<1>3. CASE GotIpTime
  <2>1. /\ pc["loop"] = "got_time" /\ early' = early /\ UNCHANGED <<m_client, refused>>
        /\ started' = started \union ({"time"} \intersect ipHandlers)
    BY <1>3 DEF GotIpTime, Goto, history
  <2>2. QED BY <2>1 DEF Served, Serving, Attempted
<1>4. CASE GotIp \/ GotIpWeb \/ GotIpWifi \/ GotIpMqtt \/ CreateClientProperty \/ StartMqttClient
  <2>1. pc'["loop"] \in Serving
    BY <1>4, GotoLoop
    DEF GotIp, Dispatch, GotIpWeb, GotIpWifi, GotIpMqtt, CreateClientProperty, StartMqttClient,
        Serving
  <2>2. QED BY <2>1
<1>5. CASE CountDisconnect \/ ResetCredentials
  <2>1. driver = "down" /\ driver' = driver
    BY <1>5, DispatchRadio DEF CountDisconnect, ResetCredentials, CountFailure
  <2>2. QED BY <2>1
<1>6. CASE PostDisconnected \/ Reconnect \/ StartStation \/ StartProvisioning \/ PostConnecting
             \/ Disconnect \/ Provision
  <2>1. driver' # "up"
    BY <1>6
    DEF PostDisconnected, Reconnect, StartStation, StartProvisioning, PostConnecting, Disconnect,
        Provision, Goto, DriverInv, Down, Booting, radio
  <2>2. QED BY <2>1
<1>7. CASE Associate
  <2>1. Post(Event("GOT_IP"))
    BY <1>7 DEF Associate
  <2>2. queue' = Append(queue, Event("GOT_IP")) /\ queue \in Seq(Events)
    BY <2>1 DEF Post, TypeOK
  <2>3. IsRadio(Event("GOT_IP"))
    BY DEF IsRadio, Event
  <2>4. QED BY <2>2, <2>3, AppendRadio
<1>8. CASE PostMqtt
  <2>1. PICK state \in States : PostStatus("mqtt", state)
    BY <1>8 DEF PostMqtt, States
  <2>2. RadioSame /\ "wifi" \notin dropped
    BY <2>1, PostStatusShows DEF Sources
  <2>3. driver' = driver /\ early' = early /\ pc'["loop"] = pc["loop"]
    BY <1>8, GotoMqtt DEF PostMqtt, radio
  <2>4. QED BY <1>2, <2>2, <2>3 DEF RadioSame
<1>9. CASE InitFs \/ InitHttp \/ InitWifi \/ InitConfig \/ InitMqtt \/ InitTime
  BY <1>2, <1>9, GotoMain DEF InitFs, InitHttp, InitWifi, InitConfig, InitMqtt, InitTime, radio,
     history
<1>10. CASE CreateProperty \/ ShowStatus \/ HandleProperty
  <2>1. RadioSame
    BY <1>10, PostProperty, DispatchOther DEF CreateProperty, ShowStatus, HandleProperty
  <2>2. driver' = driver /\ early' = early /\ dropped' = dropped
    BY <1>10 DEF CreateProperty, ShowStatus, HandleProperty, radio, history
  <2>3. pc["loop"] \notin Serving
    <3>1. CASE CreateProperty
      BY <3>1 DEF CreateProperty, TypeOK
    <3>2. CASE ShowStatus \/ HandleProperty
      BY <3>2 DEF ShowStatus, HandleProperty, Dispatch, Goto, Serving
    <3>3. QED BY <1>10, <3>1, <3>2
  <2>4. QED BY <1>2, <2>1, <2>2, <2>3 DEF RadioSame
<1>11. CASE OnMqttConnected \/ OnMqttDisconnected \/ UNCHANGED vars
  BY <1>2, <1>11, GotoMqtt DEF OnMqttConnected, OnMqttDisconnected, vars, radio, history
<1>12. QED
  BY <1>1, <1>3, <1>4, <1>5, <1>6, <1>7, <1>8, <1>9, <1>10, <1>11
  DEF Next, Main, Loop, LoopWork, Mqtt, Driver, CountedDown, PowerCycle

-----------------------------------------------------------------------------
LEMMA StationInvariance == Spec => []IInv
<1>1. Init => IInv
  <2> SUFFICES ASSUME Init PROVE IInv
    OBVIOUS
  <2>1. TypeOK /\ FailInv
    BY InitTypes
  <2>2. DriverInv
    BY DEF Init, DriverInv, NoRadio, Down, Booting
  <2>3. ShownInv
    <3>1. \A source : ~WillShow(<<>>, "DISCONNECTED", source)
      BY DEF WillShow
    <3>2. QED BY <3>1 DEF Init, ShownInv, WifiShown, MqttShown
  <2>4. ServedInv
    BY DEF Init, ServedInv, Registered, Served, AllStarted, Serving
  <2>5. QED BY <2>1, <2>2, <2>3, <2>4 DEF IInv
<1>2. IInv /\ [Next]_vars => IInv'
  BY NextTypes, FailStep, DriverStep, WifiStep, MqttStep, RegisteredStep, ServedStep,
     AllStartedStep
  DEF IInv, ShownInv, ServedInv
<1>3. QED BY <1>1, <1>2, PTL DEF Spec

(* Status::on_ebli_event: once the queue is drained the status shown is the  *)
(* connection's, unless the source's last event was dropped.                 *)
THEOREM StationStatusFollows == Spec => []StatusFollows
<1>1. IInv => StatusFollows
  <2> SUFFICES ASSUME IInv, Quiet PROVE StatusFollows
    BY DEF StatusFollows
  <2>1. queue = <<>> /\ pc["loop"] = "idle"
    BY DEF Quiet
  <2>2. NoRadio(queue) /\ \A shown, source :
                             WillShow(queue, shown, source) <=> shown = "CONNECTED"
    BY <2>1 DEF NoRadio, WillShow
  <2>3. QED
    BY <2>1, <2>2 DEF IInv, ShownInv, WifiShown, MqttShown, StatusFollows
<1>2. QED BY <1>1, StationInvariance, PTL

(* Mqttp.cpp:170-205: an address that comes after the registrations starts   *)
(* SNTP, and finds or gets an MQTT client unless esp-mqtt gives none.        *)
THEOREM StationServicesStarted == Spec => []ServicesStarted
<1>1. IInv => ServicesStarted
  <2>1. queue = <<>> => NoRadio(queue)
    BY DEF NoRadio
  <2>2. QED BY <2>1 DEF IInv, ServedInv, AllStarted, Attempted, ServicesStarted, Quiet, Serving
<1>2. QED BY <1>1, StationInvariance, PTL
=============================================================================
