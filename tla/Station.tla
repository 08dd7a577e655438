------------------------------- MODULE Station -------------------------------
(***************************************************************************)
(* The device as a Wi-Fi station: core/ebli.cpp (the boot order),          *)
(* wifi/Wifip.cpp, status/Status.cpp and what the components do when the   *)
(* station gets an IP address, around the default event loop of ESP-IDF.   *)
(*                                                                         *)
(* The main task runs init_all and then the application; the event loop's  *)
(* task hands events to the handlers registered for them, in the order of  *)
(* registration; the MQTT task reports its connection; the Wi-Fi driver    *)
(* reports the station's.  The loop holds its mutex while it runs handlers *)
(* and esp_event_handler_register takes it: pc["loop"] = "idle" is "the    *)
(* mutex is free".                                                         *)
(*                                                                         *)
(* Credentials live in NVS and survive a restart, the rest is RAM.  They   *)
(* are "good" or "bad": whether an access point accepts them.              *)
(***************************************************************************)
EXTENDS Integers, Sequences

CONSTANTS
  QueueSize,                     \* length of the event queue
  RESET_WIFI_AFTER_ERROR_COUNT,
  CounterRange,                  \* 256: wifi_connect_error_count is a uint8_t
  ClientProperties               \* properties Mqttp::Config::init creates

ASSUME StationAssumption ==
  /\ QueueSize \in Nat \ {0}
  /\ CounterRange \in Nat
  /\ RESET_WIFI_AFTER_ERROR_COUNT \in 1..(CounterRange - 1)
  /\ ClientProperties \in Nat

Sources == {"wifi", "mqtt"}
Components == {"web", "wifi", "mqtt", "time"}

VARIABLES
  creds,                    \* stored Wi-Fi credentials: none, good, bad
  driver,                   \* off, connecting, up, down, or provisioning
  pc,                       \* where the tasks main, loop and mqtt are
  queue,                    \* the events waiting for the loop's task
  ipHandlers,               \* handlers registered for IP_EVENT_STA_GOT_IP
  wifi_connect_error_count,
  started,                  \* the web server and SNTP, once started
  m_client,                 \* of Mqttp: null, stopped (start failed), running
  m_isConnected,            \* of Mqttp
  properties,               \* properties that Config::init has yet to create
  status,                   \* m_wifiState and m_mqttState of Status
  dropped,                  \* history: sources whose last event was dropped
  early,                    \* history: the last address came before init_all was done
  failures,                 \* history: disconnects in a row, up to the limit
  refused                   \* history: no client could be created at the last address

radio == <<creds, driver>>
services == <<started, m_client, m_isConnected, properties>>
history == <<dropped, early, failures, refused>>
vars == <<radio, pc, queue, ipHandlers, wifi_connect_error_count, services, status, history>>

Init ==
  /\ creds \in {"none", "good", "bad"}
  /\ driver = "off"
  /\ pc = [main |-> "fs", loop |-> "idle", mqtt |-> "idle"]
  /\ queue = <<>>
  /\ ipHandlers = {}
  /\ wifi_connect_error_count = 0
  /\ started = {}
  /\ m_client = "null" /\ m_isConnected = FALSE /\ properties = ClientProperties
  /\ status = [wifi |-> "DISCONNECTED", mqtt |-> "DISCONNECTED"]
  /\ dropped = {} /\ early = FALSE /\ failures = 0 /\ refused = FALSE

Goto(t, from, to) == pc[t] = from /\ pc' = [pc EXCEPT ![t] = to]

HasRoom == Len(queue) < QueueSize

(* esp_event_post with portMAX_DELAY *)
Post(event) == HasRoom /\ queue' = Append(queue, event)

(* esp_event_post of a status event with EBLI_EVENTS_MAX_TICKS_TO_POST: when *)
(* the queue stays full the event is dropped.                                *)
PostStatus(source, state) ==
  \/ /\ Post([name |-> "STATUS", source |-> source, state |-> state])
     /\ dropped' = dropped \ {source}
  \/ /\ ~HasRoom
     /\ dropped' = dropped \union {source}
     /\ UNCHANGED queue

Event(name) == [name |-> name]

-----------------------------------------------------------------------------
(* init_all, on the main task *)

(* Status::Status and FS::init.  A flash without free pages is erased, the   *)
(* Wi-Fi credentials with it; an unreadable SPIFFS partition aborts          *)
(* (PowerCycle).                                                             *)
InitFs ==
  /\ Goto("main", "fs", "http")
  /\ creds' \in {creds, "none"}
  /\ UNCHANGED <<driver, queue, ipHandlers, wifi_connect_error_count, services, status, history>>

Register(component) ==
  /\ pc["loop"] = "idle"
  /\ ipHandlers' = ipHandlers \union {component}

InitHttp ==
  /\ Goto("main", "http", "wifi")
  /\ Register("web")
  /\ UNCHANGED <<radio, queue, wifi_connect_error_count, services, status, history>>

(* Wifip::provisionWifi up to wifi_prov_mgr_is_provisioned *)
InitWifi ==
  /\ Goto("main", "wifi", IF creds = "none" THEN "provision" ELSE "start")
  /\ Register("wifi")
  /\ UNCHANGED <<radio, queue, wifi_connect_error_count, services, status, history>>

(* startProvisioning; WIFI_PROV_START runs on the caller's task.             *)
StartProvisioning ==
  /\ Goto("main", "provision", "config")
  /\ driver' = "provisioning"
  /\ PostStatus("wifi", "PROVISIONING")
  /\ UNCHANGED <<creds, ipHandlers, wifi_connect_error_count, services, status, early, failures, refused>>

(* startWifiStation: the event, then esp_wifi_start and esp_wifi_connect     *)
PostConnecting ==
  /\ Goto("main", "start", "connect")
  /\ PostStatus("wifi", "CONNECTING")
  /\ UNCHANGED <<radio, ipHandlers, wifi_connect_error_count, services, status, early, failures, refused>>

StartStation ==
  /\ Goto("main", "connect", "config")
  /\ driver' = "connecting"
  /\ UNCHANGED <<creds, queue, ipHandlers, wifi_connect_error_count, services, status, history>>

(* MqttBridge::setup and ConfigManager::init *)
InitConfig ==
  /\ pc["loop"] = "idle"
  /\ Goto("main", "config", "mqtt")
  /\ UNCHANGED <<radio, queue, ipHandlers, wifi_connect_error_count, services, status, history>>

(* Mutant: Mqttp does not register for the address. *)
InitMqttUnregistered ==
  /\ Goto("main", "mqtt", "time")
  /\ UNCHANGED <<radio, queue, ipHandlers, wifi_connect_error_count, services, status, history>>

InitMqtt ==
  /\ Goto("main", "mqtt", "time")
  /\ Register("mqtt")
  /\ UNCHANGED <<radio, queue, wifi_connect_error_count, services, status, history>>

InitTime ==
  /\ Goto("main", "time", "timezone")
  /\ Register("time")
  /\ UNCHANGED <<radio, queue, wifi_connect_error_count, services, status, history>>

(* Time::initConfig creates its property, the application its own: the post  *)
(* of REGISTERED waits for room.                                             *)
CreateProperty ==
  /\ pc["main"] \in {"timezone", "app"}
  /\ pc' = [pc EXCEPT !["main"] = "app"]
  /\ Post(Event("PROPERTY"))
  /\ UNCHANGED <<radio, ipHandlers, wifi_connect_error_count, services, status, history>>

-----------------------------------------------------------------------------
(* The Wi-Fi driver and the user who provisions the device *)

(* The TCP/IP stack posts the address without waiting. *)
Associate ==
  /\ driver = "connecting" /\ creds = "good"
  /\ driver' = "up"
  /\ \/ Post(Event("GOT_IP")) /\ UNCHANGED dropped
     \/ ~HasRoom /\ dropped' = dropped \union {"wifi"} /\ UNCHANGED queue
  /\ UNCHANGED <<creds, pc, ipHandlers, wifi_connect_error_count, services, status, early, failures, refused>>

Disconnect ==
  /\ driver \in {"connecting", "up"}
  /\ driver' = "down"
  /\ Post(Event("STA_DISCONNECTED"))
  /\ UNCHANGED <<creds, pc, ipHandlers, wifi_connect_error_count, services, status, history>>

(* WIFI_PROV_CRED_RECV: the provisioning manager stores what the user sent   *)
(* and connects with it.                                                     *)
Provision ==
  /\ driver = "provisioning"
  /\ driver' = "connecting"
  /\ creds' \in {"good", "bad"}
  /\ UNCHANGED <<pc, queue, ipHandlers, wifi_connect_error_count, services, status, history>>

-----------------------------------------------------------------------------
(* The event loop's task *)

Dispatch(name, to) ==
  /\ queue # <<>> /\ Head(queue).name = name
  /\ queue' = Tail(queue)
  /\ Goto("loop", "idle", to)

(* IP_EVENT_STA_GOT_IP: the handlers in the order of their registration      *)
GotIp ==
  /\ Dispatch("GOT_IP", "got_web")
  /\ early' = (pc["main"] \notin {"timezone", "app"}) /\ refused' = FALSE
  /\ UNCHANGED <<radio, ipHandlers, wifi_connect_error_count, services, status, dropped, failures>>

(* WebServerp::startServer; httpd_start may fail *)
GotIpWeb ==
  /\ Goto("loop", "got_web", "got_wifi")
  /\ started' \in {started, started \union ({"web"} \intersect ipHandlers)}
  /\ UNCHANGED <<radio, queue, ipHandlers, wifi_connect_error_count, m_client, m_isConnected,
                 properties, status, history>>

(* Mutant: on_got_ip without the reset of the error counter. *)
GotIpWifiKeepsCount ==
  /\ Goto("loop", "got_wifi", "got_mqtt")
  /\ PostStatus("wifi", "CONNECTED")
  /\ failures' = 0
  /\ UNCHANGED <<radio, ipHandlers, wifi_connect_error_count, services, status, early, refused>>

(* Wifip::on_got_ip *)
GotIpWifi ==
  /\ Goto("loop", "got_wifi", "got_mqtt")
  /\ wifi_connect_error_count' = 0
  /\ PostStatus("wifi", "CONNECTED")
  /\ failures' = 0
  /\ UNCHANGED <<radio, ipHandlers, services, status, early, refused>>

(* Mqttp::initializeAndStartClient, unless there is a client *)
GotIpMqtt ==
  /\ IF "mqtt" \in ipHandlers /\ m_client = "null"
       THEN Goto("loop", "got_mqtt", "init_client")
       ELSE Goto("loop", "got_mqtt", "got_time")
  /\ UNCHANGED <<radio, queue, ipHandlers, wifi_connect_error_count, services, status, history>>

(* Mutant: the event loop's own task waits for room in its queue.            *)
CreateClientPropertyWaits ==
  /\ properties > 0
  /\ Goto("loop", "init_client", "init_client")
  /\ properties' = properties - 1
  /\ Post(Event("PROPERTY"))
  /\ UNCHANGED <<radio, ipHandlers, wifi_connect_error_count, started, m_client,
                 m_isConnected, status, history>>

(* Mqttp::Config::init creates properties on the loop's own task, for which  *)
(* esp_event_post never waits: with a full queue REGISTERED is lost, and     *)
(* with it the property's wiring to MQTT.                                    *)
CreateClientProperty ==
  /\ properties > 0
  /\ Goto("loop", "init_client", "init_client")
  /\ properties' = properties - 1
  /\ Post(Event("PROPERTY")) \/ (~HasRoom /\ UNCHANGED queue)
  /\ UNCHANGED <<radio, ipHandlers, wifi_connect_error_count, started, m_client,
                 m_isConnected, status, history>>

(* esp_mqtt_client_init may give no client, which is left to the next        *)
(* address; esp_mqtt_client_start may fail, which is never tried again.      *)
StartMqttClient ==
  /\ properties = 0
  /\ Goto("loop", "init_client", "got_time")
  /\ m_client' \in {"null", "stopped", "running"}
  /\ refused' = (m_client' = "null")
  /\ UNCHANGED <<radio, queue, ipHandlers, wifi_connect_error_count, started, m_isConnected,
                 properties, status, dropped, early, failures>>

(* Time's on_got_ip: sntp_init *)
GotIpTime ==
  /\ Goto("loop", "got_time", "idle")
  /\ started' = started \union ({"time"} \intersect ipHandlers)
  /\ UNCHANGED <<radio, queue, ipHandlers, wifi_connect_error_count, m_client, m_isConnected,
                 properties, status, history>>

(* Mutant: a wider counter. *)
CountWide == wifi_connect_error_count + 1

(* Mutant: a counter that stays at its largest value. *)
CountSaturates ==
  IF wifi_connect_error_count < CounterRange - 1 THEN wifi_connect_error_count + 1
                                                 ELSE wifi_connect_error_count

(* Wifip::on_wifi_disconnect: counts, and at the limit wipes the credentials *)
Count == (wifi_connect_error_count + 1) % CounterRange

CountFailure(to) ==
  /\ Dispatch("STA_DISCONNECTED", to)
  /\ wifi_connect_error_count' = Count
  /\ failures' = IF failures < RESET_WIFI_AFTER_ERROR_COUNT THEN failures + 1 ELSE failures
  /\ UNCHANGED <<driver, ipHandlers, services, status, dropped, early, refused>>

(* below or beyond the limit, or esp_wifi_set_config fails *)
CountDisconnect == CountFailure("disconnected") /\ UNCHANGED creds

ResetCredentials ==
  /\ Count = RESET_WIFI_AFTER_ERROR_COUNT
  /\ CountFailure("countdown")
  /\ creds' = "none"

PostDisconnected ==
  /\ Goto("loop", "disconnected", "reconnect")
  /\ PostStatus("wifi", "DISCONNECTED")
  /\ UNCHANGED <<radio, ipHandlers, wifi_connect_error_count, services, status, early, failures, refused>>

Reconnect ==
  /\ Goto("loop", "reconnect", "idle")
  /\ driver' = "connecting"
  /\ UNCHANGED <<creds, queue, ipHandlers, wifi_connect_error_count, services, status, history>>

(* Status: on_ebli_event *)
ShowStatus ==
  /\ Dispatch("STATUS", "idle")
  /\ status' = [status EXCEPT ![Head(queue).source] = Head(queue).state]
  /\ UNCHANGED <<radio, ipHandlers, wifi_connect_error_count, services, history>>

(* config/MqttBridge.cpp, the subject of ConfigBridge *)
HandleProperty ==
  /\ Dispatch("PROPERTY", "idle")
  /\ UNCHANGED <<radio, ipHandlers, wifi_connect_error_count, services, status, history>>

-----------------------------------------------------------------------------
(* The MQTT task: the flag, then the event *)

OnMqttConnected ==
  /\ m_client = "running" /\ ~m_isConnected /\ driver = "up"
  /\ Goto("mqtt", "idle", "post")
  /\ m_isConnected' = TRUE
  /\ UNCHANGED <<radio, queue, ipHandlers, wifi_connect_error_count, started, m_client,
                 properties, status, history>>

OnMqttDisconnected ==
  /\ m_isConnected
  /\ Goto("mqtt", "idle", "post")
  /\ m_isConnected' = FALSE
  /\ UNCHANGED <<radio, queue, ipHandlers, wifi_connect_error_count, started, m_client,
                 properties, status, history>>

(* Mutant: the handler posts the other event. *)
PostMqttSwapped ==
  /\ Goto("mqtt", "post", "idle")
  /\ PostStatus("mqtt", IF m_isConnected THEN "DISCONNECTED" ELSE "CONNECTED")
  /\ UNCHANGED <<radio, ipHandlers, wifi_connect_error_count, services, status, early, failures, refused>>

PostMqtt ==
  /\ Goto("mqtt", "post", "idle")
  /\ PostStatus("mqtt", IF m_isConnected THEN "CONNECTED" ELSE "DISCONNECTED")
  /\ UNCHANGED <<radio, ipHandlers, wifi_connect_error_count, services, status, early, failures, refused>>

-----------------------------------------------------------------------------
(* All but the credentials is lost. *)
Restart ==
  /\ driver' = "off"
  /\ pc' = [main |-> "fs", loop |-> "idle", mqtt |-> "idle"]
  /\ queue' = <<>>
  /\ ipHandlers' = {}
  /\ wifi_connect_error_count' = 0
  /\ started' = {}
  /\ m_client' = "null" /\ m_isConnected' = FALSE /\ properties' = ClientProperties
  /\ status' = [wifi |-> "DISCONNECTED", mqtt |-> "DISCONNECTED"]
  /\ dropped' = {} /\ early' = FALSE /\ failures' = 0 /\ refused' = FALSE
  /\ UNCHANGED creds

(* the end of countdownAndRestart *)
CountedDown == pc["loop"] = "countdown" /\ Restart

(* power loss, a panic, POST /system/reboot, or ESP_ERROR_CHECK in init_all  *)
PowerCycle == Restart

Main ==
  \/ InitFs \/ InitHttp \/ InitWifi \/ StartProvisioning
  \/ PostConnecting \/ StartStation \/ InitConfig \/ InitMqtt \/ InitTime
  \/ CreateProperty

LoopWork ==
  \/ GotIpWeb \/ GotIpWifi \/ GotIpMqtt \/ CreateClientProperty \/ StartMqttClient \/ GotIpTime
  \/ PostDisconnected \/ Reconnect \/ CountedDown

Loop ==
  \/ GotIp \/ CountDisconnect \/ ResetCredentials \/ ShowStatus \/ HandleProperty
  \/ LoopWork

Mqtt == OnMqttConnected \/ OnMqttDisconnected \/ PostMqtt

Driver == Associate \/ Disconnect \/ Provision

Next == Main \/ Loop \/ Mqtt \/ Driver \/ PowerCycle

(* Ready tasks are scheduled; the waits for the loop's mutex and for room    *)
(* are served in turn; an attempt to connect ends; the flash does not refuse *)
(* to wipe the credentials for ever.                                         *)
Attempt == driver = "connecting" /\ (Associate \/ Disconnect)

Fairness ==
  /\ SF_vars(pc["main"] # "app" /\ Main)
  /\ WF_vars(Loop) /\ SF_vars(ResetCredentials)
  /\ SF_vars(Attempt)
  /\ WF_vars(PostMqtt)

Spec == Init /\ [][Next]_vars
FairSpec == Spec /\ Fairness

-----------------------------------------------------------------------------
Events == [name : {"GOT_IP", "STA_DISCONNECTED", "PROPERTY"}]
            \union [name : {"STATUS"}, source : Sources,
                    state : {"PROVISIONING", "CONNECTING", "CONNECTED", "DISCONNECTED"}]

(* Type invariant: the fields of the components, the tasks' places and the   *)
(* queue within its length.                                                  *)
TypeOK ==
  /\ creds \in {"none", "good", "bad"}
  /\ driver \in {"off", "connecting", "up", "down", "provisioning"}
  /\ pc \in [main : {"fs", "http", "wifi", "provision", "start", "connect", "config", "mqtt",
                     "time", "timezone", "app"},
             loop : {"idle", "got_web", "got_wifi", "got_mqtt", "init_client", "got_time",
                     "disconnected", "reconnect", "countdown"},
             mqtt : {"idle", "post"}]
  /\ queue \in Seq(Events) /\ Len(queue) <= QueueSize
  /\ ipHandlers \subseteq Components
  /\ wifi_connect_error_count \in 0..(CounterRange - 1)
  /\ started \subseteq {"web", "time"}
  /\ m_client \in {"null", "stopped", "running"} /\ m_isConnected \in BOOLEAN
  /\ properties \in 0..ClientProperties
  /\ status \in [Sources -> {"PROVISIONING", "CONNECTING", "CONNECTED", "DISCONNECTED"}]
  /\ dropped \subseteq Sources /\ early \in BOOLEAN /\ refused \in BOOLEAN
  /\ failures \in 0..RESET_WIFI_AFTER_ERROR_COUNT

Quiet == queue = <<>> /\ pc["loop"] = "idle"

(* README, Events: Status is told about the overall status.  Once the queue  *)
(* is drained it shows a connection exactly while there is one, unless the   *)
(* last event of that source found the queue full.                           *)
StatusFollows ==
  Quiet =>
    /\ "wifi" \notin dropped => (status["wifi"] = "CONNECTED" <=> driver = "up")
    /\ "mqtt" \notin dropped /\ pc["mqtt"] = "idle" =>
         (status["mqtt"] = "CONNECTED" <=> m_isConnected)

(* Mqttp.cpp:170-205: each address is served.  SNTP runs, and there is an    *)
(* MQTT client, unless esp-mqtt could not create one for this very address   *)
(* (line 196): a later address tries again.  What the code does not promise: *)
(* a client whose start failed stays stopped (line 170); an address that     *)
(* comes before init_all is done may be missed (the FIXME at ebli.cpp:91),   *)
(* and so is one whose event finds the queue full.                           *)
ServicesStarted ==
  Quiet /\ driver = "up" /\ ~early /\ "wifi" \notin dropped =>
    "time" \in started /\ (m_client = "null" => refused)

(* Wifip.cpp:159: the disconnect handler wipes the credentials only after    *)
(* the limit of failures without an address in between.                      *)
CredentialsKept ==
  [][creds # "none" /\ creds' = "none" =>
       pc["main"] = "fs" \/ failures' = RESET_WIFI_AFTER_ERROR_COUNT]_vars

Undisturbed == <>[][~PowerCycle]_vars

(* init_all returns: no wait for the loop's mutex or its queue lasts.        *)
BootCompletes == Undisturbed => <>[](pc["main"] = "app")

(* README: provisioning starts by itself if the configured Wi-Fi cannot be   *)
(* connected, also when the credentials cannot be wiped at the first try.    *)
ProvisioningStarts ==
  <>[][PowerCycle => pc["loop"] = "countdown"]_vars =>
    (creds = "bad" ~> driver = "provisioning")
=============================================================================
