# EBLi in TLA+

EBLi is a component library for ESP32 firmware: configuration properties kept
in flash, an MQTT client, over-the-air updates, an HTTP server, Wi-Fi
provisioning, a status LED and a few helpers.  Its components run on several
FreeRTOS tasks (the application's, the default event loop's, the task of
esp-mqtt, the HTTP server's, the update task) that share objects without locks
and talk through the default event loop.  The modules here model the parts
where that matters, TLC checks them on small instances, and TLAPS proves the
main safety properties for every instance.

## 1. Inventory

| Component | State | Operations | Runs on |
|---|---|---|---|
| MQTT client `mqtt/` | `m_client`, `m_isConnected`, `m_subscribers`, the topics recorded in each subscriber | `createSubscriber`, `createPublisher`, `publish`, topic and broker setters, handlers of connected, disconnected and data | callers; esp-mqtt's task; event loop (`on_got_ip`) |
| Configuration store `config/ConfigManager`, `ConfigProperty`, `ConfigPropertyConstraint`, `ConfigHttpModule` | NVS, `m_isOpen`, `m_autoCommitEnabled`, `m_restartCounter`, `m_properties`, each property's type, default, constraint, visibility | `open`, `close`, `commit`, `getValue`, `setValue`, `property`, `fromJson`, `toJson`, `getRestartCounter` | any task |
| Bridge `config/MqttBridge` | none of its own: properties, subscribers, event queue | `handleRegistered`, `handleChanged`, the command callback | event loop; the callback on esp-mqtt's task |
| OTA `ota/` | `otaHandle`, `lastError`, the URL pointer, the event group and its bit | `setUpdateUrl`, `startUpdate`, `work`, the HTTP and MQTT triggers | HTTP task, esp-mqtt's task, `ota_updater_task` |
| Wi-Fi `wifi/` | `wifi_connect_error_count`, the stored credentials | provisioning, start, got-IP, disconnect, count-down and restart | main task; event loop |
| Status `status/` | Wi-Fi and MQTT state, the LED pattern | one handler of all EBLi events, `updateBlinker` | event loop |
| Boot `core/ebli.cpp` | none | `init_all`: creates the components in a fixed order | main task |
| HTTP server `http/` | server handle, modules and their registered flags; buffers and JSON trees of a request | `startServer`, `stopServer`, `addModule`, `jsonRequestHelper`, `sendJsonResponse` | event loop, main task, HTTP task |
| HTTP modules `http/modules/` | an open file | system info, reboot, files | HTTP task |
| Utilities `utility/` | `Delayer`: delay and last time; `LedBlinker`: pattern and sequence start | `isTimedOut`, `peek`, `shouldBeOn`, setters | callers, event loop, timer task |
| Time, Sensors, FS | a flag each, sensor objects | set time zone and start SNTP, read and publish periodically, mount | main task, event loop, sensors task |

How they interact:

- *Events.*  Properties post REGISTERED and CHANGED with an unbounded wait,
  Wi-Fi, MQTT and OTA post their state with a wait of 100 ticks.  The event
  loop's task hands them to the bridge, to Status and to the OTA adapter.
- *MQTT.*  esp-mqtt runs the handlers on its task while it holds its API lock;
  subscribe and publish calls of other tasks take that lock.
- *Shared objects.*  `m_subscribers`, `m_isConnected`, `otaHandle`, `lastError`
  and the URL are plain fields read and written by several tasks.
- *The first address.*  `IP_EVENT_STA_GOT_IP` starts the web server, the MQTT
  client, SNTP and the OTA task, each from a handler registered by `init_all`.
- *Flash.*  Only NVS and the OTA partitions survive a restart.

What is hard, and what makes each component correct:

- MQTT client: `createSubscriber` (push, then test the connection) against
  `onMqttConnected` (set the flag, then walk the vector).  No subscriber may be
  missed, what is recorded in it must be what the broker sends it, a connection
  must bring it to the configured topics, and a broken link must not leave it
  behind.
- Store: restarts between set and commit, failing NVS calls, open after close,
  calls of several tasks without a lock.  What was reported as stored is what is
  found; what is written can be read; a counted boot is not counted again, which
  a request for the system info can break.
- Bridge: property events lag behind the property; a bounded queue and a lock
  held around a handler.  What is published catches up with what is stored,
  hidden properties stay hidden, nobody waits for ever.
- OTA: two ways to request an update against the task that carries it out, with
  a handle that is freed before it is forgotten.  No freed handle is used, an
  accepted update is carried out, what is reported is what happened.

- Wi-Fi, Status, boot: handlers registered before or after the event they wait
  for, a queue that drops status events, an 8-bit counter compared for equality.
  The LED shows what is, an address starts the services, credentials are wiped
  only after 15 failures in a row and then the device provisions itself.
- HTTP server: `addModule` against `startServer`, the same race as in the MQTT
  client; a table with a limit; requests that end in a dozen ways.  Every
  endpoint is served; a request is answered once, which a chunk that cannot be
  sent breaks, and gives back what it took.
- Utilities: clocks that roll over, a pattern read while it is set.  A delay is
  neither early nor late, the LED blinks its code and never stops.

`PROJECT.json` lists every hazard with its source line and the properties that
guard it, or why none does yet.

## 2. Modules

| Module | Models | Main correspondence |
|---|---|---|
| `MqttSubscriptions` | `Mqttp.cpp`, `MqttSubscriber.cpp` | a `pc` per task, one action per access to a shared field: `CreateSubscriber`, `PushBack`, `SetupCheck`, `SetupRead`, `SetupSubscribe`, `SetupStore` are the steps of `createSubscriber` and `setupOneSubscription`; `OnMqttConnected`, `SetupAllSubscriptions`, `NextSubscriber`, `AllSubscribed`, `OnMqttDisconnected`, `OnMqttData`, `OnMqttDataRest` are the handlers; `ChangeConfig` writes a topic property, `SetDeviceTopic` and `SetGroupTopic` are the two setters |
| `ConfigStore` | `ConfigManager.cpp`, storing half of `ConfigProperty.cpp`, constraints, POST /config, the counter in GET /system/info | a `pc` per task; `nvs` is what reads find, `survivors` what a restart may find. `SetValue`, `FromJson` and the end of `updateRestartCounter` set a value (`Write`), `AutoCommit` and `Commit` make durable, `Finish` is the return of `setValue`; `OpenNvs`, `UpdateRestartCounter`, `TestCounter`, `ReadCounter`, `AssignCounter`, `ReturnCounter` are the lines between opening NVS and storing the next count, on the main task and, from `GetSystemInfo` on, on the HTTP task; `Restart` loses RAM |
| `ConfigBridge` | `MqttBridge.cpp`, `createProperty`, `ConfigProperty::setValue`, `publish` | a bounded `queue`, a `pc` per task, the API lock as `pc[MqttTask]` |
| `Ota` | `OtaUpdater.cpp`, `OtaUpdaterPrivate.cpp`, the triggers | one action per access to `otaHandle`, `lastError`, the URL and the bit; the state of every handle given out by `esp_https_ota_begin` |
| `Station` | `ebli.cpp`, `Wifip.cpp`, `Status.cpp`'s handler, `Time.cpp`, `FS.cpp`, and what every component does on the first address | a `pc` for the main task, the event loop and the MQTT task; `InitFs` ... `InitTime` are the calls of `init_all`, `GotIpWeb` ... `GotIpTime` the handlers of the IP event in the order of registration, `CountDisconnect`, `ResetCredentials`, `PostDisconnected`, `Reconnect` the steps of `on_wifi_disconnect` |
| `WebServer` | `WebServerp.cpp` | one action per access to the handle, the vector and the flags, on the main task and the event loop |
| `HttpRequests` | `HttpModule.cpp`, `FileSystem.cpp` | `place` in the handler that runs; every branch and return an action; `heap` counts blocks |
| `Indicator` | `updateBlinker`, `LedBlinker.cpp` | three setters on the event loop against `FirstCallback`, `Callback`, `RestartSequence` of the timer's task |
| `Delayer` | `Delayer.cpp` | one action per call, `Tick` for time |
| `DurableStore` | what `ConfigStore` promises | a map written key by key, a sync, a crash |
| `ConfigMirror` | what `ConfigBridge` promises | a source, a copy of it, and the debts between them: a write makes one, a read of the source pays it, a message delivered brings the copy up to date |
| `UpdateService` | what `Ota` promises | one update at a time: accepted, running, installed, reported |
| `Parts` | `WebServer`, `Indicator`, `Delayer` and `HttpRequests` side by side | they share no variable and call nothing of one another, so a behaviour moves one of them |
| `MCMqttSubscriptions`, `MCConfigStore`, `MCConfigBridge`, `MCParts` | instances for TLC | the functions a `.cfg` cannot write |
| `*_proofs` | theorems | each extends its module; `Parts_proofs` extends `Parts` and the proofs of `WebServer` and `HttpRequests`, and holds those of `Delayer` and `Indicator` |

`Ota` and `Station` are checked directly: their constants are model values,
numbers and sets of them.  Within a module, the definitions marked "Mutant" change one
definition the way a mistake in the code would; the properties were tried
against them and each is violated by its own.

External code is modelled as the code here uses it: `esp_event_post` blocks
while the queue is full; esp-mqtt connects with a clean session, so the broker
forgets the subscriptions of a lost connection; `nvs_get_str` counts the
terminating zero; `esp_https_ota_begin` stores the handle at its end, or null
when it fails; `esp_https_ota_finish` frees it.  `esp_event_post` with a bounded
wait, or from the loop's own task, drops the event when the queue stays full;
`esp_event_handler_register` waits until the loop runs no handler; the TCP/IP
stack posts the address without waiting.  `httpd_register_uri_handler` refuses a
known handler and a full table, and takes no lock: of two calls at once one may
lose its entry.  `httpd_req_recv` gives no more than what is left of the body.

### Abstractions

- A topic string is a pair of a name and a subscriber; a property value is a
  number; a string in the store is its length, on which alone the code depends.
- The vector of subscribers is a set, visited in any order.  A vector buffer
  reallocated under an iteration is a panic (`Restart`) or, for two pushes, a
  lost entry (`PushBack`).
- Subscribing device and group topic is two rounds in `MqttSubscriptions` and one
  step in `ConfigBridge`, where only the waiting for the lock matters.
- In `MqttSubscriptions` a subscribe call fails only when the link is broken or
  not known to be up; one that fails for lack of memory with the link up is left
  out, and so is the subscriber it would leave behind until the next connection.
- In `ConfigStore` each task is in one call at a time and the calls of the tasks
  interleave.  A test of `isOpen` is one step with the NVS function behind it:
  when the manager is closed in between, the function fails on the handle, as if
  the test had failed.  The events of a write are the subject of `ConfigBridge`.
- In `Station` credentials are good or bad, a queue entry is an event's name; the
  properties that `Config::init`, Time and the application create are one kind
  of event, whose handling is the subject of `ConfigBridge`.  `ESP_ERROR_CHECK`
  that fails is a restart (`PowerCycle`).
- `Indicator` counts time in half timer periods; every duration in
  `updateBlinker` is a multiple of one.  A callback that is late by more than the
  millisecond `shouldBeOn` rounds away is an action of its own.
- `HttpRequests` counts memory in blocks, bodies and files in units; what an
  answer contains is left out.  A null block that is written to is a panic
  (`OutOfMemory`).
- History variables (named so in the modules) record what a property speaks of:
  which event was dropped, that two registrations collided, how often the LED
  went on, how many answers were sent, what a caller was told is stored, that an
  older value was put over the restart counter.

## 3. Runs

States are distinct states found by TLC.

| Run | Instance | States | Shows |
|---|---|---|---|
| `mqtt` | 2 subscribers, one of them with the group scope; 2 creators, one being the event loop; a fixed device topic and a group topic that changes between 2 names | 1.1 M | types; `SubscribedWhenSettled`, `RecordedIsSubscribed`, `CurrentTopicServed`; `EventuallySubscribed` |
| `config_store` | main and HTTP task; a string property with inputs of 62 and 65 characters beside the restart counter; 3 boots, counts up to 2 | 2.5 M | types; `AckedSurvives`, `ReadsBackOutsideGap`; `CounterGrows`, `CountedOnce`; `ImplementsDurableStore` |
| `config_bridge` | a visible int and a hidden string property, 1 writer, queue of 3, the values -1 and 1 | 40 k | types; `PublishedFollowsStored`; `LoopServesPosts`, `OnlyTheLockCycleBlocks`; `ImplementsConfigMirror` |
| `ota` | HTTP and MQTT task, 2 handles | 208 k | types; `NoUseAfterFree`, `NoHandleLeaked`, `OutcomeIsTrue`, `RefusesForAReason`; `WorkEnds`, `AcceptedUpdateRuns`; `ImplementsUpdateService` |
| `station` | queue of 2, wipe after 2 failures, a counter of 4 values, 1 property of the MQTT client | 159 k | types; `StatusFollows`, `ServicesStarted`; `CredentialsKept`; `BootCompletes`, `ProvisioningStarts` |
| `parts` | 3 modules with 5 handlers for a table of 4; a clock of 24 periods; `millis()` of 8 values, delays 0, 2, 4; bodies and files up to 3, a buffer of 3, 4 blocks | 186 k | types; `EveryEndpointServed`; `PulsesShown`, `LedKeepsBlinking`; `NeverEarly`, `NotLate`; `MemoryReturned`, `AnsweredOnce`, `HandlerAdvances`, `RequestEnds` |
| `mqtt_stale_topic` | as `mqtt`, with 1 name | - | violates `CommandsReachCallback` |
| `restart_counter` | main and HTTP task, no property, 3 boots, counts up to 4 | - | violates `AlreadyIncremented` |
| `config_read_back` | strings of 3 and 62 to 65 characters, and a read-only int property | - | violates `ReadsBack` |
| `bridge_lock_cycle`, `bridge_visibility` | as `config_bridge` | - | violate `CommandsComplete`, `TableRespected` |
| `ota_lost_start` | one requester, 2 handles | - | violates `StartedUpdateRuns` |

The instances are the smallest in which the interesting cases happen.

- `mqtt`: two subscribers are needed for one to be pushed while the other is
  visited; two creators for a lost push; a second name for a topic that changes
  between read and subscribe.  The group scope runs through both kinds of topic.
  `Settings` bounds what the two topic properties hold: the subscriber with the
  group scope meets a topic that changes and one that stays.  The proofs hold for
  any settings.
- `config_store`: the third boot finds what the second left of values of the
  first, and a counted boot, an uncounted one and one that compares with both
  fit in; the bounds are `MaxBoots` and `MaxCount`, at which the next count is
  not stored.  62 and 65 characters lie on the two sides of both limits, and the
  constraint turns 65 into 64, the longest string that is stored; 63 and 64 as
  inputs, and an int property, are in `config_read_back` only.  The proofs cover
  properties of both types, any inputs and any limits.
- `config_bridge`: with a queue of three the writer, the MQTT task and the event
  loop can fill it, which is all the cycle needs; the device's queue has 32
  entries, and the proofs hold for any length.  1 fits into the `uint8_t` of
  `publishValue`, -1 does not.
- `ota`: a second handle is needed for a download after or beside another; when
  the handles are used up, `esp_https_ota_begin` fails (the bound of that model).

- `station`: a queue of two fills up with one event of the driver and one of
  another source; a counter of four values wraps after the failures that a
  refused wipe leaves behind.
- `parts`: three modules, so that one is registered, one pending and one not yet
  added; a table one short of all handlers.  24 periods are longer than the
  longest sequence, so the clock rolls over within a sequence and between two.
  `millis()` of 8 values lets the delay of 4 straddle the roll-over from every
  start; `Horizon` bounds only the history variables.  A body of the size of the
  buffer is the first that does not fit, and 4 blocks let every allocation fail.

No run turns the deadlock check off: a restart is possible in every state of
every model except the last boot of `ConfigStore`, where the application can
still toggle auto-commit.  Bounds therefore never end a behaviour early.

### The disagreements found

1. `mqtt_stale_topic`.  A creator's subscribe fails because the link broke.
   Before it stores the empty topic, the MQTT task notices, reconnects,
   subscribes and records the topic; then the creator overwrites it.  The broker
   delivers, `isMatchForTopic` never matches (`Mqttp.cpp:255`).
2. `config_read_back`.  `setValue` refuses more than 64 characters, `getValue`
   refuses 64 bytes including the terminating zero (`ConfigManager.cpp:227`,
   `:254`): 63 and 64 characters are written and then read as the default.
3. `bridge_lock_cycle`.  A command makes the MQTT task post with an unbounded
   wait while it holds the API lock; the event loop waits for that lock
   (`ConfigProperty.cpp:143`).
4. `bridge_visibility`.  REGISTERED is handled before the chained
   `setVisibility` ran; the hidden property is subscribed (`MqttBridge.cpp:42`).
5. `ota_lost_start`.  Between `otaHandle = nullptr` and `xEventGroupClearBits` a
   request is accepted and its bit cleared; the handle then stays and refuses
   every later request (`OtaUpdater.cpp:32`).
6. `restart_counter`.  `updateRestartCounter` returns with the words "already
   incremented" when `m_restartCounter` is above 0 (`ConfigManager.cpp:336`), but
   `getRestartCounter` writes this field too, without a lock, in a GET
   /system/info on the HTTP task.  `open` sets `m_isOpen` before it counts the
   boot: a request in between fills in the count of the last boot, and this boot
   is never counted.  Or the request reads the stored count, the main task stores
   and assigns the next one, and the request assigns what it has read (line 271):
   on the first boot that is 0, and the next `open` counts the boot again; on
   later boots the old count is reported until the next restart.

Three more are part of the models and have no run of their own, because a theorem,
an invariant or a single line shows them:

7. `publishValue` takes `uint8_t` (`MqttBridge.cpp:88`): 300 is published as 44 and
   -1 as 255.  `PublishedExactlyInByteRange` proves that an int is published
   wrongly exactly when it is outside 0..255; `config_bridge` has -1 among its
   values.
8. `setDeviceTopic` writes the property of the group topic and `setGroupTopic`
   that of the device topic (`Mqttp.cpp:124`, `:142`; actions `SetDeviceTopic`,
   `SetGroupTopic`).
9. A chunk cannot be sent, on a time-out with the client still there: `sendFile`
   ends the response and sends an error, and its caller ends the response once
   more, and closes the closed file once more (`FileSystem.cpp:150`, `:82`,
   `:85`).  `AnsweredOnce` counts these three answers, and one in every other
   branch.

What does hold beside them is stated as carefully: `OnlyTheLockCycleBlocks` says
the third is the only way to block, `AcceptedUpdateRuns` that the fifth, and
requests that overlap before a handle exists (history variable `raced`), are the
only ways to lose an update, `AnsweredOnce` that no branch but that of the ninth
answers more than once.  Other theorems draw the line around the other faults:
`TopicsRecorded` says that the first is the only way in which a recorded topic and
a subscribed one part, `OnlyTheGapIsLost` that nothing but the two lengths of the
second is read back wrongly, `UpdaterNotShut` that requests are refused for good
only after a race, `CounterIncreases` and `BootCountedOnce` that the counter of a
counted boot is wrong only after the late assignment of the sixth.  That every
boot is counted does not hold, by its first half, and is not claimed.

Elsewhere the same care is in the premises.  `CurrentTopicServed` exempts
subscribers that are older than the last change of a topic and that no connection
has set up since, because the code follows such a change only then, and those
whose creator held a topic built before the change when the connection came.
`StatusFollows` holds but for the last event of a source that found the queue
full, which nothing repeats; `ServicesStarted` but for an address that comes
before `init_all` is done (the source marks the order with a FIXME), and it says
of the MQTT client that it was made, unless `esp_mqtt_client_init` gave none: a
client whose start failed stays as it is (`Mqttp.cpp:170`).
`EveryEndpointServed` exempts a full table and two registrations that run into
each other, so it says nothing of a module of which only a part was registered
(`WebServerp.cpp:82`); `MemoryReturned` names the two blocks that stay behind: the
`FileResponseHandler` of every file (`FileSystem.cpp:59`) and the buffer of a body
that breaks off (`HttpModule.cpp:57`).

### Fairness

- Every ready task is scheduled: weak fairness of the steps of a call that has
  begun.  FreeRTOS is preemptive and the tasks block in the calls modelled.
- Waiting for the API lock, and for a slot of the event queue, is strongly fair:
  both are FreeRTOS queues, which serve the waiting task of highest priority
  that waited longest, and esp-mqtt releases its lock while it polls the socket.
- esp-mqtt reconnects and notices dead links (weak fairness of
  `OnMqttConnected`, `OnMqttDisconnected`); a download ends, at the latest by
  the time-out of the HTTP client (strong fairness of `PerformEnds`).
- `Station`: the main task's waits for the loop's mutex and for room are served
  (strong fairness of its steps); an attempt to connect ends; the flash does not
  refuse to wipe the credentials for ever (strong fairness of
  `ResetCredentials`).  `BootCompletes` and `ProvisioningStarts` speak of
  behaviours in which power cycles stop.
- The LED's timer fires and a setter that was called returns; `LedKeepsBlinking`
  assumes that states stop changing and callbacks stop being late.
- The HTTP task runs, and `recv` and `send` return, at the latest with a time-out:
  weak fairness of `Handler`, without which step it takes being fair.
- Nothing forces the application to create, write or request anything, the
  broker to send, a link to break or the device to restart.

## 4. Theorems

All are proved by TLAPS for every value of the constants that satisfies the
assumptions of the module.  The assumptions only say that tasks, model values and
sets are distinct where the code's are, and that bounds are positive.

| Theorem | Statement | Argument |
|---|---|---|
| `TypeCorrect`, `NoSubscriberMissed`, `TopicsRecorded`, `CurrentTopics` (`MqttSubscriptions_proofs`) | `TypeOK`, `SubscribedWhenSettled`, `RecordedIsSubscribed`, `CurrentTopicServed` | `SubscribedWhenSettled` is not inductive: it says nothing while a task is at work. `EveryoneCovered` adds who will still subscribe a subscriber: the session has its topics, or the MQTT task is about to walk the vector or has it in `todo`, or a task is in its set-up with the topics already passed recorded (`Progress`). `LinkImpliesConnected` excludes the empty session of a new connection from counting. `RecordsInv` says the same of the topics written into the subscriber: each is recorded, subscribed and, unless the subscriber is in `outdated`, built from the present configuration, or a task will still record it (`EveryoneRecorded`); what a task is about to record was subscribed in the present session (`FromThisConnection`), and what it is about to subscribe is up to date (`AboutToSubscribe`). `FromThisConnection` is false for a creator that a reconnection overtook, which is why the history variable `overtaken` has to name it. |
| `StoreTypeCorrect`, `ReportedValuesSurvive`, `CounterIncreases`, `BootCountedOnce`, `OnlyTheGapIsLost`, `StoreIsDurable` (`ConfigStore_proofs`) | `TypeOK`, `AckedSurvives`, `CounterGrows`, `CountedOnce`, `ReadsBackOutsideGap`, `ImplementsDurableStore` | A value is reported by `Finish`, one step or many after the commit. `WritesInv` carries it there: a task past the commit whose `nvs_set` is the last of its key (`latest`) holds the value that NVS finds and the only one that may survive, however other tasks write and commit in between. With it `StepKinds` shows that every step is a write of one key, a sync, a crash or a stutter of `DurableStore`. `CounterInv` bounds every count a restart may find by the last counted boot, puts a count under way above it, and says which values the two tasks may hold at each line of `getRestartCounter` as long as nothing was overwritten. `ShortStrings`: what the length check of `setValue` leaves in NVS, and after any restart, so that `getValue` refuses no other committed length than 63 and 64. |
| `BridgeTypeCorrect`, `PublishedFollows`, `PublishedExactlyInByteRange`, `BridgeIsMirror`, `OnlyTheCycleStopsTheLoop` (`ConfigBridge_proofs`) | `TypeOK`, `PublishedFollowsStored`, `ImplementsConfigMirror`, `LoopServesPosts`; `PublishedExactlyInByteRange`: an int is published as it is stored where and only where it is in 0..255 | A write *waits* from `setValue` until its event is handled. `ValueCurrent` and `Follows`: what is about to be published, and what was published last, is the stored value or a write is waiting. `StillWaiting` shows that only the handler of the property's own event, and a restart, end the waiting. With it each step maps to one of `ConfigMirror`: `setValue` is a `Write`, `handleChanged` a `Take` or, without a connection or for a hidden property, a `Miss`, the end of `publish` a `Deliver` or `Lose`; enqueuing, blocking and lock steps map to none, because an event moves from a task to the queue in one step. `Backlog` counts two for a queued event and one for the work on one; no handler of the bridge posts, so each step of the loop lowers it. |
| `OtaTypeCorrect`, `FreedHandleNeverUsed`, `NoDownloadLost`, `OutcomeTruthful`, `UpdaterNotShut`, `UpdaterIsService` (`Ota_proofs`) | `TypeOK`, `NoUseAfterFree`, `NoHandleLeaked`, `OutcomeIsTrue`, `RefusesForAReason`, `ImplementsUpdateService` | `HandleValid` alone, for all interleavings, gives the first; the others need, while nothing raced, that one request at a time is past the test of `isActive` (`OneStarts`) and what handle and error are at each step (`RequestState`, `WorkState`). `InHand`: who will clear `otaHandle`, the requester that has just stored it or the task. The same invariant maps each step to one of `UpdateService`, or to none. |
| `StationTypes`, `StationKeepsCredentials`, `StationStatusFollows`, `StationServicesStarted` (`Station_proofs`) | `TypeOK`, `CredentialsKept`, `StatusFollows`, `ServicesStarted` | `FailInv`: the counter never exceeds the failures in a row, up to the limit. `DriverInv` ties the driver's state to the events that are queued. `ShownInv`: what the status shows, or the last event of a source in the queue, agrees with the connection. `ServedInv`: who is registered at which step of the boot, and which services the handlers that have run have started, or were refused by esp-mqtt. |
| `WebTypeCorrect`, `NoEndpointMissed` (`WebServer_proofs`) | `WebTypeOK`, `EveryEndpointServed` | `TaskProgress`: what a task has left of a module's handlers is all that the server lacks. `FlagMeansServed`: a module marked registered, which the first of its handlers does, is served or still in the hands of the task that marked it. Both hold while the server is live and no two registrations collided. |
| `DelayTypeCorrect`, `DelayNeverEarly`, `DelayNotLate` (`Parts_proofs`) | `DelayTypeOK`, `NeverEarly`, `NotLate` | `NeverAhead`: a roll-over may hide time from the unsigned difference, never add any. `Late`: what the difference does not count is the wait for the first poll and, once the fallback has set `m_lastTime` to 0, less than one delay; hence twice the delay and the gap. |
| `LedTypeCorrect`, `LedShowsPulses` (`Parts_proofs`) | `LedTypeOK`, `PulsesShown` | `SettersDone`: after each of the three setters the pattern agrees with the status so far. `Counted`: in an undisturbed sequence the LED is on where the pattern says (`Level`), and the number of times it went on is that of the pulses begun (`Begun`); `NextPulse` carries it over one timer period, for the five patterns of `updateBlinker`. |
| `HttpTypeCorrect`, `HttpReturnsMemory`, `HttpAnswersOnce`, `HttpHandlerAdvances` (`HttpRequests_proofs`) | `HttpTypeOK`, `MemoryReturned`, `AnsweredOnce`, `HandlerAdvances` | `Accounts` gives the blocks held at every place of the handlers, `Here` what a place says of the request, the answers already given included (two where a chunk has failed, none elsewhere). For `HandlerAdvances`, `LeadsDown` lists which places can follow which, with what is left of the body, and `StepsLeft` falls along every such pair. |
| `PartsTypeCorrect`, `PartsKeepPromises` (`Parts_proofs`) | `PartsTypeOK`, and what the parts promise, under `PartsSpec` | Every step of the composition is a step of one part and a stutter of the others; the theorems of the parts then carry over to the specification that the run `parts` checks. |

Each inductive invariant was also checked by TLC on the instances above before it
was proved.

Only model-checked: the liveness properties (`EventuallySubscribed`,
`OnlyTheLockCycleBlocks`, `WorkEnds`, `AcceptedUpdateRuns`, `BootCompletes`,
`ProvisioningStarts`, `LedKeepsBlinking`, `RequestEnds`), which are out of the
proof system's reach.  The safety core of some of them is proved: a handler that
runs gets nearer to its end with every step (`HttpHandlerAdvances`, with the
fairness of `Handler` it is `RequestEnds`), a subscriber that lacks a topic has a
task that will subscribe it (`NoSubscriberMissed`), an updater that refuses has
an update under way (`UpdaterNotShut`), a full queue is being emptied unless the
lock cycle has closed (`OnlyTheCycleStopsTheLoop`).

## 5. What is not modelled

- Sensors: one task that reads hardware and publishes.  It shares nothing with
  others but `publish`, which `ConfigBridge` models, and the period, a property
  that is only read.
- `ConfigManager::toJson` and the publication of OTA events by `OtaMqttAdapter`
  only read.
- The contents of answers (system info, MIME types, file names), of SPIFFS, of the
  provisioning dialogue, and the time zone.
- `LedBlinker::restartTimer` and its destructor: nothing calls them.
- The race of two tasks that create the same property or singleton: the code of
  the repository does not do it.
- What a client or an application should expect after `stopServer`: the dangling
  handle is part of `WebServer`, but no document says what follows.

## 6. Plan

Done: `MqttSubscriptions`, `Ota`, `ConfigStore`, `ConfigBridge`, `Station`,
`WebServer`, `HttpRequests`, `Indicator`, `Delayer`, the abstract specifications
`DurableStore`, `UpdateService` and `ConfigMirror`, and the theorems above.

Worth adding, should the code grow there: the sensors' task once its values go
through events (a TODO in `Sensors.cpp`), OTA events as messages, and an
abstract status display that `Station` implements.
