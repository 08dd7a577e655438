--------------------------------- MODULE Ota --------------------------------
(***************************************************************************)
(* ota/OtaUpdater.cpp and ota/OtaUpdaterPrivate.cpp: tasks that request an *)
(* update (the HTTP server's task through OtaHttpModule, the MQTT task     *)
(* through OtaMqttAdapter) against the task that carries it out.  They     *)
(* share otaHandle, lastError, the URL pointer and the event group's bit;  *)
(* one step per access to a shared variable.                               *)
(*                                                                         *)
(* A handle of esp_https_ota is an element of Handles that is used once:   *)
(* "open" from esp_https_ota_begin, "complete" when esp_https_ota_perform  *)
(* has fetched the whole image, "freed" by esp_https_ota_finish.  Bound:   *)
(* when every handle was used, esp_https_ota_begin fails.                  *)
(***************************************************************************)
CONSTANTS
  Requesters,    \* tasks that call setUpdateUrl and startUpdate
  Handles,       \* handles esp_https_ota_begin may return
  Null,          \* nullptr
  Freed          \* a url whose string was deleted

ASSUME OtaAssumption ==
  /\ Null \notin Handles /\ Null \notin Requesters
  /\ Freed \notin Requesters /\ Freed # Null

VARIABLES
  constructed,   \* an OtaUpdater exists
  network,       \* the station has had an IP address
  group,         \* ota_updater_event_group is not null
  bit,           \* UPDATER_RUNNING_BIT
  otaHandle,
  handle,        \* state of each handle: unused, open, complete, freed
  lastError,     \* ESP_OK, in progress or any error
  url,           \* httpConfig.url: null, freed or the request that holds the string
  pc,            \* where each requester is
  res,           \* what esp_https_ota_begin returned to a requester
  ota,           \* where ota_updater_task is; "none" before it is created
  finishErr,     \* ota_finish_err
  installed,     \* the update of this work() was fetched, validated and activated
  posted,        \* the last event posted by work()
  raced          \* history: a request was accepted while another one, or work(), ran

request == <<pc, res>>
worker  == <<ota, finishErr, installed, posted>>
device == <<constructed, network, group>>
vars == <<device, bit, otaHandle, handle, lastError, url, request, worker, raced>>

Errors == {"OK", "PROGRESS", "FAIL"}

Init ==
  /\ constructed = FALSE /\ network = FALSE /\ group = FALSE /\ bit = FALSE
  /\ otaHandle = Null
  /\ handle = [h \in Handles |-> "unused"]
  /\ lastError = "OK"
  /\ url = Null
  /\ pc = [r \in Requesters |-> "idle"]
  /\ res = [r \in Requesters |-> "OK"]
  /\ ota = "none"
  /\ finishErr = "OK" /\ installed = FALSE /\ posted = "none"
  /\ raced = FALSE

isActive == otaHandle # Null

Goto(r, from, to) == pc[r] = from /\ pc' = [pc EXCEPT ![r] = to]

(* The handler of r returns: its request, and the string in it, is deleted. *)
Return(r, from) ==
  /\ Goto(r, from, "idle")
  /\ res' = [res EXCEPT ![r] = "OK"]
  /\ url' = IF url = r THEN Freed ELSE url

-----------------------------------------------------------------------------
(* The station gets an IP address; OtaUpdater's on_got_ip creates the event  *)
(* group and the task, once, if the updater was there to hear of it.         *)
GotIp ==
  /\ ~network \/ (constructed /\ ~group)
  /\ network' = TRUE
  /\ group' = (group \/ constructed)
  /\ ota' = IF group' /\ ~group THEN "wait" ELSE ota
  /\ UNCHANGED <<constructed, bit, otaHandle, handle, lastError, url, request,
                 finishErr, installed, posted, raced>>

(* OtaUpdater::OtaUpdater: registers on_got_ip and the HTTP and MQTT triggers *)
Construct ==
  /\ ~constructed
  /\ constructed' = TRUE
  /\ UNCHANGED <<network, group, bit, otaHandle, handle, lastError, url, request, worker, raced>>

-----------------------------------------------------------------------------
(* A request: setUpdateUrl, then startUpdate *)

Request(r) ==
  /\ constructed
  /\ Goto(r, "idle", "seturl")
  /\ UNCHANGED <<device, bit, otaHandle, handle, lastError, url, res, worker, raced>>

CheckUrl(r) ==
  /\ Goto(r, "seturl", IF isActive THEN "start" ELSE "writeurl")
  /\ UNCHANGED <<device, bit, otaHandle, handle, lastError, url, res, worker, raced>>

WriteUrl(r) ==
  /\ Goto(r, "writeurl", "start")
  /\ url' = r
  /\ UNCHANGED <<device, bit, otaHandle, handle, lastError, res, worker, raced>>

(* A requester is past the isActive test of startUpdate. *)
Starting == {"begin", "store", "test", "setbits"}

(* startUpdate: "false" when an update is active *)
RefuseUpdate(r) ==
  /\ isActive
  /\ Return(r, "start")
  /\ UNCHANGED <<device, bit, otaHandle, handle, lastError, worker, raced>>

(* Mutant: startUpdate without its isActive test. *)
StartUpdateUnchecked(r) ==
  /\ Goto(r, "start", "begin")
  /\ raced' = \/ raced
              \/ \E q \in Requesters \ {r} : pc[q] \in Starting
              \/ ota \notin {"none", "wait"}
  /\ UNCHANGED <<device, bit, otaHandle, handle, lastError, url, res, worker>>

StartUpdate(r) ==
  /\ ~isActive
  /\ Goto(r, "start", "begin")
  /\ raced' = \/ raced
              \/ \E q \in Requesters \ {r} : pc[q] \in Starting
              \/ ota \notin {"none", "wait"}
  /\ UNCHANGED <<device, bit, otaHandle, handle, lastError, url, res, worker>>

(* esp_https_ota_begin connects to the server and, at its end, stores the    *)
(* handle, or null when it fails.                                            *)
BeginOk(r) ==
  /\ network
  /\ Goto(r, "begin", "store")
  /\ \E h \in Handles :
       /\ handle[h] = "unused"
       /\ otaHandle' = h
       /\ handle' = [handle EXCEPT ![h] = "open"]
  /\ res' = [res EXCEPT ![r] = "OK"]
  /\ UNCHANGED <<device, bit, lastError, url, worker, raced>>

BeginFails(r) ==
  /\ Goto(r, "begin", "store")
  /\ otaHandle' = Null
  /\ res' = [res EXCEPT ![r] = "FAIL"]
  /\ UNCHANGED <<device, bit, handle, lastError, url, worker, raced>>

StoreError(r) ==
  /\ Goto(r, "store", "test")
  /\ lastError' = res[r]
  /\ UNCHANGED <<device, bit, otaHandle, handle, url, res, worker, raced>>

(* "if (m_updater->lastError == ESP_OK)" reads the shared field again *)
TestError(r) ==
  /\ IF lastError = "OK"
       THEN Goto(r, "test", "setbits") /\ UNCHANGED <<res, url>>
       ELSE Return(r, "test")
  /\ UNCHANGED <<device, bit, otaHandle, handle, lastError, worker, raced>>

(* Mutant: startUpdate sets another bit than the task waits for. *)
SetBitsWrongBit(r) ==
  /\ group
  /\ Return(r, "setbits")
  /\ UNCHANGED <<device, bit, otaHandle, handle, lastError, worker, raced>>

SetBits(r) ==
  /\ group
  /\ Return(r, "setbits")
  /\ bit' = TRUE
  /\ UNCHANGED <<device, otaHandle, handle, lastError, worker, raced>>

(* xEventGroupSetBits(nullptr, ...) asserts: the device panics and restarts. *)
(* A restart may also come from elsewhere (SystemReboot, power).             *)
Restart ==
  /\ constructed' = FALSE /\ network' = FALSE /\ group' = FALSE /\ bit' = FALSE
  /\ otaHandle' = Null
  /\ handle' = [h \in Handles |-> "unused"]
  /\ lastError' = "OK"
  /\ url' = Null
  /\ pc' = [r \in Requesters |-> "idle"]
  /\ res' = [r \in Requesters |-> "OK"]
  /\ ota' = "none"
  /\ finishErr' = "OK" /\ installed' = FALSE /\ posted' = "none"
  /\ raced' = FALSE

-----------------------------------------------------------------------------
(* ota_updater_task *)

Work(from, to) == ota = from /\ ota' = to

WaitBits ==
  /\ bit
  /\ Work("wait", "started")
  /\ UNCHANGED <<device, bit, otaHandle, handle, lastError, url, request,
                 finishErr, installed, posted, raced>>

(* work(): the STARTED event carries the string that url points to *)
PostStarted ==
  /\ Work("started", "desc")
  /\ posted' = "started"
  /\ UNCHANGED <<device, bit, otaHandle, handle, lastError, url, request,
                 finishErr, installed, raced>>

(* esp_https_ota_get_img_desc and the magic-word test, which posts FAILED;   *)
(* a null handle is an error.                                                *)
GetImgDesc ==
  /\ Work("desc", "decide")
  /\ \/ otaHandle # Null /\ lastError' = "OK" /\ UNCHANGED posted
     \/ lastError' = "FAIL" /\ posted' \in {posted, "failed"}
  /\ UNCHANGED <<device, bit, otaHandle, handle, url, request,
                 finishErr, installed, raced>>

DecideDownload ==
  /\ ota = "decide"
  /\ IF lastError = "OK"
       THEN Work("decide", "perform") /\ posted' = "progress"
       ELSE Work("decide", "finish") /\ UNCHANGED posted
  /\ UNCHANGED <<device, bit, otaHandle, handle, lastError, url, request,
                 finishErr, installed, raced>>

(* esp_https_ota_perform: more to come, image complete, or an error *)
PerformMore ==
  /\ otaHandle # Null
  /\ Work("perform", "more")
  /\ lastError' = "PROGRESS"
  /\ UNCHANGED <<device, bit, otaHandle, handle, url, request,
                 finishErr, installed, posted, raced>>

PerformEnds ==
  /\ Work("perform", "more")
  /\ \/ /\ otaHandle # Null
        /\ handle' = [handle EXCEPT ![otaHandle] = "complete"]
        /\ lastError' = "OK"
     \/ /\ lastError' = "FAIL"
        /\ UNCHANGED handle
  /\ UNCHANGED <<device, bit, otaHandle, url, request,
                 finishErr, installed, posted, raced>>

(* Mutant: the download loop is left on errors only. *)
TestProgressErrorsOnly ==
  /\ Work("more", IF lastError = "FAIL" THEN "finish" ELSE "perform")
  /\ UNCHANGED <<device, bit, otaHandle, handle, lastError, url, request,
                 finishErr, installed, posted, raced>>

(* "if (lastError != ESP_ERR_HTTPS_OTA_IN_PROGRESS) break" *)
TestProgress ==
  /\ Work("more", IF lastError = "PROGRESS" THEN "perform" ELSE "finish")
  /\ UNCHANGED <<device, bit, otaHandle, handle, lastError, url, request,
                 finishErr, installed, posted, raced>>

(* esp_https_ota_finish frees the handle; a complete image is validated and  *)
(* becomes the boot partition.                                               *)
Finish ==
  /\ Work("finish", "null")
  /\ IF otaHandle = Null
       THEN finishErr' = "FAIL" /\ UNCHANGED <<handle, installed>>
       ELSE /\ finishErr' \in {"OK", "FAIL"}
            /\ handle' = [handle EXCEPT ![otaHandle] = "freed"]
            /\ installed' = (handle[otaHandle] = "complete" /\ finishErr' = "OK")
  /\ UNCHANGED <<device, bit, otaHandle, lastError, url, request, posted, raced>>

(* Mutant: the handle is freed but not forgotten. *)
ForgetHandleNever ==
  /\ Work("null", "outcome")
  /\ UNCHANGED <<device, bit, otaHandle, handle, lastError, url, request,
                 finishErr, installed, posted, raced>>

ForgetHandle ==
  /\ Work("null", "outcome")
  /\ otaHandle' = Null
  /\ UNCHANGED <<device, bit, handle, lastError, url, request,
                 finishErr, installed, posted, raced>>

(* Mutant: the result of finish always replaces lastError. *)
TestOutcomeAlways ==
  /\ Work("outcome", "adopt")
  /\ UNCHANGED <<device, bit, otaHandle, handle, lastError, url, request,
                 finishErr, installed, posted, raced>>

TestOutcome ==
  /\ Work("outcome", IF lastError = "OK" THEN "adopt" ELSE "report")
  /\ UNCHANGED <<device, bit, otaHandle, handle, lastError, url, request,
                 finishErr, installed, posted, raced>>

AdoptFinishError ==
  /\ Work("adopt", "report")
  /\ lastError' = finishErr
  /\ UNCHANGED <<device, bit, otaHandle, handle, url, request,
                 finishErr, installed, posted, raced>>

(* Mutant: the error code is posted as the event. *)
PostErrorCode ==
  /\ Work("report", "clear")
  /\ posted' = lastError
  /\ UNCHANGED <<device, bit, otaHandle, handle, lastError, url, request,
                 finishErr, installed, raced>>

PostOutcome ==
  /\ Work("report", "clear")
  /\ posted' = IF lastError = "OK" THEN "succeed" ELSE "failed"
  /\ UNCHANGED <<device, bit, otaHandle, handle, lastError, url, request,
                 finishErr, installed, raced>>

ClearBits ==
  /\ Work("clear", "wait")
  /\ bit' = FALSE
  /\ finishErr' = "OK" /\ installed' = FALSE /\ posted' = "none"
  /\ UNCHANGED <<device, otaHandle, handle, lastError, url, request, raced>>

-----------------------------------------------------------------------------
Requester(r) ==
  \/ CheckUrl(r) \/ WriteUrl(r)
  \/ RefuseUpdate(r) \/ StartUpdate(r)
  \/ BeginOk(r) \/ BeginFails(r)
  \/ StoreError(r) \/ TestError(r) \/ SetBits(r)

OtaTask ==
  \/ WaitBits \/ PostStarted \/ GetImgDesc \/ DecideDownload
  \/ PerformMore \/ PerformEnds \/ TestProgress
  \/ Finish \/ ForgetHandle \/ TestOutcome \/ AdoptFinishError \/ PostOutcome \/ ClearBits

Next ==
  \/ GotIp \/ Construct \/ Restart
  \/ \E r \in Requesters : Request(r) \/ Requester(r)
  \/ OtaTask

Spec == Init /\ [][Next]_vars

(* Every task is scheduled, and a download ends (the HTTP client times out). *)
FairSpec ==
  /\ Spec
  /\ \A r \in Requesters : WF_vars(Requester(r))
  /\ WF_vars(OtaTask) /\ SF_vars(PerformEnds)

-----------------------------------------------------------------------------
(* Type invariant: every shared field and every local of the tasks. *)
TypeOK ==
  /\ constructed \in BOOLEAN /\ network \in BOOLEAN /\ group \in BOOLEAN /\ bit \in BOOLEAN
  /\ otaHandle \in Handles \union {Null}
  /\ handle \in [Handles -> {"unused", "open", "complete", "freed"}]
  /\ lastError \in Errors
  /\ url \in Requesters \union {Null, Freed}
  /\ pc \in [Requesters -> {"idle", "seturl", "writeurl", "start"} \union Starting]
  /\ res \in [Requesters -> {"OK", "FAIL"}]
  /\ ota \in {"none", "wait", "started", "desc", "decide", "perform", "more", "finish",
              "null", "outcome", "adopt", "report", "clear"}
  /\ finishErr \in {"OK", "FAIL"}
  /\ installed \in BOOLEAN
  /\ posted \in {"none", "started", "progress", "failed", "succeed"}
  /\ raced \in BOOLEAN

(* However requests overlap, ota_updater_task never hands a handle to        *)
(* esp_https_ota that esp_https_ota_finish has freed (no use after free, no  *)
(* double finish).                                                           *)
NoUseAfterFree ==
  ota \in {"desc", "perform", "finish"} /\ otaHandle # Null => handle[otaHandle] # "freed"

(* As long as no request was accepted while another one or work() ran, every *)
(* download that was begun is the one otaHandle names: none is lost.         *)
NoHandleLeaked ==
  ~raced => \A h \in Handles : handle[h] \in {"open", "complete"} => otaHandle = h

(* Under the same condition the last event of work() tells the truth:        *)
(* SUCCEED exactly when the image was fetched, validated and activated.      *)
OutcomeIsTrue ==
  ~raced /\ ota = "clear" => (posted = "succeed" <=> installed)

(* OtaUpdaterPrivate::startUpdate and setUpdateUrl refuse while isActive().  *)
(* Under the same condition an update that makes them refuse is on its way:  *)
(* its requester has not returned, its bit waits for the task, or the task   *)
(* works on it.  Nothing but a race shuts the updater for good.              *)
RefusesForAReason ==
  ~raced /\ isActive =>
    \/ \E r \in Requesters : pc[r] \in {"store", "test", "setbits"}
    \/ ota = "wait" /\ bit
    \/ ota \in {"started", "desc", "decide", "perform", "more", "finish", "null"}

(* work() and the loop around it end, whatever happens to the shared fields: *)
(* the task is back at xEventGroupWaitBits (or the device restarted).        *)
WorkEnds == ota \notin {"none", "wait"} ~> ota \in {"none", "wait"}

(* Unless a request raced, an update that startUpdate accepted is carried     *)
(* out by ota_updater_task.                                                  *)
AcceptedUpdateRuns ==
  \A r \in Requesters :
    (pc[r] = "setbits" /\ group) ~> (ota = "started" \/ raced \/ ota = "none")

(* README, OTA: when startUpdate returns true the update is started.         *)
StartedUpdateRuns ==
  \A r \in Requesters :
    (pc[r] = "setbits" /\ group) ~> (ota = "started" \/ ota = "none")

-----------------------------------------------------------------------------
Waiting == ota \in {"none", "wait"}

Service == INSTANCE UpdateService WITH
  offered <- constructed,
  service <- IF raced THEN "raced"
             ELSE IF ~Waiting THEN IF installed THEN "installed" ELSE "running"
             ELSE IF bit \/ \E r \in Requesters : pc[r] = "setbits" THEN "accepted" ELSE "idle",
  report <- IF ~raced /\ ota = "clear" THEN posted ELSE "none"

(* README, OTA: the updater is an update service: requests are accepted one  *)
(* at a time, carried out and truthfully reported, until requests race.      *)
ImplementsUpdateService == Service!ServiceSpec
=============================================================================
