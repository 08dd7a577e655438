----------------------------- MODULE Ota_proofs -----------------------------
(***************************************************************************)
(* For every set of requesters and of handles: the shared fields keep      *)
(* their types, no freed handle is used however requests overlap, and as   *)
(* long as no request overtakes another or work(), no download is lost and *)
(* the event posted last tells the truth.                                  *)
(***************************************************************************)
EXTENDS Ota, TLAPS

(* The task exists exactly when the event group does. *)
TaskHasGroup == ota = "none" <=> ~group

(* Between Finish and ForgetHandle otaHandle may name a freed handle, never  *)
(* elsewhere.                                                                *)
HandleValid == otaHandle # Null /\ ota # "null" => handle[otaHandle] # "freed"

IsOpen == otaHandle # Null /\ handle[otaHandle] = "open"

(* One request at a time is past the isActive test, and only while the task  *)
(* waits for a bit that is not set.                                          *)
OneStarts ==
  /\ \A q, r \in Requesters : pc[q] \in Starting /\ pc[r] \in Starting => q = r
  /\ \A r \in Requesters : pc[r] \in Starting => ota \in {"none", "wait"} /\ ~bit

(* What otaHandle and lastError are while a request is on its way. *)
RequestState ==
  \A r \in Requesters :
    /\ pc[r] = "begin" => otaHandle = Null
    /\ pc[r] \in {"store", "test"} => IF res[r] = "OK" THEN IsOpen ELSE otaHandle = Null
    /\ pc[r] = "test" => lastError = res[r]
    /\ pc[r] = "setbits" => IsOpen

(* What otaHandle is while the task is at work. *)
WorkState ==
  /\ ota = "none" => ~bit
  /\ ota = "wait" /\ bit => IsOpen
  /\ ota \in {"started", "desc", "decide", "perform"} => IsOpen
  /\ ota \in {"more", "finish"} =>
       otaHandle # Null /\ handle[otaHandle] = IF lastError = "OK" THEN "complete" ELSE "open"
  /\ ota = "null" => otaHandle # Null /\ handle[otaHandle] = "freed"
  /\ ota \in {"outcome", "adopt", "report", "clear"} => otaHandle = Null

(* How the result of the download reaches the last event. *)
OutcomeState ==
  /\ ota \in {"null", "outcome"} => (installed <=> lastError = "OK" /\ finishErr = "OK")
  /\ ota = "adopt" => (installed <=> finishErr = "OK")
  /\ ota = "report" => (installed <=> lastError = "OK")
  /\ ota = "clear" => (installed <=> posted = "succeed")

NoneLost == \A h \in Handles : handle[h] \in {"open", "complete"} => otaHandle = h

Calm == OneStarts /\ RequestState /\ WorkState /\ OutcomeState /\ NoneLost

IInv == TypeOK /\ TaskHasGroup /\ HandleValid /\ (raced \/ Calm)

-----------------------------------------------------------------------------
LEMMA InitInv == Init => IInv
<1> SUFFICES ASSUME Init PROVE IInv
  OBVIOUS
<1>1. TypeOK
  BY OtaAssumption DEF Init, TypeOK, Errors
<1>2. TaskHasGroup /\ HandleValid
  BY DEF Init, TaskHasGroup, HandleValid
<1>3. Calm
  BY DEF Init, Calm, OneStarts, RequestState, WorkState, OutcomeState, NoneLost, Starting
<1>4. QED BY <1>1, <1>2, <1>3 DEF IInv

(* Every step keeps the types. *)
LEMMA TypesNext ==
  ASSUME TypeOK, [Next]_vars
  PROVE  TypeOK'
<1>1. ASSUME NEW r \in Requesters, Request(r)
       PROVE  TypeOK'
  BY <1>1, OtaAssumption DEF Request, Goto, TypeOK, Errors, Starting, device, request, worker
<1>2. ASSUME NEW r \in Requesters, CheckUrl(r)
       PROVE  TypeOK'
  BY <1>2, OtaAssumption DEF CheckUrl, Goto, TypeOK, Errors, Starting, device, request, worker
<1>3. ASSUME NEW r \in Requesters, WriteUrl(r)
       PROVE  TypeOK'
  BY <1>3, OtaAssumption DEF WriteUrl, Goto, TypeOK, Errors, Starting, device, request, worker
<1>4. ASSUME NEW r \in Requesters, RefuseUpdate(r)
       PROVE  TypeOK'
  BY <1>4, OtaAssumption DEF RefuseUpdate, Return, Goto, TypeOK, Errors, Starting, device, request, worker
<1>5. ASSUME NEW r \in Requesters, StartUpdate(r)
       PROVE  TypeOK'
  BY <1>5, OtaAssumption DEF StartUpdate, Goto, isActive, TypeOK, Errors, Starting, device, request, worker
<1>6. ASSUME NEW r \in Requesters, BeginOk(r)
       PROVE  TypeOK'
  BY <1>6, OtaAssumption DEF BeginOk, Goto, TypeOK, Errors, Starting, device, request, worker
<1>7. ASSUME NEW r \in Requesters, BeginFails(r)
       PROVE  TypeOK'
  BY <1>7, OtaAssumption DEF BeginFails, Goto, TypeOK, Errors, Starting, device, request, worker
<1>8. ASSUME NEW r \in Requesters, StoreError(r)
       PROVE  TypeOK'
  BY <1>8, OtaAssumption DEF StoreError, Goto, TypeOK, Errors, Starting, device, request, worker
<1>9. ASSUME NEW r \in Requesters, TestError(r)
       PROVE  TypeOK'
  BY <1>9, OtaAssumption DEF TestError, Return, Goto, TypeOK, Errors, Starting, device, request, worker
<1>10. ASSUME NEW r \in Requesters, SetBits(r)
       PROVE  TypeOK'
  BY <1>10, OtaAssumption DEF SetBits, Return, Goto, TypeOK, Errors, Starting, device, request, worker
<1>11. CASE WaitBits
  BY <1>11, OtaAssumption DEF WaitBits, Work, TypeOK, Errors, Starting, device, request, worker
<1>12. CASE PostStarted
  BY <1>12, OtaAssumption DEF PostStarted, Work, TypeOK, Errors, Starting, device, request, worker
<1>13. CASE GetImgDesc
  BY <1>13, OtaAssumption DEF GetImgDesc, Work, TypeOK, Errors, Starting, device, request, worker
<1>14. CASE DecideDownload
  BY <1>14, OtaAssumption DEF DecideDownload, Work, TypeOK, Errors, Starting, device, request, worker
<1>15. CASE PerformMore
  BY <1>15, OtaAssumption DEF PerformMore, Work, TypeOK, Errors, Starting, device, request, worker
<1>16. CASE PerformEnds
  BY <1>16, OtaAssumption DEF PerformEnds, Work, TypeOK, Errors, Starting, device, request, worker
<1>17. CASE TestProgress
  BY <1>17, OtaAssumption DEF TestProgress, Work, TypeOK, Errors, Starting, device, request, worker
<1>18. CASE Finish
  <2>1. CASE otaHandle = Null
    BY <1>18, <2>1, OtaAssumption DEF Finish, Work, TypeOK, Starting, device, request
  <2>2. CASE otaHandle # Null
    <3>1. installed' \in BOOLEAN
      BY <1>18, <2>2 DEF Finish
    <3>2. handle' = [handle EXCEPT ![otaHandle] = "freed"] /\ finishErr' \in {"OK", "FAIL"}
      BY <1>18, <2>2 DEF Finish
    <3>3. handle' \in [Handles -> {"unused", "open", "complete", "freed"}]
      BY <3>2 DEF TypeOK
    <3>4. UNCHANGED <<device, bit, otaHandle, lastError, url, request, posted, raced>> /\ ota' = "null"
      BY <1>18 DEF Finish, Work
    <3>5. QED BY <3>1, <3>2, <3>3, <3>4 DEF TypeOK, device, request
  <2>3. QED BY <2>1, <2>2
<1>19. CASE ForgetHandle
  BY <1>19, OtaAssumption DEF ForgetHandle, Work, TypeOK, Errors, Starting, device, request, worker
<1>20. CASE TestOutcome
  BY <1>20, OtaAssumption DEF TestOutcome, Work, TypeOK, Errors, Starting, device, request, worker
<1>21. CASE AdoptFinishError
  BY <1>21, OtaAssumption DEF AdoptFinishError, Work, TypeOK, Errors, Starting, device, request, worker
<1>22. CASE PostOutcome
  BY <1>22, OtaAssumption DEF PostOutcome, Work, TypeOK, Errors, Starting, device, request, worker
<1>23. CASE ClearBits
  BY <1>23, OtaAssumption DEF ClearBits, Work, TypeOK, Errors, Starting, device, request, worker
<1>24. CASE GotIp
  BY <1>24, OtaAssumption DEF GotIp, TypeOK, Errors, Starting, device, request, worker
<1>25. CASE Construct
  BY <1>25, OtaAssumption DEF Construct, TypeOK, Errors, Starting, device, request, worker
<1>26. CASE Restart
  BY <1>26, OtaAssumption DEF Restart, TypeOK, Errors, Starting, device, request, worker
<1>27. CASE UNCHANGED vars
  BY <1>27 DEF vars, TypeOK, Errors, Starting, device, request, worker
<1>28. QED
  BY <1>1, <1>2, <1>3, <1>4, <1>5, <1>6, <1>7, <1>8, <1>9, <1>10, <1>11, <1>12, <1>13, <1>14, <1>15, <1>16, <1>17, <1>18, <1>19, <1>20, <1>21, <1>22, <1>23, <1>24, <1>25, <1>26, <1>27
     DEF Next, Requester, OtaTask

(* Every step keeps freed handles out of esp_https_ota's calls. *)
LEMMA HandleNext ==
  ASSUME TypeOK, TaskHasGroup, HandleValid, [Next]_vars
  PROVE  TaskHasGroup' /\ HandleValid'
<1>1. ASSUME NEW r \in Requesters, Request(r)
       PROVE  TaskHasGroup' /\ HandleValid'
  BY <1>1 DEF Request, Goto, TypeOK, TaskHasGroup, HandleValid, device, request, worker
<1>2. ASSUME NEW r \in Requesters, CheckUrl(r)
       PROVE  TaskHasGroup' /\ HandleValid'
  BY <1>2 DEF CheckUrl, Goto, TypeOK, TaskHasGroup, HandleValid, device, request, worker
<1>3. ASSUME NEW r \in Requesters, WriteUrl(r)
       PROVE  TaskHasGroup' /\ HandleValid'
  BY <1>3 DEF WriteUrl, Goto, TypeOK, TaskHasGroup, HandleValid, device, request, worker
<1>4. ASSUME NEW r \in Requesters, RefuseUpdate(r)
       PROVE  TaskHasGroup' /\ HandleValid'
  BY <1>4 DEF RefuseUpdate, Return, Goto, TypeOK, TaskHasGroup, HandleValid, device, request, worker
<1>5. ASSUME NEW r \in Requesters, StartUpdate(r)
       PROVE  TaskHasGroup' /\ HandleValid'
  BY <1>5 DEF StartUpdate, Goto, isActive, TypeOK, TaskHasGroup, HandleValid, device, request, worker
<1>6. ASSUME NEW r \in Requesters, BeginOk(r)
       PROVE  TaskHasGroup' /\ HandleValid'
  BY <1>6 DEF BeginOk, Goto, TypeOK, TaskHasGroup, HandleValid, device, request, worker
<1>7. ASSUME NEW r \in Requesters, BeginFails(r)
       PROVE  TaskHasGroup' /\ HandleValid'
  BY <1>7 DEF BeginFails, Goto, TypeOK, TaskHasGroup, HandleValid, device, request, worker
<1>8. ASSUME NEW r \in Requesters, StoreError(r)
       PROVE  TaskHasGroup' /\ HandleValid'
  BY <1>8 DEF StoreError, Goto, TypeOK, TaskHasGroup, HandleValid, device, request, worker
<1>9. ASSUME NEW r \in Requesters, TestError(r)
       PROVE  TaskHasGroup' /\ HandleValid'
  BY <1>9 DEF TestError, Return, Goto, TypeOK, TaskHasGroup, HandleValid, device, request, worker
<1>10. ASSUME NEW r \in Requesters, SetBits(r)
       PROVE  TaskHasGroup' /\ HandleValid'
  BY <1>10 DEF SetBits, Return, Goto, TypeOK, TaskHasGroup, HandleValid, device, request, worker
<1>11. CASE WaitBits
  BY <1>11 DEF WaitBits, Work, TypeOK, TaskHasGroup, HandleValid, device, request, worker
<1>12. CASE PostStarted
  BY <1>12 DEF PostStarted, Work, TypeOK, TaskHasGroup, HandleValid, device, request, worker
<1>13. CASE GetImgDesc
  BY <1>13 DEF GetImgDesc, Work, TypeOK, TaskHasGroup, HandleValid, device, request, worker
<1>14. CASE DecideDownload
  BY <1>14 DEF DecideDownload, Work, TypeOK, TaskHasGroup, HandleValid, device, request, worker
<1>15. CASE PerformMore
  BY <1>15 DEF PerformMore, Work, TypeOK, TaskHasGroup, HandleValid, device, request, worker
<1>16. CASE PerformEnds
  BY <1>16 DEF PerformEnds, Work, TypeOK, TaskHasGroup, HandleValid, device, request, worker
<1>17. CASE TestProgress
  BY <1>17 DEF TestProgress, Work, TypeOK, TaskHasGroup, HandleValid, device, request, worker
<1>18. CASE Finish
  BY <1>18 DEF Finish, Work, TypeOK, TaskHasGroup, HandleValid, device, request, worker
<1>19. CASE ForgetHandle
  BY <1>19 DEF ForgetHandle, Work, TypeOK, TaskHasGroup, HandleValid, device, request, worker
<1>20. CASE TestOutcome
  BY <1>20 DEF TestOutcome, Work, TypeOK, TaskHasGroup, HandleValid, device, request, worker
<1>21. CASE AdoptFinishError
  BY <1>21 DEF AdoptFinishError, Work, TypeOK, TaskHasGroup, HandleValid, device, request, worker
<1>22. CASE PostOutcome
  BY <1>22 DEF PostOutcome, Work, TypeOK, TaskHasGroup, HandleValid, device, request, worker
<1>23. CASE ClearBits
  BY <1>23 DEF ClearBits, Work, TypeOK, TaskHasGroup, HandleValid, device, request, worker
<1>24. CASE GotIp
  BY <1>24 DEF GotIp, TypeOK, TaskHasGroup, HandleValid, device, request, worker
<1>25. CASE Construct
  BY <1>25 DEF Construct, TypeOK, TaskHasGroup, HandleValid, device, request, worker
<1>26. CASE Restart
  BY <1>26 DEF Restart, TypeOK, TaskHasGroup, HandleValid, device, request, worker
<1>27. CASE UNCHANGED vars
  BY <1>27 DEF vars, TypeOK, TaskHasGroup, HandleValid, device, request, worker
<1>28. QED
  BY <1>1, <1>2, <1>3, <1>4, <1>5, <1>6, <1>7, <1>8, <1>9, <1>10, <1>11, <1>12, <1>13, <1>14, <1>15, <1>16, <1>17, <1>18, <1>19, <1>20, <1>21, <1>22, <1>23, <1>24, <1>25, <1>26, <1>27
     DEF Next, Requester, OtaTask
(* Every step keeps a calm state calm, unless it makes requests overlap. *)
LEMMA CalmNext ==
  ASSUME TypeOK, TaskHasGroup, Calm, ~raced', [Next]_vars
  PROVE  Calm'
<1> USE OtaAssumption DEF TypeOK, TaskHasGroup, Errors, Starting, device, request, worker
<1>1. ASSUME NEW r \in Requesters, Request(r)
       PROVE  Calm'
  <2>1. OneStarts'
    BY <1>1 DEF Request, Goto, Calm, OneStarts
  <2>2. RequestState'
    BY <1>1 DEF Request, Goto, Calm, RequestState, IsOpen
  <2>3. WorkState'
    BY <1>1 DEF Request, Goto, Calm, WorkState, IsOpen
  <2>4. OutcomeState'
    BY <1>1 DEF Request, Goto, Calm, OutcomeState
  <2>5. NoneLost'
    BY <1>1 DEF Request, Goto, Calm, NoneLost
  <2>6. QED BY <2>1, <2>2, <2>3, <2>4, <2>5 DEF Calm
<1>2. ASSUME NEW r \in Requesters, CheckUrl(r)
       PROVE  Calm'
  <2>1. OneStarts'
    BY <1>2 DEF CheckUrl, Goto, Calm, OneStarts
  <2>2. RequestState'
    BY <1>2 DEF CheckUrl, Goto, Calm, RequestState, IsOpen
  <2>3. WorkState'
    BY <1>2 DEF CheckUrl, Goto, Calm, WorkState, IsOpen
  <2>4. OutcomeState'
    BY <1>2 DEF CheckUrl, Goto, Calm, OutcomeState
  <2>5. NoneLost'
    BY <1>2 DEF CheckUrl, Goto, Calm, NoneLost
  <2>6. QED BY <2>1, <2>2, <2>3, <2>4, <2>5 DEF Calm
<1>3. ASSUME NEW r \in Requesters, WriteUrl(r)
       PROVE  Calm'
  <2>1. OneStarts'
    BY <1>3 DEF WriteUrl, Goto, Calm, OneStarts
  <2>2. RequestState'
    BY <1>3 DEF WriteUrl, Goto, Calm, RequestState, IsOpen
  <2>3. WorkState'
    BY <1>3 DEF WriteUrl, Goto, Calm, WorkState, IsOpen
  <2>4. OutcomeState'
    BY <1>3 DEF WriteUrl, Goto, Calm, OutcomeState
  <2>5. NoneLost'
    BY <1>3 DEF WriteUrl, Goto, Calm, NoneLost
  <2>6. QED BY <2>1, <2>2, <2>3, <2>4, <2>5 DEF Calm
<1>4. ASSUME NEW r \in Requesters, RefuseUpdate(r)
       PROVE  Calm'
  <2>1. OneStarts'
    BY <1>4 DEF RefuseUpdate, Return, Goto, Calm, OneStarts
  <2>2. RequestState'
    BY <1>4 DEF RefuseUpdate, Return, Goto, Calm, RequestState, IsOpen
  <2>3. WorkState'
    BY <1>4 DEF RefuseUpdate, Return, Goto, Calm, WorkState, IsOpen
  <2>4. OutcomeState'
    BY <1>4 DEF RefuseUpdate, Return, Goto, Calm, OutcomeState
  <2>5. NoneLost'
    BY <1>4 DEF RefuseUpdate, Return, Goto, Calm, NoneLost
  <2>6. QED BY <2>1, <2>2, <2>3, <2>4, <2>5 DEF Calm
<1>5. ASSUME NEW r \in Requesters, StartUpdate(r)
       PROVE  Calm'
  <2>1. OneStarts'
    BY <1>5 DEF StartUpdate, Goto, isActive, Calm, OneStarts, WorkState, IsOpen
  <2>2. RequestState'
    BY <1>5 DEF StartUpdate, Goto, isActive, Calm, RequestState, IsOpen
  <2>3. WorkState'
    BY <1>5 DEF StartUpdate, Goto, isActive, Calm, WorkState, IsOpen
  <2>4. OutcomeState'
    BY <1>5 DEF StartUpdate, Goto, isActive, Calm, OutcomeState
  <2>5. NoneLost'
    BY <1>5 DEF StartUpdate, Goto, isActive, Calm, NoneLost
  <2>6. QED BY <2>1, <2>2, <2>3, <2>4, <2>5 DEF Calm
<1>6. ASSUME NEW r \in Requesters, BeginOk(r)
       PROVE  Calm'
  <2>1. OneStarts'
    BY <1>6 DEF BeginOk, Goto, Calm, OneStarts
  <2>2. RequestState'
    BY <1>6 DEF BeginOk, Goto, Calm, RequestState, OneStarts, IsOpen
  <2>3. WorkState'
    BY <1>6 DEF BeginOk, Goto, Calm, WorkState, OneStarts
  <2>4. OutcomeState'
    BY <1>6 DEF BeginOk, Goto, Calm, OutcomeState
  <2>5. NoneLost'
    BY <1>6 DEF BeginOk, Goto, Calm, NoneLost, RequestState, IsOpen
  <2>6. QED BY <2>1, <2>2, <2>3, <2>4, <2>5 DEF Calm
<1>7. ASSUME NEW r \in Requesters, BeginFails(r)
       PROVE  Calm'
  <2>1. OneStarts'
    BY <1>7 DEF BeginFails, Goto, Calm, OneStarts
  <2>2. RequestState'
    BY <1>7 DEF BeginFails, Goto, Calm, RequestState, IsOpen
  <2>3. WorkState'
    BY <1>7 DEF BeginFails, Goto, Calm, WorkState, OneStarts
  <2>4. OutcomeState'
    BY <1>7 DEF BeginFails, Goto, Calm, OutcomeState
  <2>5. NoneLost'
    BY <1>7 DEF BeginFails, Goto, Calm, NoneLost, RequestState, IsOpen
  <2>6. QED BY <2>1, <2>2, <2>3, <2>4, <2>5 DEF Calm
<1>8. ASSUME NEW r \in Requesters, StoreError(r)
       PROVE  Calm'
  <2>1. OneStarts'
    BY <1>8 DEF StoreError, Goto, Calm, OneStarts
  <2>2. RequestState'
    BY <1>8 DEF StoreError, Goto, Calm, RequestState, IsOpen
  <2>3. WorkState'
    BY <1>8 DEF StoreError, Goto, Calm, WorkState, OneStarts
  <2>4. OutcomeState'
    BY <1>8 DEF StoreError, Goto, Calm, OutcomeState, OneStarts
  <2>5. NoneLost'
    BY <1>8 DEF StoreError, Goto, Calm, NoneLost
  <2>6. QED BY <2>1, <2>2, <2>3, <2>4, <2>5 DEF Calm
<1>9. ASSUME NEW r \in Requesters, TestError(r)
       PROVE  Calm'
  <2>1. OneStarts'
    BY <1>9 DEF TestError, Return, Goto, Calm, OneStarts
  <2>2. RequestState'
    BY <1>9 DEF TestError, Return, Goto, Calm, RequestState, IsOpen
  <2>3. WorkState'
    BY <1>9 DEF TestError, Return, Goto, Calm, WorkState, IsOpen
  <2>4. OutcomeState'
    BY <1>9 DEF TestError, Return, Goto, Calm, OutcomeState
  <2>5. NoneLost'
    BY <1>9 DEF TestError, Return, Goto, Calm, NoneLost
  <2>6. QED BY <2>1, <2>2, <2>3, <2>4, <2>5 DEF Calm
<1>10. ASSUME NEW r \in Requesters, SetBits(r)
       PROVE  Calm'
  <2>1. OneStarts'
    BY <1>10 DEF SetBits, Return, Goto, Calm, OneStarts
  <2>2. RequestState'
    BY <1>10 DEF SetBits, Return, Goto, Calm, RequestState, IsOpen
  <2>3. WorkState'
    BY <1>10 DEF SetBits, Return, Goto, Calm, WorkState, RequestState, IsOpen
  <2>4. OutcomeState'
    BY <1>10 DEF SetBits, Return, Goto, Calm, OutcomeState
  <2>5. NoneLost'
    BY <1>10 DEF SetBits, Return, Goto, Calm, NoneLost
  <2>6. QED BY <2>1, <2>2, <2>3, <2>4, <2>5 DEF Calm
<1>11. CASE WaitBits
  <2>1. OneStarts'
    BY <1>11 DEF WaitBits, Work, Calm, OneStarts
  <2>2. RequestState'
    BY <1>11 DEF WaitBits, Work, Calm, RequestState, IsOpen
  <2>3. WorkState'
    BY <1>11 DEF WaitBits, Work, Calm, WorkState, IsOpen
  <2>4. OutcomeState'
    BY <1>11 DEF WaitBits, Work, Calm, OutcomeState
  <2>5. NoneLost'
    BY <1>11 DEF WaitBits, Work, Calm, NoneLost
  <2>6. QED BY <2>1, <2>2, <2>3, <2>4, <2>5 DEF Calm
<1>12. CASE PostStarted
  <2>1. OneStarts'
    BY <1>12 DEF PostStarted, Work, Calm, OneStarts
  <2>2. RequestState'
    BY <1>12 DEF PostStarted, Work, Calm, RequestState, IsOpen
  <2>3. WorkState'
    BY <1>12 DEF PostStarted, Work, Calm, WorkState, IsOpen
  <2>4. OutcomeState'
    BY <1>12 DEF PostStarted, Work, Calm, OutcomeState
  <2>5. NoneLost'
    BY <1>12 DEF PostStarted, Work, Calm, NoneLost
  <2>6. QED BY <2>1, <2>2, <2>3, <2>4, <2>5 DEF Calm
<1>13. CASE GetImgDesc
  <2>1. OneStarts'
    BY <1>13 DEF GetImgDesc, Work, Calm, OneStarts
  <2>2. RequestState'
    BY <1>13 DEF GetImgDesc, Work, Calm, RequestState, OneStarts
  <2>3. WorkState'
    BY <1>13 DEF GetImgDesc, Work, Calm, WorkState, IsOpen
  <2>4. OutcomeState'
    BY <1>13 DEF GetImgDesc, Work, Calm, OutcomeState
  <2>5. NoneLost'
    BY <1>13 DEF GetImgDesc, Work, Calm, NoneLost
  <2>6. QED BY <2>1, <2>2, <2>3, <2>4, <2>5 DEF Calm
<1>14. CASE DecideDownload
  <2>1. OneStarts'
    BY <1>14 DEF DecideDownload, Work, Calm, OneStarts
  <2>2. RequestState'
    BY <1>14 DEF DecideDownload, Work, Calm, RequestState, IsOpen
  <2>3. WorkState'
    BY <1>14 DEF DecideDownload, Work, Calm, WorkState, IsOpen
  <2>4. OutcomeState'
    BY <1>14 DEF DecideDownload, Work, Calm, OutcomeState
  <2>5. NoneLost'
    BY <1>14 DEF DecideDownload, Work, Calm, NoneLost
  <2>6. QED BY <2>1, <2>2, <2>3, <2>4, <2>5 DEF Calm
<1>15. CASE PerformMore
  <2>1. OneStarts'
    BY <1>15 DEF PerformMore, Work, Calm, OneStarts
  <2>2. RequestState'
    BY <1>15 DEF PerformMore, Work, Calm, RequestState, OneStarts
  <2>3. WorkState'
    BY <1>15 DEF PerformMore, Work, Calm, WorkState, IsOpen
  <2>4. OutcomeState'
    BY <1>15 DEF PerformMore, Work, Calm, OutcomeState
  <2>5. NoneLost'
    BY <1>15 DEF PerformMore, Work, Calm, NoneLost
  <2>6. QED BY <2>1, <2>2, <2>3, <2>4, <2>5 DEF Calm
<1>16. CASE PerformEnds
  <2>1. OneStarts'
    BY <1>16 DEF PerformEnds, Work, Calm, OneStarts
  <2>2. RequestState'
    BY <1>16 DEF PerformEnds, Work, Calm, RequestState, OneStarts
  <2>3. WorkState'
    BY <1>16 DEF PerformEnds, Work, Calm, WorkState, IsOpen
  <2>4. OutcomeState'
    BY <1>16 DEF PerformEnds, Work, Calm, OutcomeState
  <2>5. NoneLost'
    BY <1>16 DEF PerformEnds, Work, Calm, NoneLost
  <2>6. QED BY <2>1, <2>2, <2>3, <2>4, <2>5 DEF Calm
<1>17. CASE TestProgress
  <2>1. OneStarts'
    BY <1>17 DEF TestProgress, Work, Calm, OneStarts
  <2>2. RequestState'
    BY <1>17 DEF TestProgress, Work, Calm, RequestState, IsOpen
  <2>3. WorkState'
    BY <1>17 DEF TestProgress, Work, Calm, WorkState, IsOpen
  <2>4. OutcomeState'
    BY <1>17 DEF TestProgress, Work, Calm, OutcomeState
  <2>5. NoneLost'
    BY <1>17 DEF TestProgress, Work, Calm, NoneLost
  <2>6. QED BY <2>1, <2>2, <2>3, <2>4, <2>5 DEF Calm
<1>18. CASE Finish
  <2>1. OneStarts'
    BY <1>18 DEF Finish, Work, Calm, OneStarts
  <2>2. RequestState'
    BY <1>18 DEF Finish, Work, Calm, RequestState, OneStarts
  <2>3. WorkState'
    BY <1>18 DEF Finish, Work, Calm, WorkState, IsOpen
  <2>4. OutcomeState'
    BY <1>18 DEF Finish, Work, Calm, OutcomeState, WorkState, IsOpen
  <2>5. NoneLost'
    BY <1>18 DEF Finish, Work, Calm, NoneLost
  <2>6. QED BY <2>1, <2>2, <2>3, <2>4, <2>5 DEF Calm
<1>19. CASE ForgetHandle
  <2>1. OneStarts'
    BY <1>19 DEF ForgetHandle, Work, Calm, OneStarts
  <2>2. RequestState'
    BY <1>19 DEF ForgetHandle, Work, Calm, RequestState, OneStarts
  <2>3. WorkState'
    BY <1>19 DEF ForgetHandle, Work, Calm, WorkState, IsOpen
  <2>4. OutcomeState'
    BY <1>19 DEF ForgetHandle, Work, Calm, OutcomeState
  <2>5. NoneLost'
    BY <1>19 DEF ForgetHandle, Work, Calm, NoneLost, WorkState, IsOpen
  <2>6. QED BY <2>1, <2>2, <2>3, <2>4, <2>5 DEF Calm
<1>20. CASE TestOutcome
  <2>1. OneStarts'
    BY <1>20 DEF TestOutcome, Work, Calm, OneStarts
  <2>2. RequestState'
    BY <1>20 DEF TestOutcome, Work, Calm, RequestState, IsOpen
  <2>3. WorkState'
    BY <1>20 DEF TestOutcome, Work, Calm, WorkState, IsOpen
  <2>4. OutcomeState'
    BY <1>20 DEF TestOutcome, Work, Calm, OutcomeState
  <2>5. NoneLost'
    BY <1>20 DEF TestOutcome, Work, Calm, NoneLost
  <2>6. QED BY <2>1, <2>2, <2>3, <2>4, <2>5 DEF Calm
<1>21. CASE AdoptFinishError
  <2>1. OneStarts'
    BY <1>21 DEF AdoptFinishError, Work, Calm, OneStarts
  <2>2. RequestState'
    BY <1>21 DEF AdoptFinishError, Work, Calm, RequestState, OneStarts
  <2>3. WorkState'
    BY <1>21 DEF AdoptFinishError, Work, Calm, WorkState, IsOpen
  <2>4. OutcomeState'
    BY <1>21 DEF AdoptFinishError, Work, Calm, OutcomeState
  <2>5. NoneLost'
    BY <1>21 DEF AdoptFinishError, Work, Calm, NoneLost
  <2>6. QED BY <2>1, <2>2, <2>3, <2>4, <2>5 DEF Calm
<1>22. CASE PostOutcome
  <2>1. OneStarts'
    BY <1>22 DEF PostOutcome, Work, Calm, OneStarts
  <2>2. RequestState'
    BY <1>22 DEF PostOutcome, Work, Calm, RequestState, IsOpen
  <2>3. WorkState'
    BY <1>22 DEF PostOutcome, Work, Calm, WorkState, IsOpen
  <2>4. OutcomeState'
    BY <1>22 DEF PostOutcome, Work, Calm, OutcomeState
  <2>5. NoneLost'
    BY <1>22 DEF PostOutcome, Work, Calm, NoneLost
  <2>6. QED BY <2>1, <2>2, <2>3, <2>4, <2>5 DEF Calm
<1>23. CASE ClearBits
  <2>1. OneStarts'
    BY <1>23 DEF ClearBits, Work, Calm, OneStarts
  <2>2. RequestState'
    BY <1>23 DEF ClearBits, Work, Calm, RequestState, IsOpen
  <2>3. WorkState'
    BY <1>23 DEF ClearBits, Work, Calm, WorkState, IsOpen
  <2>4. OutcomeState'
    BY <1>23 DEF ClearBits, Work, Calm, OutcomeState
  <2>5. NoneLost'
    BY <1>23 DEF ClearBits, Work, Calm, NoneLost
  <2>6. QED BY <2>1, <2>2, <2>3, <2>4, <2>5 DEF Calm
<1>24. CASE GotIp
  <2>1. OneStarts'
    BY <1>24 DEF GotIp, Calm, OneStarts
  <2>2. RequestState'
    BY <1>24 DEF GotIp, Calm, RequestState, IsOpen
  <2>3. WorkState'
    BY <1>24 DEF GotIp, Calm, WorkState, IsOpen
  <2>4. OutcomeState'
    BY <1>24 DEF GotIp, Calm, OutcomeState
  <2>5. NoneLost'
    BY <1>24 DEF GotIp, Calm, NoneLost
  <2>6. QED BY <2>1, <2>2, <2>3, <2>4, <2>5 DEF Calm
<1>25. CASE Construct
  <2>1. OneStarts'
    BY <1>25 DEF Construct, Calm, OneStarts
  <2>2. RequestState'
    BY <1>25 DEF Construct, Calm, RequestState, IsOpen
  <2>3. WorkState'
    BY <1>25 DEF Construct, Calm, WorkState, IsOpen
  <2>4. OutcomeState'
    BY <1>25 DEF Construct, Calm, OutcomeState
  <2>5. NoneLost'
    BY <1>25 DEF Construct, Calm, NoneLost
  <2>6. QED BY <2>1, <2>2, <2>3, <2>4, <2>5 DEF Calm
<1>26. CASE Restart
  <2>1. OneStarts'
    BY <1>26 DEF Restart, Calm, OneStarts
  <2>2. RequestState'
    BY <1>26 DEF Restart, Calm, RequestState, IsOpen
  <2>3. WorkState'
    BY <1>26 DEF Restart, Calm, WorkState, IsOpen
  <2>4. OutcomeState'
    BY <1>26 DEF Restart, Calm, OutcomeState
  <2>5. NoneLost'
    BY <1>26 DEF Restart, Calm, NoneLost
  <2>6. QED BY <2>1, <2>2, <2>3, <2>4, <2>5 DEF Calm
<1>27. CASE UNCHANGED vars
  <2>1. OneStarts'
    BY <1>27 DEF vars, Calm, OneStarts
  <2>2. RequestState'
    BY <1>27 DEF vars, Calm, RequestState, IsOpen
  <2>3. WorkState'
    BY <1>27 DEF vars, Calm, WorkState, IsOpen
  <2>4. OutcomeState'
    BY <1>27 DEF vars, Calm, OutcomeState
  <2>5. NoneLost'
    BY <1>27 DEF vars, Calm, NoneLost
  <2>6. QED BY <2>1, <2>2, <2>3, <2>4, <2>5 DEF Calm
<1>28. QED
  BY <1>1, <1>2, <1>3, <1>4, <1>5, <1>6, <1>7, <1>8, <1>9, <1>10, <1>11, <1>12, <1>13, <1>14, <1>15, <1>16, <1>17, <1>18, <1>19, <1>20, <1>21, <1>22, <1>23, <1>24, <1>25, <1>26, <1>27
     DEF Next, Requester, OtaTask

(* raced is forgotten by a restart only. *)
LEMMA RacedEnds ==
  ASSUME raced, ~raced', [Next]_vars
  PROVE  Restart
<1>1. CASE UNCHANGED vars
  BY <1>1 DEF vars
<1>2. ASSUME NEW r \in Requesters, Request(r) \/ Requester(r)
      PROVE  FALSE
  BY <1>2 DEF Request, Requester, CheckUrl, WriteUrl, RefuseUpdate, StartUpdate, BeginOk,
              BeginFails, StoreError, TestError, SetBits
<1>3. CASE OtaTask
  BY <1>3 DEF OtaTask, worker, WaitBits, PostStarted, GetImgDesc, DecideDownload, PerformMore,
              PerformEnds, TestProgress, Finish, ForgetHandle, TestOutcome, AdoptFinishError,
              PostOutcome, ClearBits
<1>4. CASE GotIp \/ Construct
  BY <1>4 DEF GotIp, Construct
<1>5. QED BY <1>1, <1>2, <1>3, <1>4 DEF Next

(* It leaves a calm state. *)
LEMMA RacedNext ==
  ASSUME raced, ~raced', [Next]_vars
  PROVE  Calm'
<1>1. Restart
  BY RacedEnds
<1>2. OneStarts' /\ RequestState' /\ WorkState' /\ OutcomeState' /\ NoneLost'
  BY <1>1 DEF Restart, OneStarts, RequestState, WorkState, OutcomeState, NoneLost, Starting
<1>3. QED BY <1>2 DEF Calm

-----------------------------------------------------------------------------
(* The inductive invariant holds in every reachable state. *)
THEOREM OtaInvariance == Spec => []IInv
<1>1. Init => IInv
  BY InitInv
<1>2. IInv /\ [Next]_vars => IInv'
  <2> SUFFICES ASSUME IInv, [Next]_vars
               PROVE  IInv'
    OBVIOUS
  <2>1. TypeOK'
    BY TypesNext DEF IInv
  <2>2. TaskHasGroup' /\ HandleValid'
    BY HandleNext DEF IInv
  <2>3. raced' \/ Calm'
    BY CalmNext, RacedNext DEF IInv
  <2>4. QED BY <2>1, <2>2, <2>3 DEF IInv
<1>3. QED BY <1>1, <1>2, PTL DEF Spec

(* Type correctness of the shared fields and the tasks' locals. *)
THEOREM OtaTypeCorrect == Spec => []TypeOK
<1>1. IInv => TypeOK
  BY DEF IInv
<1>2. QED BY <1>1, OtaInvariance, PTL

(* However requests overlap, ota_updater_task never hands a freed handle to  *)
(* esp_https_ota.                                                            *)
THEOREM FreedHandleNeverUsed == Spec => []NoUseAfterFree
<1>1. IInv => NoUseAfterFree
  BY DEF IInv, HandleValid, NoUseAfterFree
<1>2. QED BY <1>1, OtaInvariance, PTL

(* While no request overtakes another one or work(), every download that was *)
(* begun is the one otaHandle names.                                         *)
THEOREM NoDownloadLost == Spec => []NoHandleLeaked
<1>1. IInv => NoHandleLeaked
  BY DEF IInv, Calm, NoneLost, NoHandleLeaked
<1>2. QED BY <1>1, OtaInvariance, PTL

(* Under the same condition work() posts SUCCEED exactly for an update that  *)
(* was fetched, validated and activated.                                     *)
THEOREM OutcomeTruthful == Spec => []OutcomeIsTrue
<1>1. IInv => OutcomeIsTrue
  BY DEF IInv, Calm, OutcomeState, OutcomeIsTrue
<1>2. QED BY <1>1, OtaInvariance, PTL

-----------------------------------------------------------------------------
(* Somebody has the update in hand that otaHandle names. *)
InHand ==
  otaHandle # Null =>
    \/ \E r \in Requesters : pc[r] \in {"store", "test", "setbits"}
    \/ ota = "wait" /\ bit
    \/ ota \in {"started", "desc", "decide", "perform", "more", "finish", "null"}

(* A requester hands its update over to the task, or gives up without one. *)
LEMMA RequesterInHand ==
  ASSUME TypeOK, TaskHasGroup, Calm, InHand, NEW r \in Requesters, Request(r) \/ Requester(r)
  PROVE  InHand'
<1> USE DEF TypeOK, InHand, Goto, Return
<1>1. CASE BeginOk(r)
  BY <1>1 DEF BeginOk
<1>2. CASE BeginFails(r)
  BY <1>2 DEF BeginFails
<1>3. CASE StoreError(r)
  BY <1>3 DEF StoreError, worker
<1>4. CASE TestError(r)
  <2>1. CASE lastError = "OK"
    BY <1>4, <2>1 DEF TestError, worker
  <2>2. CASE lastError # "OK"
    <3>1. pc[r] = "test" /\ otaHandle' = otaHandle
      BY <1>4, <2>2 DEF TestError
    <3>2. otaHandle = Null
      BY <2>2, <3>1 DEF Calm, RequestState
    <3>3. QED BY <3>1, <3>2
  <2>3. QED BY <2>1, <2>2
<1>5. CASE SetBits(r)
  <2>1. ota = "wait"
    BY <1>5 DEF SetBits, Calm, OneStarts, TaskHasGroup, Starting
  <2>2. QED BY <1>5, <2>1 DEF SetBits, worker
<1>6. CASE Request(r) \/ CheckUrl(r) \/ WriteUrl(r) \/ RefuseUpdate(r) \/ StartUpdate(r)
  <2>1. /\ otaHandle' = otaHandle /\ bit' = bit /\ ota' = ota
        /\ \A q \in Requesters :
             pc[q] \in {"store", "test", "setbits"} => pc'[q] \in {"store", "test", "setbits"}
    BY <1>6 DEF Request, CheckUrl, WriteUrl, RefuseUpdate, StartUpdate, worker
  <2>2. QED BY <2>1
<1>7. QED BY <1>1, <1>2, <1>3, <1>4, <1>5, <1>6 DEF Requester

(* The task keeps it until ForgetHandle, and waits with none. *)
LEMMA TaskInHand ==
  ASSUME TypeOK, Calm, InHand, OtaTask
  PROVE  InHand'
<1> USE DEF TypeOK, InHand, Work, request
<1>1. CASE WaitBits \/ PostStarted \/ GetImgDesc \/ DecideDownload
  BY <1>1 DEF WaitBits, PostStarted, GetImgDesc, DecideDownload
<1>2. CASE PerformMore \/ PerformEnds \/ TestProgress \/ Finish
  BY <1>2 DEF PerformMore, PerformEnds, TestProgress, Finish
<1>3. CASE ForgetHandle
  BY <1>3 DEF ForgetHandle
<1>4. CASE TestOutcome \/ AdoptFinishError \/ PostOutcome \/ ClearBits
  <2>1. otaHandle = Null /\ otaHandle' = otaHandle
    BY <1>4 DEF TestOutcome, AdoptFinishError, PostOutcome, ClearBits, Calm, WorkState
  <2>2. QED BY <2>1
<1>5. QED BY <1>1, <1>2, <1>3, <1>4 DEF OtaTask

(* While requests do not race, a refusal means that an update is on its way: *)
(* isActive() is never left behind without anybody who will clear it.        *)
THEOREM UpdaterNotShut == Spec => []RefusesForAReason
<1>1. Init => raced \/ InHand
  BY DEF Init, InHand
<1>2. IInv /\ (raced \/ InHand) /\ [Next]_vars => (raced \/ InHand)'
  <2> SUFFICES ASSUME IInv, raced \/ InHand, [Next]_vars, ~raced' PROVE InHand'
    OBVIOUS
  <2>1. CASE Restart
    BY <2>1 DEF Restart, InHand
  <2>2. CASE ~Restart
    <3>1. ~raced
      BY <2>2, RacedEnds
    <3>2. Calm /\ InHand /\ TypeOK /\ TaskHasGroup
      BY <3>1 DEF IInv
    <3>3. CASE \E r \in Requesters : Request(r) \/ Requester(r)
      BY <3>2, <3>3, RequesterInHand
    <3>4. CASE OtaTask
      BY <3>2, <3>4, TaskInHand
    <3>5. CASE GotIp
      BY <3>2, <3>5 DEF GotIp, InHand, TaskHasGroup, TypeOK, request
    <3>6. CASE Construct \/ UNCHANGED vars
      BY <3>2, <3>6 DEF Construct, InHand, vars, request, worker
    <3>7. QED BY <2>2, <3>3, <3>4, <3>5, <3>6 DEF Next
  <2>3. QED BY <2>1, <2>2
<1>3. (raced \/ InHand) => RefusesForAReason
  BY DEF InHand, RefusesForAReason, isActive
<1>4. QED BY <1>1, <1>2, <1>3, OtaInvariance, PTL DEF Spec

-----------------------------------------------------------------------------
(* Nobody requests, and no task works, before the updater exists; an image   *)
(* is installed by Finish only, and work() ends with one of two reports.     *)
Offered ==
  /\ group => constructed
  /\ ~constructed => ~raced /\ \A r \in Requesters : pc[r] = "idle"
  /\ ota \in {"none", "wait", "started", "desc", "decide", "perform", "more", "finish"} =>
       ~installed
  /\ ota = "clear" => posted \in {"succeed", "failed"}

LEMMA OfferedNext ==
  ASSUME TypeOK, TaskHasGroup, Offered, [Next]_vars
  PROVE  Offered'
<1> USE DEF TypeOK, TaskHasGroup, Offered
<1>1. ASSUME NEW r \in Requesters, Request(r) \/ Requester(r)
      PROVE  Offered'
  <2>1. constructed /\ UNCHANGED <<constructed, group, worker>>
    BY <1>1 DEF Request, Requester, CheckUrl, WriteUrl, RefuseUpdate, StartUpdate, BeginOk,
                BeginFails, StoreError, TestError, SetBits, Goto, Return, device
  <2>2. QED BY <2>1 DEF worker
<1>2. CASE OtaTask
  <2>1. ota # "none" /\ UNCHANGED <<constructed, group>>
    BY <1>2 DEF OtaTask, WaitBits, PostStarted, GetImgDesc, DecideDownload, PerformMore,
                PerformEnds, TestProgress, Finish, ForgetHandle, TestOutcome,
                AdoptFinishError, PostOutcome, ClearBits, Work, device
  <2>2. constructed
    BY <2>1
  <2>3. /\ ota' \in {"none", "wait", "started", "desc", "decide", "perform", "more", "finish"} =>
             ~installed'
        /\ ota' = "clear" => posted' \in {"succeed", "failed"}
    BY <1>2 DEF OtaTask, WaitBits, PostStarted, GetImgDesc, DecideDownload, PerformMore,
                PerformEnds, TestProgress, Finish, ForgetHandle, TestOutcome,
                AdoptFinishError, PostOutcome, ClearBits, Work
  <2>4. QED BY <2>1, <2>2, <2>3
<1>3. CASE GotIp
  BY <1>3 DEF GotIp, request
<1>4. CASE Construct
  BY <1>4 DEF Construct, worker
<1>5. CASE Restart
  BY <1>5 DEF Restart
<1>6. CASE UNCHANGED vars
  BY <1>6 DEF vars, device, request, worker
<1>7. QED BY <1>1, <1>2, <1>3, <1>4, <1>5, <1>6 DEF Next

(* The abstract service's state, as the refinement mapping computes it. *)
Accepted == bit \/ \E r \in Requesters : pc[r] = "setbits"

ServiceNow ==
  IF raced THEN "raced"
  ELSE IF ~Waiting THEN IF installed THEN "installed" ELSE "running"
  ELSE IF Accepted THEN "accepted" ELSE "idle"

ReportNow == IF ~raced /\ ota = "clear" THEN posted ELSE "none"

mapped == <<constructed, ServiceNow, ReportNow>>

MappedStep ==
  \/ UNCHANGED mapped
  \/ ~constructed /\ constructed' /\ UNCHANGED <<ServiceNow, ReportNow>>
  \/ /\ constructed /\ constructed'
     /\ \/ ServiceNow = "idle" /\ ServiceNow' = "accepted" /\ ReportNow' = "none"
        \/ ServiceNow = "accepted" /\ ServiceNow' = "running" /\ ReportNow' = "none"
        \/ /\ ServiceNow = "running" /\ ReportNow = "none"
           /\ ServiceNow' = "installed" /\ ReportNow' = "none"
        \/ /\ ServiceNow \in {"running", "installed"} /\ ReportNow = "none"
           /\ ServiceNow' = ServiceNow
           /\ ReportNow' = IF ServiceNow = "installed" THEN "succeed" ELSE "failed"
        \/ /\ ServiceNow \in {"running", "installed"} /\ ReportNow # "none"
           /\ ServiceNow' = "idle" /\ ReportNow' = "none"
        \/ ServiceNow' = "raced" /\ ReportNow' = "none"
  \/ ~constructed' /\ ServiceNow' = "idle" /\ ReportNow' = "none"

(* A requester's step accepts an update, races, or is not seen. *)
LEMMA RequesterMaps ==
  ASSUME IInv, Offered, NEW r \in Requesters, Request(r) \/ Requester(r)
  PROVE  MappedStep
<1> USE DEF IInv, TypeOK
<1>1. constructed /\ UNCHANGED <<constructed, group, worker>>
  BY DEF Offered, Request, Requester, CheckUrl, WriteUrl, RefuseUpdate, StartUpdate, BeginOk,
         BeginFails, StoreError, TestError, SetBits, Goto, Return, device
<1>2. Waiting' = Waiting /\ installed' = installed /\ posted' = posted /\ ota' = ota
  BY <1>1 DEF worker, Waiting
<1>3. raced => raced'
  BY DEF Request, Requester, CheckUrl, WriteUrl, RefuseUpdate, StartUpdate, BeginOk,
         BeginFails, StoreError, TestError, SetBits
<1>4. CASE raced'
  <2>1. ServiceNow' = "raced" /\ ReportNow' = "none"
    BY <1>4 DEF ServiceNow, ReportNow
  <2>2. QED BY <1>1, <2>1 DEF MappedStep
<1>5. CASE ~raced'
  <2> USE <1>5, <1>3
  <2>1. CASE TestError(r) /\ lastError = "OK"
    <3>1. pc[r] = "test" /\ pc' = [pc EXCEPT ![r] = "setbits"] /\ bit' = bit
      BY <2>1 DEF TestError, Goto
    <3>2. Waiting /\ ~Accepted
      BY <3>1 DEF Calm, OneStarts, Starting, Waiting, Accepted
    <3>3. Accepted'
      BY <3>1 DEF Accepted
    <3>4. ServiceNow = "idle" /\ ServiceNow' = "accepted" /\ ReportNow' = "none"
      BY <1>2, <3>2, <3>3 DEF ServiceNow, ReportNow, Waiting
    <3>5. QED BY <1>1, <3>4 DEF MappedStep
  <2>2. CASE ~(TestError(r) /\ lastError = "OK")
    <3>1. Accepted' = Accepted
      <4>1. CASE SetBits(r)
        BY <4>1 DEF SetBits, Return, Goto, Accepted
      <4>2. CASE ~SetBits(r)
        <5>1. bit' = bit /\ \A q \in Requesters : (pc'[q] = "setbits") = (pc[q] = "setbits")
          BY <2>2, <4>2 DEF Request, Requester, CheckUrl, WriteUrl, RefuseUpdate, StartUpdate,
                 BeginOk, BeginFails, StoreError, TestError, Goto, Return
        <5>2. QED BY <5>1 DEF Accepted
      <4>3. QED BY <4>1, <4>2
    <3>2. UNCHANGED mapped
      BY <1>1, <1>2, <3>1 DEF mapped, ServiceNow, ReportNow
    <3>3. QED BY <3>2 DEF MappedStep
  <2>3. QED BY <2>1, <2>2
<1>6. QED BY <1>4, <1>5

(* A step of ota_updater_task begins, installs, reports, ends, or is not seen. *)
LEMMA TaskMaps ==
  ASSUME IInv, Offered, OtaTask
  PROVE  MappedStep
<1> USE DEF IInv, TypeOK
<1>1. raced' = raced /\ constructed' = constructed /\ pc' = pc /\ ota # "none"
  BY DEF OtaTask, WaitBits, PostStarted, GetImgDesc, DecideDownload, PerformMore,
         PerformEnds, TestProgress, Finish, ForgetHandle, TestOutcome,
         AdoptFinishError, PostOutcome, ClearBits, Work, device, request
<1>2. constructed
  BY <1>1 DEF Offered, TaskHasGroup
<1>3. CASE raced
  BY <1>1, <1>3 DEF MappedStep, mapped, ServiceNow, ReportNow
<1>4. CASE ~raced /\ WaitBits
  <2>1. bit /\ ota = "wait" /\ ota' = "started" /\ installed' = installed
    BY <1>4 DEF WaitBits, Work
  <2>2. ~installed
    BY <2>1 DEF Offered
  <2>3. ServiceNow = "accepted" /\ ServiceNow' = "running" /\ ReportNow' = "none"
    BY <1>1, <1>4, <2>1, <2>2 DEF ServiceNow, ReportNow, Waiting, Accepted
  <2>4. QED BY <1>1, <1>2, <2>3 DEF MappedStep
<1>5. CASE /\ ~raced
           /\ \/ PostStarted \/ GetImgDesc \/ DecideDownload \/ PerformMore \/ PerformEnds
              \/ TestProgress \/ ForgetHandle \/ TestOutcome \/ AdoptFinishError
  <2>1. ~Waiting /\ ~Waiting' /\ ota # "clear" /\ ota' # "clear" /\ installed' = installed
    BY <1>5 DEF PostStarted, GetImgDesc, DecideDownload, PerformMore, PerformEnds,
                TestProgress, ForgetHandle, TestOutcome, AdoptFinishError, Work, Waiting
  <2>2. UNCHANGED mapped
    BY <1>1, <2>1 DEF mapped, ServiceNow, ReportNow
  <2>3. QED BY <2>2 DEF MappedStep
<1>6. CASE ~raced /\ Finish
  <2>1. ota = "finish" /\ ota' = "null"
    BY <1>6 DEF Finish, Work
  <2>2. ServiceNow = "running" /\ ReportNow = "none" /\ ReportNow' = "none"
    BY <1>1, <1>6, <2>1 DEF Offered, ServiceNow, ReportNow, Waiting
  <2>3. ServiceNow' \in {"running", "installed"}
    BY <1>1, <1>6, <2>1 DEF ServiceNow, Waiting
  <2>4. QED BY <1>1, <1>2, <2>2, <2>3 DEF MappedStep, mapped
<1>7. CASE ~raced /\ PostOutcome
  <2>1. /\ ota = "report" /\ ota' = "clear" /\ installed' = installed
        /\ posted' = IF lastError = "OK" THEN "succeed" ELSE "failed"
    BY <1>7 DEF PostOutcome, Work
  <2>2. installed <=> lastError = "OK"
    BY <1>7, <2>1 DEF Calm, OutcomeState
  <2>3. ServiceNow = (IF installed THEN "installed" ELSE "running") /\ ServiceNow' = ServiceNow
    BY <1>1, <1>7, <2>1 DEF ServiceNow, Waiting
  <2>4. ReportNow = "none" /\ ReportNow' = posted'
    BY <1>1, <1>7, <2>1 DEF ReportNow
  <2>5. QED BY <1>1, <1>2, <2>1, <2>2, <2>3, <2>4 DEF MappedStep
<1>8. CASE ~raced /\ ClearBits
  <2>1. ota = "clear" /\ ota' = "wait" /\ ~bit'
    BY <1>8 DEF ClearBits, Work
  <2>2. \A r \in Requesters : pc[r] # "setbits"
    BY <1>8, <2>1 DEF Calm, OneStarts, Starting
  <2>3. ServiceNow' = "idle" /\ ReportNow' = "none"
    BY <1>1, <1>8, <2>1, <2>2 DEF ServiceNow, ReportNow, Waiting, Accepted
  <2>4. ServiceNow \in {"running", "installed"} /\ ReportNow # "none"
    BY <1>8, <2>1 DEF Offered, ServiceNow, ReportNow, Waiting
  <2>5. QED BY <1>1, <1>2, <2>3, <2>4 DEF MappedStep
<1>9. QED BY <1>3, <1>4, <1>5, <1>6, <1>7, <1>8 DEF OtaTask

(* The updater is an update service: one update at a time, carried out       *)
(* before the next is accepted, and truthfully reported, until requests race.*)
THEOREM UpdaterIsService == Spec => ImplementsUpdateService
<1>1. Init => Offered /\ Service!ServiceInit
  <2> SUFFICES ASSUME Init PROVE Offered /\ Service!ServiceInit
    OBVIOUS
  <2>1. QED BY DEF Init, Offered, Service!ServiceInit, Waiting
<1>2. IInv /\ Offered /\ [Next]_vars => Offered'
  BY OfferedNext DEF IInv
<1>3. IInv /\ Offered /\ [Next]_vars => MappedStep
  <2> SUFFICES ASSUME IInv, Offered, [Next]_vars PROVE MappedStep
    OBVIOUS
  <2>1. CASE \E r \in Requesters : Request(r) \/ Requester(r)
    BY <2>1, RequesterMaps
  <2>2. CASE OtaTask
    BY <2>2, TaskMaps
  <2>3. CASE GotIp
    <3>1. UNCHANGED <<constructed, bit, pc, raced, installed, posted>> /\ Waiting' = Waiting
          /\ (ota' = "clear") = (ota = "clear")
      BY <2>3 DEF GotIp, request, IInv, TypeOK, TaskHasGroup, Waiting
    <3>2. QED BY <3>1 DEF MappedStep, mapped, ServiceNow, ReportNow, Accepted
  <2>4. CASE Construct
    BY <2>4 DEF Construct, request, worker, MappedStep, ServiceNow, ReportNow, Accepted, Waiting
  <2>5. CASE Restart
    BY <2>5 DEF Restart, MappedStep, ServiceNow, ReportNow, Accepted, Waiting
  <2>6. CASE UNCHANGED vars
    BY <2>6 DEF vars, device, request, worker, MappedStep, mapped, ServiceNow, ReportNow,
                Accepted, Waiting
  <2>7. QED BY <2>1, <2>2, <2>3, <2>4, <2>5, <2>6 DEF Next
<1>4. IInv /\ MappedStep => [Service!ServiceNext]_<<constructed, ServiceNow, ReportNow>>
  BY DEF IInv, TypeOK, MappedStep, mapped, Service!ServiceNext, Service!Offer, Service!Accept,
         Service!Begin, Service!Install, Service!Report, Service!End, Service!Race,
         Service!Reboot, Service!Becomes, Service!AtWork, ServiceNow, ReportNow, Accepted
<1>5. QED
  BY <1>1, <1>2, <1>3, <1>4, OtaInvariance, PTL
  DEF Spec, ImplementsUpdateService, Service!ServiceSpec, ServiceNow, ReportNow, Accepted
=============================================================================
