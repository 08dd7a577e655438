--------------------------- MODULE WebServer_proofs ---------------------------
(***************************************************************************)
(* For every set of modules and handlers and every size of the server's    *)
(* table: the fields keep their types, and no endpoint is lost between      *)
(* addModule and startServer.                                               *)
(***************************************************************************)
EXTENDS WebServer, FiniteSetTheorems, TLAPS

(* addModule runs on the main task, registerUriHandlers on the loop's; as     *)
(* long as the server was never started nothing is registered.                *)
PlacesOK ==
  /\ web[Main] \notin {"started", "walk"}
  /\ web[Loop] # "test"
  /\ m_hndlServer = "null" =>
       /\ m_isRegistered = {} /\ uriHandlers = {}
       /\ web[Main] \in {"out", "test"} /\ web[Loop] = "out"

Served(m) == Handlers[m] \subseteq uriHandlers \/ Full

(* What a task has left of a module's handlers is all that is missing.        *)
TaskProgress ==
  \A t \in Tasks : web[t] = "register" =>
    Handlers[module[t]] \ handlers[t] \subseteq uriHandlers \/ Full

(* The flag m_isRegistered is set by the first handler that registers: until  *)
(* the others are, the task that set it is still at work.                     *)
FlagMeansServed ==
  \A m \in m_isRegistered :
    Served(m) \/ \E t \in Tasks : module[t] = m /\ web[t] = "register"

Live == m_hndlServer = "live" /\ ~lostUpdate

(* The inductive invariant. *)
WebInv ==
  /\ WebTypeOK /\ PlacesOK /\ IsFiniteSet(uriHandlers)
  /\ EveryEndpointServed
  /\ Live => TaskProgress /\ FlagMeansServed

-----------------------------------------------------------------------------
(* The server's table only grows while the server runs. *)
LEMMA TableGrows ==
  ASSUME IsFiniteSet(uriHandlers),
         uriHandlers' = uriHandlers \/ \E h : uriHandlers' = uriHandlers \union {h}
  PROVE  uriHandlers \subseteq uriHandlers' /\ IsFiniteSet(uriHandlers)' /\ (Full => Full')
<1>1. CASE uriHandlers' = uriHandlers
  BY <1>1 DEF Full
<1>2. ASSUME NEW h, uriHandlers' = uriHandlers \union {h}
      PROVE  uriHandlers \subseteq uriHandlers' /\ IsFiniteSet(uriHandlers)' /\ (Full => Full')
  <2>1. /\ IsFiniteSet(uriHandlers \union {h})
        /\ \/ Cardinality(uriHandlers \union {h}) = Cardinality(uriHandlers)
           \/ Cardinality(uriHandlers \union {h}) = Cardinality(uriHandlers) + 1
    BY FS_AddElement
  <2>2. Cardinality(uriHandlers) \in Nat
    BY FS_CardinalityType
  <2>3. QED BY <1>2, <2>1, <2>2, WebAssumption DEF Full
<1>3. QED BY <1>1, <1>2

(* What a call of httpd_register_uri_handler may change. *)
TableStep(t, h) ==
  /\ uriHandlers' = uriHandlers \/ uriHandlers' = uriHandlers \union {h}
  /\ m_isRegistered' = m_isRegistered \/ m_isRegistered' = m_isRegistered \union {module[t]}
  /\ lostUpdate' \in BOOLEAN /\ (lostUpdate => lostUpdate')
  /\ m_hndlServer # "null"
  /\ m_hndlServer = "live" /\ ~lostUpdate' => h \in uriHandlers' \/ Full

LEMMA RegisterStep ==
  ASSUME lostUpdate \in BOOLEAN, NEW t \in Tasks, NEW h, httpd_register_uri_handler(t, h)
  PROVE  TableStep(t, h)
BY DEF httpd_register_uri_handler, Registered, Refuses, Full, TableStep

(* Every step keeps the types, and the places of the two tasks. *)
LEMMA TypesNext ==
  ASSUME WebInv, [Next]_webVars
  PROVE  WebTypeOK' /\ PlacesOK' /\ IsFiniteSet(uriHandlers)'
<1> USE WebAssumption DEF WebInv, WebTypeOK, PlacesOK, Tasks
<1>1. ASSUME NEW m \in Modules, AddModule(m)
      PROVE  WebTypeOK' /\ PlacesOK' /\ IsFiniteSet(uriHandlers)'
  BY <1>1 DEF AddModule, Goto
<1>2. CASE TestRunning
  BY <1>2 DEF TestRunning, isServerRunning, Goto, ModuleDone, After, shared
<1>3. CASE HttpdStart
  BY <1>3 DEF HttpdStart, isServerRunning, Goto
<1>4. CASE RegisterUriHandlers
  BY <1>4 DEF RegisterUriHandlers, Goto, shared
<1>5. CASE NextModule
  BY <1>5 DEF NextModule, Goto, shared
<1>6. CASE AllRegistered
  BY <1>6 DEF AllRegistered, Goto, shared
<1>7. ASSUME NEW t \in Tasks, EnterModule(t)
      PROVE  WebTypeOK' /\ PlacesOK' /\ IsFiniteSet(uriHandlers)'
  <2>1. module[t] \in Modules
    BY <1>7 DEF EnterModule, ModuleDone, Goto
  <2>2. UNCHANGED <<shared, todo>>
    BY <1>7 DEF EnterModule
  <2>3. /\ web' \in [Tasks -> {"out", "test", "started", "walk", "enter", "register"}]
        /\ module' \in [Tasks -> Modules \union {NoModule}]
        /\ handlers' \in [Tasks -> SUBSET UNION {Handlers[m] : m \in Modules}]
        /\ \A u \in Tasks : /\ module'[u] # NoModule <=> web'[u] \in {"test", "enter", "register"}
                            /\ handlers'[u] # {} <=> web'[u] = "register"
    BY <1>7, <2>1 DEF EnterModule, ModuleDone, After, Goto
  <2>4. /\ todo' # {} => web'[Loop] \in {"walk", "enter", "register"}
        /\ web'[Main] \notin {"started", "walk"} /\ web'[Loop] # "test"
        /\ m_hndlServer # "null"
    BY <1>7, <2>2 DEF EnterModule, ModuleDone, After, Goto
  <2>5. QED BY <2>2, <2>3, <2>4 DEF shared
<1>8. ASSUME NEW t \in Tasks, RegisterHandler(t)
      PROVE  WebTypeOK' /\ PlacesOK' /\ IsFiniteSet(uriHandlers)'
  <2>1. PICK h \in handlers[t] : /\ httpd_register_uri_handler(t, h)
                                 /\ handlers' = [handlers EXCEPT ![t] = @ \ {h}]
    BY <1>8 DEF RegisterHandler
  <2>2. web[t] = "register" /\ module[t] \in Modules
    BY <2>1
  <2>3. h \in UNION {Handlers[m] : m \in Modules}
    BY <2>1
  <2>4. UNCHANGED <<m_hndlServer, m_httpModules, todo>>
    BY <1>8 DEF RegisterHandler
  <2>5. TableStep(t, h)
    BY <2>1, RegisterStep
  <2>6. /\ uriHandlers' \subseteq UNION {Handlers[m] : m \in Modules}
        /\ m_isRegistered' \subseteq Modules /\ lostUpdate' \in BOOLEAN
        /\ m_hndlServer # "null" /\ IsFiniteSet(uriHandlers)'
    BY <2>2, <2>3, <2>5, TableGrows DEF TableStep
  <2>7. /\ web' \in [Tasks -> {"out", "test", "started", "walk", "enter", "register"}]
        /\ module' \in [Tasks -> Modules \union {NoModule}]
        /\ handlers' \in [Tasks -> SUBSET UNION {Handlers[m] : m \in Modules}]
        /\ \A u \in Tasks : /\ module'[u] # NoModule <=> web'[u] \in {"test", "enter", "register"}
                            /\ handlers'[u] # {} <=> web'[u] = "register"
    BY <1>8, <2>1, <2>2 DEF RegisterHandler, ModuleDone, After, Goto
  <2>8. /\ todo' # {} => web'[Loop] \in {"walk", "enter", "register"}
        /\ web'[Main] \notin {"started", "walk"} /\ web'[Loop] # "test"
    BY <1>8, <2>2, <2>4 DEF RegisterHandler, ModuleDone, After, Goto
  <2>9. QED BY <2>4, <2>6, <2>7, <2>8
<1>9. CASE StopServer
  BY <1>9, FS_EmptySet DEF StopServer, locals
<1>10. CASE Restart
  BY <1>10, FS_EmptySet DEF Restart
<1>11. CASE UNCHANGED webVars
  BY <1>11 DEF webVars, shared, locals
<1>12. QED
  BY <1>1, <1>2, <1>3, <1>4, <1>5, <1>6, <1>7, <1>8, <1>9, <1>10, <1>11
  DEF Next, MainContinues, LoopContinues

-----------------------------------------------------------------------------
(* A handler that a task registers: what is left is again all that misses.   *)
LEMMA RegisterServes ==
  ASSUME WebInv, NEW t \in Tasks, RegisterHandler(t), Live'
  PROVE  EveryEndpointServed' /\ TaskProgress' /\ FlagMeansServed'
<1> USE DEF WebInv
<1>1. PICK h \in handlers[t] : /\ httpd_register_uri_handler(t, h)
                               /\ handlers' = [handlers EXCEPT ![t] = @ \ {h}]
  BY DEF RegisterHandler
<1>2. TableStep(t, h)
  BY <1>1, RegisterStep DEF WebTypeOK
<1>3. UNCHANGED <<m_hndlServer, m_httpModules, todo>> /\ Live
  BY <1>2 DEF RegisterHandler, Live, TableStep
<1>4. web[t] = "register" /\ module[t] \in Modules
  BY <1>1 DEF WebTypeOK
<1>5. PICK w \in Modules : w = module[t]
  BY <1>4
<1>6. uriHandlers \subseteq uriHandlers' /\ (Full => Full') /\ (h \in uriHandlers' \/ Full')
  BY <1>2, <1>3, TableGrows DEF Live, TableStep
<1>7. \A m : Served(m) => Served(m)'
  BY <1>6 DEF Served
<1>8. \A u \in Tasks \ {t} : web'[u] = web[u] /\ module'[u] = module[u] /\ handlers'[u] = handlers[u]
  BY <1>1 DEF RegisterHandler, ModuleDone, Goto, WebTypeOK
<1>9. Handlers[w] \ handlers'[t] \subseteq uriHandlers' \/ Full'
  BY <1>1, <1>3, <1>4, <1>5, <1>6 DEF TaskProgress, WebTypeOK
<1>10. \/ handlers'[t] # {} /\ web'[t] = "register" /\ module'[t] = module[t]
       \/ Served(w)' /\ web'[t] # "register"
  <2>1. CASE handlers'[t] = {}
    <3>1. Served(w)'
      BY <2>1, <1>9 DEF Served
    <3>2. web'[t] # "register"
      BY <2>1 DEF RegisterHandler, ModuleDone, Goto, After, WebTypeOK
    <3>3. QED BY <3>1, <3>2
  <2>2. CASE handlers'[t] # {}
    <3>1. Goto(t, "register", "register") /\ module' = module
      BY <2>2 DEF RegisterHandler
    <3>2. web \in [Tasks -> {"out", "test", "started", "walk", "enter", "register"}]
      BY DEF WebTypeOK
    <3>3. QED BY <2>2, <3>1, <3>2 DEF Goto
  <2>3. QED BY <2>1, <2>2
<1>11. TaskProgress'
  BY <1>3, <1>6, <1>8, <1>9, <1>10, <1>5 DEF TaskProgress
<1>12. FlagMeansServed'
  <2>1. m_isRegistered' \subseteq m_isRegistered \union {module[t]}
    BY <1>2 DEF TableStep
  <2>2. QED BY <2>1, <1>3, <1>4, <1>7, <1>8, <1>10, <1>5 DEF FlagMeansServed
<1>13. EveryEndpointServed'
  <2>1. SUFFICES ASSUME NEW m \in m_httpModules
                 PROVE  Unsettled(m)' \/ Served(m)'
    BY <1>3 DEF EveryEndpointServed, Served
  <2>2. Unsettled(m) \/ Served(m)
    BY <1>3 DEF EveryEndpointServed, Served, Live
  <2>3. CASE module[t] = m
    BY <2>3, <1>10, <1>5 DEF Unsettled
  <2>4. CASE module[t] # m /\ \E u \in Tasks : module[u] = m
    BY <2>4, <1>8 DEF Unsettled
  <2>5. CASE web[Loop] = "started"
    BY <2>5, <1>4, <1>8 DEF Unsettled, Tasks
  <2>6. QED BY <2>2, <2>3, <2>4, <2>5, <1>3, <1>7 DEF Unsettled
<1>14. QED BY <1>11, <1>12, <1>13

(* registerModuleHandlers returns at once for a module whose flag is set. *)
LEMMA EnterServes ==
  ASSUME WebInv, NEW t \in Tasks, EnterModule(t), Live
  PROVE  EveryEndpointServed' /\ TaskProgress' /\ FlagMeansServed'
<1> USE WebAssumption DEF WebInv
<1>1. UNCHANGED <<shared, todo>> /\ web[t] = "enter" /\ module[t] \in Modules
  BY DEF EnterModule, ModuleDone, Goto, WebTypeOK
<1>2. \A m : Served(m)' = Served(m)
  BY <1>1 DEF Served, Full, shared
<1>3. \A u \in Tasks \ {t} : web'[u] = web[u] /\ module'[u] = module[u] /\ handlers'[u] = handlers[u]
  BY DEF EnterModule, ModuleDone, Goto, WebTypeOK
<1>4. web'[t] = "register" => module'[t] = module[t] /\ handlers'[t] = Handlers[module[t]]
  BY DEF EnterModule, ModuleDone, Goto, After, WebTypeOK
<1>5. module'[t] = module[t] \/ module[t] \in m_isRegistered
  BY DEF EnterModule
<1>6. TaskProgress'
  BY <1>1, <1>3, <1>4 DEF TaskProgress, Full, shared
<1>7. FlagMeansServed'
  BY <1>1, <1>2, <1>3 DEF FlagMeansServed, shared
<1>8. ASSUME NEW m \in m_httpModules
      PROVE  Unsettled(m)' \/ Served(m)'
  <2>1. Unsettled(m) \/ Served(m)
    BY DEF EveryEndpointServed, Served, Live
  <2>2. CASE module[t] = m
    <3>1. CASE module'[t] = module[t]
      BY <2>2, <3>1 DEF Unsettled
    <3>2. CASE m \in m_isRegistered
      <4>1. Served(m) \/ \E u \in Tasks \ {t} : module[u] = m
        BY <3>2, <1>1 DEF FlagMeansServed
      <4>2. QED BY <4>1, <1>2, <1>3 DEF Unsettled
    <3>3. QED BY <2>2, <3>1, <3>2, <1>5
  <2>3. CASE module[t] # m /\ \E u \in Tasks : module[u] = m
    BY <2>3, <1>3 DEF Unsettled
  <2>4. CASE web[Loop] = "started"
    BY <2>4, <1>1, <1>3 DEF Unsettled, Tasks
  <2>5. CASE m \in todo \/ Served(m)
    BY <2>5, <1>1, <1>2 DEF Unsettled
  <2>6. QED BY <2>1, <2>2, <2>3, <2>4, <2>5 DEF Unsettled
<1>9. EveryEndpointServed'
  BY <1>1, <1>8 DEF EveryEndpointServed, Served, shared
<1>10. QED BY <1>6, <1>7, <1>9

(* Every other step: the server starts while startServer is about to walk    *)
(* over all modules, and every module is visited or was served.              *)
LEMMA NextServes ==
  ASSUME WebInv, [Next]_webVars, Live'
  PROVE  EveryEndpointServed' /\ TaskProgress' /\ FlagMeansServed'
<1> USE WebAssumption
    DEF WebInv, WebTypeOK, PlacesOK, Tasks, EveryEndpointServed, TaskProgress, FlagMeansServed,
        Served, Full, Live, Unsettled
<1>1. ASSUME NEW m \in Modules, AddModule(m)
      PROVE  EveryEndpointServed' /\ TaskProgress' /\ FlagMeansServed'
  BY <1>1 DEF AddModule, Goto
<1>2. CASE TestRunning
  BY <1>2 DEF TestRunning, isServerRunning, Goto, ModuleDone, After, shared
<1>3. CASE HttpdStart
  BY <1>3 DEF HttpdStart, isServerRunning, Goto
<1>4. CASE RegisterUriHandlers
  BY <1>4 DEF RegisterUriHandlers, Goto, shared
<1>5. CASE NextModule
  BY <1>5 DEF NextModule, Goto, shared
<1>6. CASE AllRegistered
  BY <1>6 DEF AllRegistered, Goto, shared
<1>7. ASSUME NEW t \in Tasks, EnterModule(t)
      PROVE  EveryEndpointServed' /\ TaskProgress' /\ FlagMeansServed'
  <2>1. Live
    BY <1>7 DEF EnterModule, shared
  <2>2. QED BY ONLY WebInv, t \in Tasks, <1>7, <2>1, EnterServes
<1>8. ASSUME NEW t \in Tasks, RegisterHandler(t)
      PROVE  EveryEndpointServed' /\ TaskProgress' /\ FlagMeansServed'
  BY ONLY WebInv, Live', t \in Tasks, <1>8, RegisterServes
<1>9. CASE StopServer \/ Restart
  BY <1>9 DEF StopServer, Restart
<1>10. CASE UNCHANGED webVars
  BY <1>10 DEF webVars, shared, locals
<1>11. QED
  BY <1>1, <1>2, <1>3, <1>4, <1>5, <1>6, <1>7, <1>8, <1>9, <1>10
  DEF Next, MainContinues, LoopContinues

-----------------------------------------------------------------------------
(* The inductive invariant holds in every reachable state. *)
THEOREM WebInvariance == Spec => []WebInv
<1>1. Init => WebInv
  <2> SUFFICES ASSUME Init PROVE WebInv
    OBVIOUS
  <2>1. WebTypeOK /\ PlacesOK
    BY WebAssumption DEF Init, WebTypeOK, PlacesOK, Tasks
  <2>2. QED
    BY <2>1, FS_EmptySet DEF Init, WebInv, EveryEndpointServed, Live
<1>2. WebInv /\ [Next]_webVars => WebInv'
  <2> SUFFICES ASSUME WebInv, [Next]_webVars
               PROVE  WebInv'
    OBVIOUS
  <2>1. WebTypeOK' /\ PlacesOK' /\ IsFiniteSet(uriHandlers)'
    BY TypesNext
  <2>2. Live' => EveryEndpointServed' /\ TaskProgress' /\ FlagMeansServed'
    BY NextServes
  <2>3. ~Live' => EveryEndpointServed'
    BY DEF Live, EveryEndpointServed
  <2>4. QED BY <2>1, <2>2, <2>3 DEF WebInv
<1>3. QED BY <1>1, <1>2, PTL DEF Spec

(* The fields of WebServerp keep their types. *)
THEOREM WebTypeCorrect == Spec => []WebTypeOK
<1>1. WebInv => WebTypeOK
  BY DEF WebInv
<1>2. QED BY <1>1, WebInvariance, PTL

(* In whatever order the main task adds modules and the event loop's task    *)
(* starts the server, every endpoint is served.                              *)
THEOREM NoEndpointMissed == Spec => []EveryEndpointServed
<1>1. WebInv => EveryEndpointServed
  BY DEF WebInv
<1>2. QED BY <1>1, WebInvariance, PTL
=============================================================================
