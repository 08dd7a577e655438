------------------------------ MODULE WebServer ------------------------------
(***************************************************************************)
(* http/WebServerp.cpp: modules are added by the main task (init_all and   *)
(* the application), the server is started by the event loop's task when   *)
(* the station gets an IP address.  Both register the handlers of modules; *)
(* m_hndlServer, m_httpModules and the modules' m_isRegistered are shared  *)
(* without a lock.  One step per access to a shared field.                 *)
(***************************************************************************)
EXTENDS Integers, FiniteSets

CONSTANTS
  Modules,         \* the HttpModules that may be added, each once
  Handlers,        \* Handlers[m]: what getHandlers of m returns
  MaxUriHandlers,  \* config.max_uri_handlers
  Main, Loop,      \* the task that adds modules, the task of the event loop
  NoModule

ASSUME WebAssumption ==
  /\ Main # Loop
  /\ NoModule \notin Modules
  /\ MaxUriHandlers \in Nat \ {0}
  /\ \A m \in Modules : Handlers[m] # {}

Tasks == {Main, Loop}

VARIABLES
  m_hndlServer,    \* "null", "live", or "dangling" after httpd_stop
  m_httpModules,   \* the vector, as the set of its elements
  m_isRegistered,  \* the modules with m_isRegistered
  uriHandlers,     \* the handlers esp_http_server knows
  web,             \* where each task is in WebServerp
  module,          \* the module it works on
  handlers,        \* those of its handlers it has yet to register
  todo,            \* modules registerUriHandlers has yet to visit
  lostUpdate       \* history: two registrations ran into each other

shared == <<m_hndlServer, m_httpModules, m_isRegistered, uriHandlers, lostUpdate>>
locals == <<web, module, handlers, todo>>
webVars == <<shared, locals>>

Init ==
  /\ m_hndlServer = "null"
  /\ m_httpModules = {} /\ m_isRegistered = {} /\ uriHandlers = {}
  /\ web = [t \in Tasks |-> "out"]
  /\ module = [t \in Tasks |-> NoModule]
  /\ handlers = [t \in Tasks |-> {}]
  /\ todo = {}
  /\ lostUpdate = FALSE

isServerRunning == m_hndlServer # "null"

Goto(t, from, to) == web[t] = from /\ web' = [web EXCEPT ![t] = to]

(* What follows registerModuleHandlers: addModule returns, the loop of       *)
(* registerUriHandlers goes on.                                              *)
After(t) == IF t = Main THEN "out" ELSE "walk"

ModuleDone(t, from) ==
  /\ Goto(t, from, After(t))
  /\ module' = [module EXCEPT ![t] = NoModule]

-----------------------------------------------------------------------------
(* addModule: push_back, then the test of isServerRunning *)

AddModule(m) ==
  /\ m \notin m_httpModules
  /\ Goto(Main, "out", "test")
  /\ module' = [module EXCEPT ![Main] = m]
  /\ m_httpModules' = m_httpModules \union {m}
  /\ UNCHANGED <<m_hndlServer, m_isRegistered, uriHandlers, lostUpdate, handlers, todo>>

(* Mutant: addModule leaves the registration to startServer. *)
TestRunningNever ==
  /\ ModuleDone(Main, "test")
  /\ UNCHANGED <<shared, handlers, todo>>

TestRunning ==
  /\ IF isServerRunning
       THEN Goto(Main, "test", "enter") /\ UNCHANGED module
       ELSE ModuleDone(Main, "test")
  /\ UNCHANGED <<shared, handlers, todo>>

-----------------------------------------------------------------------------
(* startServer.  It returns at once when isServerRunning; otherwise          *)
(* httpd_start assigns the handle at its end, or fails and leaves it null.   *)

HttpdStart ==
  /\ ~isServerRunning
  /\ Goto(Loop, "out", "started")
  /\ m_hndlServer' = "live"
  /\ UNCHANGED <<m_httpModules, m_isRegistered, uriHandlers, lostUpdate,
                 module, handlers, todo>>

(* registerUriHandlers: the range-for fixes its end here.  A push_back that  *)
(* reallocates the vector under it is a panic (Restart).                     *)
RegisterUriHandlers ==
  /\ Goto(Loop, "started", "walk")
  /\ todo' = m_httpModules
  /\ UNCHANGED <<shared, module, handlers>>

NextModule ==
  /\ \E m \in todo :
       /\ Goto(Loop, "walk", "enter")
       /\ module' = [module EXCEPT ![Loop] = m]
       /\ todo' = todo \ {m}
  /\ UNCHANGED <<shared, handlers>>

AllRegistered ==
  /\ todo = {}
  /\ Goto(Loop, "walk", "out")
  /\ UNCHANGED <<shared, module, handlers, todo>>

-----------------------------------------------------------------------------
(* registerModuleHandlers, on either task *)

EnterModule(t) ==
  /\ IF module[t] \in m_isRegistered
       THEN ModuleDone(t, "enter") /\ UNCHANGED handlers
       ELSE /\ Goto(t, "enter", "register")
            /\ handlers' = [handlers EXCEPT ![t] = Handlers[module[t]]]
            /\ UNCHANGED module
  /\ UNCHANGED <<shared, todo>>

(* httpd_register_uri_handler refuses a handler it knows and a full table.   *)
(* It takes no lock: of two calls at the same time one may lose its entry,   *)
(* though both succeed.  With the handle of a stopped server it works on     *)
(* freed memory: whatever it returns, no server knows the handler.           *)
Refuses(h) == h \in uriHandlers \/ Cardinality(uriHandlers) >= MaxUriHandlers

Collides(t) == \E u \in Tasks \ {t} : web[u] = "register"

Registered(m) == m_isRegistered' = m_isRegistered \union {m}

httpd_register_uri_handler(t, h) ==
  \/ /\ m_hndlServer = "live" /\ ~Refuses(h)
     /\ uriHandlers' = uriHandlers \union {h}
     /\ Registered(module[t])
     /\ UNCHANGED lostUpdate
  \/ /\ m_hndlServer = "live" /\ Refuses(h)
     /\ UNCHANGED <<uriHandlers, m_isRegistered, lostUpdate>>
  \/ /\ m_hndlServer = "live" /\ ~Refuses(h) /\ Collides(t)
     /\ lostUpdate' = TRUE
     /\ Registered(module[t])
     /\ UNCHANGED uriHandlers
  \/ /\ m_hndlServer = "dangling"
     /\ Registered(module[t]) \/ UNCHANGED m_isRegistered
     /\ UNCHANGED <<uriHandlers, lostUpdate>>

RegisterHandler(t) ==
  /\ \E h \in handlers[t] :
       /\ httpd_register_uri_handler(t, h)
       /\ handlers' = [handlers EXCEPT ![t] = @ \ {h}]
  /\ IF handlers'[t] = {} THEN ModuleDone(t, "register")
                          ELSE Goto(t, "register", "register") /\ UNCHANGED module
  /\ UNCHANGED <<m_hndlServer, m_httpModules, todo>>

-----------------------------------------------------------------------------
(* stopServer by the application; httpd_stop frees the server, the handle    *)
(* stays.  Stopping twice is a use of freed memory (Restart).                *)
StopServer ==
  /\ web[Main] = "out"
  /\ m_hndlServer = "live"
  /\ m_hndlServer' = "dangling"
  /\ uriHandlers' = {}
  /\ UNCHANGED <<m_httpModules, m_isRegistered, lostUpdate, locals>>

Restart ==
  /\ m_hndlServer' = "null"
  /\ m_httpModules' = {} /\ m_isRegistered' = {} /\ uriHandlers' = {}
  /\ web' = [t \in Tasks |-> "out"]
  /\ module' = [t \in Tasks |-> NoModule]
  /\ handlers' = [t \in Tasks |-> {}]
  /\ todo' = {}
  /\ lostUpdate' = FALSE

(* What a task does by itself once it is inside WebServerp. *)
MainContinues == TestRunning \/ EnterModule(Main) \/ RegisterHandler(Main)
LoopContinues ==
  \/ RegisterUriHandlers \/ NextModule \/ AllRegistered
  \/ EnterModule(Loop) \/ RegisterHandler(Loop)

Next ==
  \/ \E m \in Modules : AddModule(m)
  \/ HttpdStart
  \/ MainContinues \/ LoopContinues
  \/ StopServer \/ Restart

Spec == Init /\ [][Next]_webVars

-----------------------------------------------------------------------------
(* Type invariant: every field and every local of the two tasks, and the     *)
(* locals are set exactly where they are in use.                             *)
WebTypeOK ==
  /\ m_hndlServer \in {"null", "live", "dangling"}
  /\ m_httpModules \subseteq Modules /\ m_isRegistered \subseteq Modules
  /\ uriHandlers \subseteq UNION {Handlers[m] : m \in Modules}
  /\ web \in [Tasks -> {"out", "test", "started", "walk", "enter", "register"}]
  /\ module \in [Tasks -> Modules \union {NoModule}]
  /\ handlers \in [Tasks -> SUBSET UNION {Handlers[m] : m \in Modules}]
  /\ todo \subseteq Modules
  /\ lostUpdate \in BOOLEAN
  /\ \A t \in Tasks :
       /\ module[t] # NoModule <=> web[t] \in {"test", "enter", "register"}
       /\ handlers[t] # {} <=> web[t] = "register"
  /\ todo # {} => web[Loop] \in {"walk", "enter", "register"}

(* A task is about to visit m or is registering it. *)
Unsettled(m) ==
  \/ \E t \in Tasks : module[t] = m
  \/ web[Loop] = "started"
  \/ m \in todo

Full == Cardinality(uriHandlers) >= MaxUriHandlers

(* README, HTTP: endpoints can be added at runtime.  In whatever order       *)
(* addModule and startServer run, every handler of an added module that no   *)
(* task is working on is served by the running server, unless its table is   *)
(* full or two registrations ran into each other.                            *)
EveryEndpointServed ==
  m_hndlServer = "live" /\ ~lostUpdate =>
    \A m \in m_httpModules : Unsettled(m) \/ Handlers[m] \subseteq uriHandlers \/ Full
=============================================================================
