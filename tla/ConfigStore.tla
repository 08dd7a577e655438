----------------------------- MODULE ConfigStore ----------------------------
(***************************************************************************)
(* config/ConfigManager.cpp and the storing half of ConfigProperty.cpp: a  *)
(* manager in RAM over NVS, the flash store of ESP-IDF.  NVS serves reads  *)
(* from what was set and promises to keep it over a restart only after     *)
(* nvs_commit; until then any of the values set since the last commit may  *)
(* be the one that is found.  The device may restart between any two       *)
(* steps; nvs_set and nvs_commit may fail.                                 *)
(*                                                                         *)
(* The manager has no lock.  Each task is in one call at a time, the calls *)
(* of several tasks interleave: pc[t] says before which line task t is,    *)
(* key[t] and value[t] are the locals of its call.  A test of isOpen is    *)
(* one step with the NVS function behind it: closed in between, the handle *)
(* is invalid and the function fails, as if the test had failed.           *)
(*                                                                         *)
(* An int is itself.  A string is its length: what the code does with a    *)
(* string depends on nothing else, and ConfigPropertyConstraint clamps an  *)
(* int to [Minimum, Maximum] as it truncates a string to Maximum.          *)
(* The change handler and the events of a write are not part of this       *)
(* module.                                                                 *)
(***************************************************************************)
EXTENDS Integers

CONSTANTS
  Tasks,         \* the tasks that use the manager
  MainTask,      \* the one that opens and closes it
  HttpTask,      \* the one that serves /config and /system/info
  Keys,          \* the short keys of the application's properties
  StringKeys,    \* those that hold a std::string
  Inputs,        \* Inputs[k]: the values setValue and POST /config bring
  Fallback,      \* Fallback[k]: the argument of setDefaultValue
  Minimum,       \* Minimum[k], Maximum[k]: the constraint of k
  Maximum,
  ReadOnly,      \* keys with Accessibility::ReadOnly
  RESTART_COUNTER_KEY,
  Absent,        \* a key NVS does not hold
  MaxBoots,      \* bound on the number of boots
  MaxCount       \* bound on the restart counter

ASSUME StoreAssumption ==
  /\ MainTask \in Tasks /\ HttpTask \in Tasks /\ MainTask # HttpTask
  /\ StringKeys \subseteq Keys /\ ReadOnly \subseteq Keys
  /\ RESTART_COUNTER_KEY \notin Keys
  /\ "none" \notin Keys \union {RESTART_COUNTER_KEY}
  /\ Absent \notin Int
  /\ MaxBoots \in Nat \ {0} /\ MaxCount \in Nat
  /\ \A k \in Keys : /\ Inputs[k] \subseteq Int
                     /\ Fallback[k] \in Int
                     /\ Minimum[k] \in Int /\ Maximum[k] \in Int
                     /\ Minimum[k] <= Maximum[k]

MAXIMUM_CONFIG_VALUE_LENGTH == 64

Stored == Keys \union {RESTART_COUNTER_KEY}

VARIABLES
  nvs,                  \* nvs[k]: what nvs_get finds
  survivors,            \* survivors[k]: what it may find after a restart
  m_isOpen,
  m_autoCommitEnabled,
  m_restartCounter,
  m_properties,         \* the properties created since the boot
  typed,                \* those whose m_type is known
  configured,           \* those with their default value and constraint
  pc, key, value,       \* of each task
  document,             \* what the HTTP task's fromJson has yet to apply
  boots,
  acked,        \* history: acked[k], the value that setValue or commit
                \* reported as stored last, unless overwritten
  latest,       \* history: the tasks whose nvs_set is the last of its key
  incremented,  \* history: nvs_set of the counter has succeeded in this boot
  counted,      \* history: the counter this boot has reported as stored, or 0
  lastCounted,  \* history: the counter of the last boot that was counted
  overwritten   \* history: getRestartCounter put another value over a counter

flash == <<nvs, survivors>>
manager == <<m_isOpen, m_autoCommitEnabled, m_restartCounter>>
properties == <<m_properties, typed, configured>>
locals == <<pc, key, value>>
counting == <<counted, lastCounted, overwritten>>
history == <<acked, latest, incremented, counting>>
vars == <<flash, manager, properties, locals, document, boots, history>>

NoDocument == [k \in {} |-> 0]

AtIdle == [t \in Tasks |-> "idle"]
NoKey == [t \in Tasks |-> "none"]
NoValue == [t \in Tasks |-> 0]

Init ==
  /\ nvs = [k \in Stored |-> Absent]
  /\ survivors = [k \in Stored |-> {Absent}]
  /\ m_isOpen = FALSE /\ m_autoCommitEnabled = TRUE /\ m_restartCounter = 0
  /\ m_properties = {} /\ typed = {} /\ configured = {}
  /\ boots = 1
  /\ pc = AtIdle /\ key = NoKey /\ value = NoValue /\ document = NoDocument
  /\ acked = [k \in Stored |-> Absent] /\ lastCounted = 0
  /\ latest = {} /\ incremented = FALSE /\ counted = 0 /\ overwritten = FALSE

Ready(t) == pc[t] = "idle" /\ (t = HttpTask => document = NoDocument)

(* ConfigPropertyConstraint::constrain *)
Constrain(k, v) ==
  IF k \notin configured THEN v
  ELSE IF v < Minimum[k] THEN Minimum[k]
  ELSE IF v > Maximum[k] THEN Maximum[k] ELSE v

Default(k) == IF k \in configured THEN Fallback[k] ELSE 0

(* ConfigProperty::getValue and ConfigManager::getValue.  nvs_get_str counts *)
(* the terminating zero of a string.                                         *)
getValue(k) ==
  IF ~m_isOpen \/ nvs[k] = Absent \/ (k \in StringKeys /\ nvs[k] + 1 >= 64)
    THEN Default(k)
    ELSE nvs[k]

-----------------------------------------------------------------------------
GoTo(t, line) == pc' = [pc EXCEPT ![t] = line]

(* The end of task t's call. *)
Leave(t) ==
  /\ GoTo(t, "idle")
  /\ key' = [key EXCEPT ![t] = "none"] /\ value' = [value EXCEPT ![t] = 0]
  /\ latest' = latest \ {t}

(* ConfigManager::setValue up to autoCommit: nvs_set_i32 or nvs_set_str *)
NvsSet(t, k, v) ==
  /\ nvs' = [nvs EXCEPT ![k] = v]
  /\ survivors' = [survivors EXCEPT ![k] = @ \union {v}]
  /\ GoTo(t, "commit")
  /\ key' = [key EXCEPT ![t] = k] /\ value' = [value EXCEPT ![t] = v]
  /\ acked' = [acked EXCEPT ![k] = Absent]
  /\ latest' = {u \in latest : key[u] # k} \union {t}
  /\ incremented' = (incremented \/ k = RESTART_COUNTER_KEY)

(* Mutant: setValue without the length check. *)
RefusedNotTooLong(k, v) == ~m_isOpen

Refused(k, v) == ~m_isOpen \/ (k \in StringKeys /\ v > MAXIMUM_CONFIG_VALUE_LENGTH)

(* nothing is stored: an early return, or nvs_set fails *)
SetFails(t) == Leave(t) /\ UNCHANGED <<flash, acked, incremented>>

Write(t, k, v) == SetFails(t) \/ (~Refused(k, v) /\ NvsSet(t, k, v))

(* ConfigProperty::setValue: the application, a command from MQTT *)
SetValue(t, k, v) ==
  /\ t # HttpTask /\ Ready(t)
  /\ k \in m_properties
  /\ typed' = typed \union {k}
  /\ Write(t, k, Constrain(k, v))
  /\ UNCHANGED <<manager, m_properties, configured, document, boots, counting>>

(* POST /config: ConfigManager::fromJson *)
PostConfig(D) ==
  /\ Ready(HttpTask)
  /\ document' \in [D -> UNION {Inputs[k] : k \in D}]
  /\ \A k \in D : document'[k] \in Inputs[k]
  /\ UNCHANGED <<flash, manager, properties, locals, boots, history>>

(* One property of the document; ConfigProperty::fromJson ignores it while   *)
(* the type is unknown, fromJson when it is read-only or does not exist.     *)
FromJson(k) ==
  /\ pc[HttpTask] = "idle"
  /\ k \in DOMAIN document
  /\ document' = [j \in DOMAIN document \ {k} |-> document[j]]
  /\ IF k \in (m_properties \intersect typed) \ ReadOnly
       THEN Write(HttpTask, k, Constrain(k, document[k]))
       ELSE SetFails(HttpTask)
  /\ UNCHANGED <<manager, properties, boots, counting>>

(* nvs_commit; it writes back what every task has set *)
NvsCommit == survivors' = [k \in Stored |-> {nvs[k]}]

(* Mutant: autoCommit takes a set value for a stored one. *)
AutoCommitNever(t) ==
  /\ pc[t] = "commit"
  /\ GoTo(t, IF m_autoCommitEnabled THEN "committed" ELSE "uncommitted")
  /\ UNCHANGED <<flash, manager, properties, key, value, document, boots, history>>

AutoCommit(t) ==
  /\ pc[t] = "commit"
  /\ \/ /\ m_autoCommitEnabled /\ m_isOpen
        /\ NvsCommit /\ GoTo(t, "committed") /\ UNCHANGED <<key, value, latest>>
     \/ /\ ~m_autoCommitEnabled
        /\ GoTo(t, "uncommitted") /\ UNCHANGED <<survivors, key, value, latest>>
     \/ m_autoCommitEnabled /\ Leave(t) /\ UNCHANGED survivors
  /\ UNCHANGED <<nvs, manager, properties, document, boots, acked, incremented, counting>>

(* setValue returns true; updateRestartCounter then assigns newCount.  What  *)
(* the caller has been told is acked, unless another write of the key has    *)
(* come in between.                                                          *)
Finish(t) ==
  /\ pc[t] \in {"committed", "uncommitted"}
  /\ Leave(t)
  /\ acked' = IF pc[t] = "committed" /\ t \in latest
                THEN [acked EXCEPT ![key[t]] = value[t]] ELSE acked
  /\ IF key[t] = RESTART_COUNTER_KEY
       THEN /\ m_restartCounter' = value[t]
            /\ counted' = IF pc[t] = "committed" THEN value[t] ELSE counted
       ELSE UNCHANGED <<m_restartCounter, counted>>
  /\ UNCHANGED <<flash, m_isOpen, m_autoCommitEnabled, properties, document, boots,
                 incremented, lastCounted, overwritten>>

-----------------------------------------------------------------------------
(* Mutant: open starts from an empty store. *)
OpenNvsErases ==
  /\ Ready(MainTask) /\ ~m_isOpen
  /\ m_isOpen' = TRUE
  /\ nvs' = [k \in Stored |-> Absent]
  /\ survivors' = [k \in Stored |-> {Absent}]
  /\ GoTo(MainTask, "update")
  /\ UNCHANGED <<m_autoCommitEnabled, m_restartCounter, properties, key, value, document,
                 boots, history>>

(* ConfigManager::open up to updateRestartCounter, from ConfigManager::init  *)
(* or by the application.  When nvs_open fails nothing changes.              *)
OpenNvs ==
  /\ Ready(MainTask) /\ ~m_isOpen
  /\ m_isOpen' = TRUE
  /\ GoTo(MainTask, "update")
  /\ UNCHANGED <<flash, m_autoCommitEnabled, m_restartCounter, properties, key, value,
                 document, boots, history>>

(* Mutant: updateRestartCounter without its "already incremented" return. *)
UpdateRestartCounterAlways ==
  /\ pc[MainTask] = "update"
  /\ GoTo(MainTask, "test")
  /\ UNCHANGED <<flash, manager, properties, key, value, document, boots, history>>

(* updateRestartCounter, its test *)
UpdateRestartCounter ==
  /\ pc[MainTask] = "update"
  /\ GoTo(MainTask, IF m_restartCounter > 0 THEN "idle" ELSE "test")
  /\ UNCHANGED <<flash, manager, properties, key, value, document, boots, history>>

(* GET /system/info: SystemInfo::responseAddRestartCounter *)
GetSystemInfo ==
  /\ Ready(HttpTask)
  /\ GoTo(HttpTask, "test")
  /\ UNCHANGED <<flash, manager, properties, key, value, document, boots, history>>

(* getRestartCounter: the test, the read, the assignment and the return *)
TestCounter(t) ==
  /\ pc[t] = "test"
  /\ IF m_restartCounter = 0
       THEN GoTo(t, "read") /\ UNCHANGED value
       ELSE GoTo(t, "return") /\ value' = [value EXCEPT ![t] = m_restartCounter]
  /\ UNCHANGED <<flash, manager, properties, key, document, boots, history>>

(* Mutant: the counter is taken from NVS without the default value. *)
ReadCounterNoDefault(t) ==
  /\ pc[t] = "read"
  /\ value' = [value EXCEPT ![t] = nvs[RESTART_COUNTER_KEY]]
  /\ GoTo(t, "assign")
  /\ UNCHANGED <<flash, manager, properties, key, document, boots, history>>

(* Mutant: the counter starts from zero at every boot. *)
ReadCounterForgets(t) ==
  /\ pc[t] = "read"
  /\ GoTo(t, "assign")
  /\ UNCHANGED <<flash, manager, properties, key, value, document, boots, history>>

StoredCounter ==
  IF ~m_isOpen \/ nvs[RESTART_COUNTER_KEY] = Absent THEN 0 ELSE nvs[RESTART_COUNTER_KEY]

ReadCounter(t) ==
  /\ pc[t] = "read"
  /\ value' = [value EXCEPT ![t] = StoredCounter]
  /\ GoTo(t, "assign")
  /\ UNCHANGED <<flash, manager, properties, key, document, boots, history>>

AssignCounter(t) ==
  /\ pc[t] = "assign"
  /\ m_restartCounter' = value[t]
  /\ overwritten' = (overwritten \/ m_restartCounter \notin {0, value[t]})
  /\ GoTo(t, "return")
  /\ UNCHANGED <<flash, m_isOpen, m_autoCommitEnabled, properties, key, value, document,
                 boots, acked, latest, incremented, counted, lastCounted>>

(* m_restartCounter is plain: what is returned is what this call has seen,   *)
(* or what is there now.                                                     *)
Returned(t) == {value[t], m_restartCounter}

(* The return to updateRestartCounter, which stores the next count, or to    *)
(* the HTTP handler, which reports it.                                       *)
ReturnCounter(t) ==
  /\ pc[t] = "return"
  /\ \E n \in Returned(t) :
       IF t = MainTask /\ n < MaxCount
         THEN Write(t, RESTART_COUNTER_KEY, n + 1)
         ELSE SetFails(t)
  /\ UNCHANGED <<manager, properties, document, boots, counting>>

Close ==
  /\ Ready(MainTask) /\ m_isOpen
  /\ m_isOpen' = FALSE
  /\ UNCHANGED <<flash, m_autoCommitEnabled, m_restartCounter, properties, locals, document,
                 boots, history>>

(* ConfigManager::commit by the application; a failure changes nothing *)
Commit(t) ==
  /\ t # HttpTask /\ Ready(t)
  /\ m_isOpen
  /\ NvsCommit /\ acked' = nvs
  /\ UNCHANGED <<nvs, manager, properties, locals, document, boots, latest, incremented,
                 counting>>

SetAutoCommitEnabled ==
  /\ m_autoCommitEnabled' \in BOOLEAN
  /\ UNCHANGED <<flash, m_isOpen, m_restartCounter, properties, locals, document, boots,
                 history>>

(* property(k), then the application's setDefaultValue and setConstraint *)
Property(k) ==
  /\ m_properties' = m_properties \union {k}
  /\ UNCHANGED <<flash, manager, typed, configured, locals, document, boots, history>>

Configure(k) ==
  /\ k \in m_properties
  /\ configured' = configured \union {k}
  /\ typed' = typed \union {k}
  /\ UNCHANGED <<flash, manager, m_properties, locals, document, boots, history>>

(* Reset, panic or power loss: RAM is lost, NVS finds for every key one of   *)
(* the values that may have survived.                                        *)
Restart ==
  /\ boots < MaxBoots
  /\ boots' = boots + 1
  /\ nvs' \in [Stored -> UNION {survivors[k] : k \in Stored}]
  /\ \A k \in Stored : nvs'[k] \in survivors[k]
  /\ survivors' = [k \in Stored |-> {nvs'[k]}]
  /\ m_isOpen' = FALSE /\ m_autoCommitEnabled' = TRUE /\ m_restartCounter' = 0
  /\ m_properties' = {} /\ typed' = {} /\ configured' = {}
  /\ pc' = AtIdle /\ key' = NoKey /\ value' = NoValue /\ document' = NoDocument
  /\ UNCHANGED acked
  /\ lastCounted' = IF overwritten THEN 0
                    ELSE IF counted # 0 THEN counted ELSE lastCounted
  /\ latest' = {} /\ incremented' = FALSE /\ counted' = 0 /\ overwritten' = FALSE

CounterStep(t) == TestCounter(t) \/ ReadCounter(t) \/ AssignCounter(t) \/ ReturnCounter(t)

Next ==
  \/ \E t \in Tasks : \/ \E k \in Keys : \E v \in Inputs[k] : SetValue(t, k, v)
                      \/ AutoCommit(t) \/ Finish(t) \/ Commit(t)
                      \/ CounterStep(t)
  \/ \E k \in Keys : FromJson(k) \/ Property(k) \/ Configure(k)
  \/ \E D \in SUBSET Keys : PostConfig(D)
  \/ OpenNvs \/ UpdateRestartCounter \/ GetSystemInfo
  \/ Close \/ SetAutoCommitEnabled
  \/ Restart

Spec == Init /\ [][Next]_vars

-----------------------------------------------------------------------------
Lines == {"idle", "update", "test", "read", "assign", "return",
          "commit", "committed", "uncommitted"}

IsEntries(f) == DOMAIN f = Stored /\ \A k \in Stored : f[k] \in Int \/ f[k] = Absent

(* Type invariant: every field, NVS entry, local and history variable. *)
TypeOK ==
  /\ IsEntries(nvs) /\ IsEntries(acked)
  /\ DOMAIN survivors = Stored
  /\ \A k \in Stored : \A v \in survivors[k] : v \in Int \/ v = Absent
  /\ m_isOpen \in BOOLEAN /\ m_autoCommitEnabled \in BOOLEAN
  /\ m_restartCounter \in Nat
  /\ m_properties \subseteq Keys /\ typed \subseteq Keys /\ configured \subseteq Keys
  /\ pc \in [Tasks -> Lines]
  /\ key \in [Tasks -> Stored \union {"none"}]
  /\ value \in [Tasks -> Int]
  /\ DOMAIN document \subseteq Keys
  /\ \A k \in DOMAIN document : document[k] \in Inputs[k]
  /\ boots \in 1..MaxBoots
  /\ latest \subseteq Tasks /\ incremented \in BOOLEAN
  /\ counted \in Nat /\ lastCounted \in Nat /\ overwritten \in BOOLEAN

(* README, Config: values are persisted.  A value for which setValue, with   *)
(* auto-commit, or commit has returned true, and that nothing has            *)
(* overwritten, is the only one a restart can bring back, and the one that   *)
(* is read, whatever other tasks set, commit or fail to.                     *)
AckedSurvives ==
  \A k \in Stored : acked[k] # Absent => survivors[k] = {acked[k]} /\ nvs[k] = acked[k]

(* "already incremented...": once the increment of this boot is reported as  *)
(* stored, closing and opening the manager does not count another restart,   *)
(* unless getRestartCounter of another task has put an older value over the  *)
(* counter.                                                                  *)
CountedOnce ==
  [][counted # 0 /\ counted' # 0 /\ ~overwritten
       => nvs'[RESTART_COUNTER_KEY] = nvs[RESTART_COUNTER_KEY]]_vars

(* A counted boot goes on reporting its count, which is larger than that of  *)
(* the last counted boot before it, with the same exception.                 *)
CounterGrows ==
  counted # 0 /\ ~overwritten => counted > lastCounted /\ m_restartCounter = counted

(* "already incremented...": where updateRestartCounter tests it, the counter *)
(* in RAM is set in a boot that has incremented the stored one, and only in   *)
(* such a boot.                                                               *)
AlreadyIncremented ==
  pc[MainTask] = "update" =>
    IF m_restartCounter > 0 THEN incremented ELSE counted = 0

(* README, Config, sample property: a value written is the value read, also  *)
(* after a reboot: what is committed to NVS is what getValue returns.        *)
ReadsBack == \A k \in Keys : m_isOpen /\ acked[k] # Absent => getValue(k) = acked[k]

(* setValue stores strings of up to 64 characters and getValue refuses       *)
(* those whose size with the terminating zero is 64 or more: the lengths 63  *)
(* and 64 are all that is lost.  Every other committed value is read back,   *)
(* whatever constraints were set, and writes refused, since.                 *)
ReadsBackOutsideGap ==
  \A k \in Keys :
    m_isOpen /\ acked[k] # Absent /\ (k \in StringKeys => acked[k] \notin {63, 64})
      => getValue(k) = acked[k]

-----------------------------------------------------------------------------
Durable == INSTANCE DurableStore WITH Names <- Stored, None <- Absent,
                                      current <- nvs, safe <- acked

(* README, Config: every step of the manager, and every restart, is a write  *)
(* of one key, a sync, or a crash that keeps what was synced.                *)
ImplementsDurableStore == Durable!DurableSpec
=============================================================================
