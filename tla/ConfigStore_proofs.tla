------------------------- MODULE ConfigStore_proofs -------------------------
(***************************************************************************)
(* For every set of tasks, properties, values and constraints: the fields  *)
(* keep their types, values reported as stored survive, the store is a     *)
(* durable map, and, unless a late reader of the restart counter has put   *)
(* an older value over it, the counter counts a boot once and grows.       *)
(***************************************************************************)
EXTENDS ConfigStore, TLAPS

RC == RESTART_COUNTER_KEY

Writing == {"commit", "committed", "uncommitted"}
Opening == {"update", "test", "read", "assign", "return"}

(* What a task in setValue knows: the last nvs_set of a key is what NVS      *)
(* holds, and once committed all that may survive.  Only the main task       *)
(* writes the counter, and it opens the manager before.                      *)
WritesInv ==
  /\ nvs[RC] \in survivors[RC]
  /\ \A v \in survivors[RC] : v = Absent \/ v \in Nat
  /\ \A t \in Tasks : key[t] = RC => t = MainTask /\ t \in latest /\ value[t] \in Nat
  /\ \A t \in Tasks : pc[t] \in Writing => key[t] \in Stored
  /\ \A t \in Tasks : pc[t] \in {"assign", "return"} => value[t] \in Nat
  /\ \A t \in latest : /\ pc[t] \in Writing
                       /\ nvs[key[t]] = value[t]
                       /\ pc[t] = "committed" => survivors[key[t]] = {value[t]}
  /\ pc[MainTask] \in Opening => m_isOpen

(* What NVS holds, or may hold after a restart, is not below the counter of  *)
(* the last counted boot.                                                    *)
NotBelow(v, n) == IF v = Absent THEN n = 0 ELSE v >= n

(* The strengthening of CounterGrows and CountedOnce: what a restart may     *)
(* find, the field and the locals of getRestartCounter are bounded below by  *)
(* the last counted boot (a reader that found the manager closed has 0), and *)
(* a boot that is counted has no increment under way.                        *)
CounterInv ==
  ~overwritten =>
    /\ \A v \in survivors[RC] : NotBelow(v, lastCounted)
    /\ m_restartCounter = 0 \/ m_restartCounter >= lastCounted
    /\ \A t \in Tasks : pc[t] = "assign" => value[t] = 0 \/ value[t] >= lastCounted
    /\ pc[MainTask] \in {"assign", "return"} => value[MainTask] >= lastCounted
    /\ pc[MainTask] = "return" => m_restartCounter >= lastCounted
    /\ pc[MainTask] \in {"test", "read", "assign", "return"} => counted = 0
    /\ key[MainTask] = RC => counted = 0 /\ value[MainTask] > lastCounted
    /\ counted # 0 => /\ counted > lastCounted
                      /\ m_restartCounter = counted
                      /\ acked[RC] = counted

IInv == TypeOK /\ AckedSurvives /\ WritesInv /\ CounterInv

-----------------------------------------------------------------------------
(* A constrained value of a property is an int (or a length) again. *)
LEMMA ConstrainInt ==
  ASSUME NEW k \in Keys, NEW v \in Int
  PROVE  Constrain(k, v) \in Int
BY StoreAssumption DEF Constrain

(* The counter is a key of its own; tasks are distinct. *)
LEMMA KeysDiffer ==
  /\ RC \in Stored /\ RC # "none" /\ \A k \in Keys : k \in Stored /\ k # RC
  /\ MainTask \in Tasks /\ HttpTask \in Tasks /\ MainTask # HttpTask
BY StoreAssumption DEF RC, Stored

(* A task that is not in setValue is not the last writer of a key. *)
LEMMA NotLatest ==
  ASSUME WritesInv, NEW t \in Tasks, pc[t] \notin Writing
  PROVE  t \notin latest /\ key[t] # RC
BY DEF WritesInv

(* setValue keeps the types, whether it stores the value or not. *)
LEMMA WriteTypes ==
  ASSUME TypeOK, NEW t \in Tasks, NEW k \in Stored, NEW v \in Int,
         NvsSet(t, k, v) \/ SetFails(t)
  PROVE  /\ IsEntries(nvs)' /\ IsEntries(acked)'
         /\ DOMAIN survivors' = Stored
         /\ \A j \in Stored : \A w \in survivors'[j] : w \in Int \/ w = Absent
         /\ pc' \in [Tasks -> Lines] /\ key' \in [Tasks -> Stored \union {"none"}]
         /\ value' \in [Tasks -> Int]
         /\ latest' \subseteq Tasks /\ incremented' \in BOOLEAN
<1>1. CASE SetFails(t)
  <2>1. UNCHANGED <<nvs, survivors, acked, incremented>> /\ Leave(t)
    BY <1>1 DEF SetFails, flash
  <2>2. /\ pc' \in [Tasks -> Lines] /\ key' \in [Tasks -> Stored \union {"none"}]
        /\ value' \in [Tasks -> Int] /\ latest' \subseteq Tasks
    BY <2>1 DEF Leave, GoTo, TypeOK, Lines
  <2>3. QED BY <2>1, <2>2 DEF TypeOK, IsEntries
<1>2. CASE NvsSet(t, k, v)
  <2>1. IsEntries(nvs)' /\ IsEntries(acked)' /\ DOMAIN survivors' = Stored
    BY <1>2 DEF NvsSet, TypeOK, IsEntries
  <2>2. ASSUME NEW j \in Stored, NEW w \in survivors'[j]
        PROVE  w \in Int \/ w = Absent
    <3>1. w \in survivors[j] \/ w = v
      BY <1>2, <2>2 DEF NvsSet, TypeOK
    <3>2. QED BY <3>1, <2>2 DEF TypeOK
  <2>3. /\ pc' \in [Tasks -> Lines] /\ key' \in [Tasks -> Stored \union {"none"}]
        /\ value' \in [Tasks -> Int] /\ latest' \subseteq Tasks
    BY <1>2 DEF NvsSet, GoTo, TypeOK, Lines
  <2>4. incremented' \in BOOLEAN
    BY <1>2 DEF NvsSet, TypeOK
  <2>5. QED BY <2>1, <2>2, <2>3, <2>4
<1>3. QED BY <1>1, <1>2

(* setValue keeps what was reported as stored for the keys it does not       *)
(* overwrite, and makes its task the last writer of the one it does.         *)
LEMMA WriteKeeps ==
  ASSUME TypeOK, AckedSurvives, WritesInv,
         NEW t \in Tasks, NEW k \in Stored, NEW v \in Int, pc[t] \notin Writing,
         k = RC => t = MainTask /\ v \in Nat,
         NvsSet(t, k, v) \/ SetFails(t), m_isOpen' = m_isOpen
  PROVE  AckedSurvives' /\ WritesInv'
<1>0. t \notin latest /\ key[t] # RC
  BY NotLatest
<1>1. CASE SetFails(t)
  <2>1. UNCHANGED <<nvs, survivors, acked>> /\ Leave(t)
    BY <1>1 DEF SetFails, flash
  <2>2. AckedSurvives'
    BY <2>1 DEF AckedSurvives
  <2>3. WritesInv'
    BY <1>0, <2>1, KeysDiffer
    DEF WritesInv, Leave, GoTo, TypeOK, Writing, Opening
  <2>4. QED BY <2>2, <2>3
<1>2. CASE NvsSet(t, k, v)
  <2>1. AckedSurvives'
    BY <1>2 DEF NvsSet, AckedSurvives, TypeOK, IsEntries
  <2>2. /\ nvs'[k] = v /\ survivors'[k] = survivors[k] \union {v}
        /\ \A j \in Stored \ {k} : nvs'[j] = nvs[j] /\ survivors'[j] = survivors[j]
        /\ pc'[t] = "commit" /\ key'[t] = k /\ value'[t] = v
        /\ \A u \in Tasks \ {t} : /\ pc'[u] = pc[u] /\ key'[u] = key[u]
                                  /\ value'[u] = value[u]
        /\ latest' = {u \in latest : key[u] # k} \union {t}
    BY <1>2 DEF NvsSet, GoTo, TypeOK, IsEntries
  <2>3. nvs'[RC] \in survivors'[RC] /\ \A w \in survivors'[RC] : w = Absent \/ w \in Nat
    BY <2>2, KeysDiffer DEF WritesInv
  <2>4. \A u \in Tasks : key'[u] = RC => u = MainTask /\ u \in latest' /\ value'[u] \in Nat
    BY <2>2, StoreAssumption DEF WritesInv
  <2>5. /\ \A u \in Tasks : pc'[u] \in Writing => key'[u] \in Stored
        /\ \A u \in Tasks : pc'[u] \in {"assign", "return"} => value'[u] \in Nat
        /\ pc'[MainTask] \in Opening => m_isOpen'
    BY <2>2, StoreAssumption DEF WritesInv, Opening
  <2>6. ASSUME NEW u \in latest'
        PROVE  /\ pc'[u] \in Writing /\ nvs'[key'[u]] = value'[u]
               /\ pc'[u] = "committed" => survivors'[key'[u]] = {value'[u]}
    <3>1. CASE u = t
      BY <2>2, <3>1 DEF Writing
    <3>2. CASE u # t
      <4>1. u \in Tasks /\ u \in latest /\ key[u] # k
        BY <2>2, <2>6, <3>2 DEF TypeOK
      <4>2. key[u] \in Stored
        BY <4>1 DEF WritesInv
      <4>3. QED BY <2>2, <3>2, <4>1, <4>2 DEF WritesInv
    <3>3. QED BY <3>1, <3>2
  <2>7. WritesInv'
    BY <2>3, <2>4, <2>5, <2>6 DEF WritesInv
  <2>8. QED BY <2>1, <2>7
<1>3. QED BY <1>1, <1>2

(* A write of an application property does not touch the counter. *)
LEMMA WriteElsewhere ==
  ASSUME IInv, NEW t \in Tasks, NEW k \in Keys, NEW v \in Int, pc[t] = "idle",
         NvsSet(t, k, v) \/ SetFails(t),
         UNCHANGED <<m_restartCounter, counted, lastCounted, overwritten>>
  PROVE  CounterInv' /\ nvs'[RC] = nvs[RC]
<1>1. CASE SetFails(t)
  <2>1. UNCHANGED <<nvs, survivors, acked>> /\ Leave(t)
    BY <1>1 DEF SetFails, flash
  <2>2. /\ pc'[t] = "idle" /\ key'[t] = "none"
        /\ \A u \in Tasks \ {t} : /\ pc'[u] = pc[u] /\ key'[u] = key[u]
                                  /\ value'[u] = value[u]
    BY <2>1 DEF Leave, GoTo, IInv, TypeOK
  <2>3. QED BY <2>1, <2>2, KeysDiffer, StoreAssumption DEF IInv, CounterInv, NotBelow
<1>2. CASE NvsSet(t, k, v)
  <2>1. /\ nvs'[RC] = nvs[RC] /\ survivors'[RC] = survivors[RC] /\ acked'[RC] = acked[RC]
        /\ pc'[t] = "commit" /\ key'[t] = k
        /\ \A u \in Tasks \ {t} : /\ pc'[u] = pc[u] /\ key'[u] = key[u]
                                  /\ value'[u] = value[u]
    BY <1>2, KeysDiffer DEF NvsSet, GoTo, IInv, TypeOK, IsEntries
  <2>2. QED BY <2>1, KeysDiffer, StoreAssumption DEF IInv, CounterInv, NotBelow
<1>3. QED BY <1>1, <1>2

(* A commit makes what is set the only survivor. *)
LEMMA CommitKeeps ==
  ASSUME TypeOK, WritesInv, NvsCommit, nvs' = nvs
  PROVE  /\ DOMAIN survivors' = Stored
         /\ \A j \in Stored : survivors'[j] = {nvs[j]}
         /\ \A j \in Stored : \A w \in survivors'[j] : w \in Int \/ w = Absent
         /\ nvs'[RC] \in survivors'[RC] /\ survivors'[RC] \subseteq survivors[RC]
BY KeysDiffer DEF NvsCommit, TypeOK, IsEntries, WritesInv

-----------------------------------------------------------------------------
LEMMA InitInv == Init => IInv
<1> SUFFICES ASSUME Init PROVE IInv
  OBVIOUS
<1>1. TypeOK
  <2>1. IsEntries(nvs) /\ IsEntries(acked) /\ DOMAIN survivors = Stored
    BY DEF Init, IsEntries
  <2>2. \A k \in Stored : \A v \in survivors[k] : v \in Int \/ v = Absent
    BY DEF Init
  <2>3. DOMAIN document = {}
    BY DEF Init, NoDocument
  <2>4. boots \in 1..MaxBoots
    BY StoreAssumption DEF Init
  <2>5. /\ pc \in [Tasks -> Lines] /\ key \in [Tasks -> Stored \union {"none"}]
        /\ value \in [Tasks -> Int]
    BY DEF Init, AtIdle, NoKey, NoValue, Lines
  <2>6. QED BY <2>1, <2>2, <2>3, <2>4, <2>5 DEF Init, TypeOK
<1>2. AckedSurvives
  BY DEF Init, AckedSurvives
<1>3. WritesInv
  BY KeysDiffer, StoreAssumption
  DEF Init, WritesInv, AtIdle, NoKey, NoValue, Writing, Opening
<1>4. CounterInv
  BY KeysDiffer, StoreAssumption
  DEF Init, CounterInv, NotBelow, AtIdle, NoKey, NoValue
<1>5. QED BY <1>1, <1>2, <1>3, <1>4 DEF IInv

(* ConfigProperty::setValue *)
LEMMA SetValueInv ==
  ASSUME IInv, NEW t \in Tasks, NEW k \in Keys, NEW v \in Inputs[k], SetValue(t, k, v)
  PROVE  IInv' /\ nvs'[RC] = nvs[RC]
<1>1. k \in Stored /\ k # RC /\ Constrain(k, v) \in Int
  BY StoreAssumption, KeysDiffer, ConstrainInt
<1>2. /\ NvsSet(t, k, Constrain(k, v)) \/ SetFails(t)
      /\ UNCHANGED <<manager, m_properties, configured, document, boots, counting>>
      /\ typed' = typed \union {k} /\ pc[t] = "idle"
  BY DEF SetValue, Write, Ready
<1>3. TypeOK /\ AckedSurvives /\ WritesInv
  BY DEF IInv
<1>4. TypeOK'
  BY <1>1, <1>2, <1>3, WriteTypes DEF TypeOK, manager, counting
<1>5. AckedSurvives' /\ WritesInv'
  BY <1>1, <1>2, <1>3, WriteKeeps DEF manager, Writing
<1>6. CounterInv' /\ nvs'[RC] = nvs[RC]
  BY <1>1, <1>2, WriteElsewhere DEF manager, counting
<1>7. QED BY <1>4, <1>5, <1>6 DEF IInv

(* ConfigManager::fromJson, one property *)
LEMMA FromJsonInv ==
  ASSUME IInv, NEW k \in Keys, FromJson(k)
  PROVE  IInv' /\ nvs'[RC] = nvs[RC]
<1>0. TypeOK /\ AckedSurvives /\ WritesInv /\ HttpTask \in Tasks
  BY StoreAssumption DEF IInv
<1>1. k \in Stored /\ k # RC /\ document[k] \in Int /\ k \in DOMAIN document
  BY <1>0, StoreAssumption, KeysDiffer DEF FromJson, TypeOK
<1> DEFINE v == Constrain(k, document[k])
<1>2. v \in Int
  BY <1>1, ConstrainInt
<1>3. /\ NvsSet(HttpTask, k, v) \/ SetFails(HttpTask)
      /\ UNCHANGED <<manager, properties, boots, counting>>
      /\ document' = [j \in DOMAIN document \ {k} |-> document[j]]
      /\ pc[HttpTask] = "idle"
  BY DEF FromJson, Write
<1> HIDE DEF v
<1>4. TypeOK'
  <2>1. /\ IsEntries(nvs)' /\ IsEntries(acked)'
        /\ DOMAIN survivors' = Stored
        /\ \A j \in Stored : \A w \in survivors'[j] : w \in Int \/ w = Absent
        /\ pc' \in [Tasks -> Lines] /\ key' \in [Tasks -> Stored \union {"none"}]
        /\ value' \in [Tasks -> Int]
        /\ latest' \subseteq Tasks /\ incremented' \in BOOLEAN
    BY <1>0, <1>1, <1>2, <1>3, WriteTypes
  <2>2. /\ DOMAIN document' \subseteq Keys
        /\ \A j \in DOMAIN document' : document'[j] \in Inputs[j]
    BY <1>0, <1>3 DEF TypeOK
  <2>3. QED BY <1>0, <1>3, <2>1, <2>2 DEF TypeOK, manager, properties, counting
<1>5. AckedSurvives' /\ WritesInv'
  BY <1>0, <1>1, <1>2, <1>3, WriteKeeps DEF manager, Writing
<1>6. CounterInv' /\ nvs'[RC] = nvs[RC]
  BY <1>0, <1>1, <1>2, <1>3, WriteElsewhere DEF manager, counting
<1>7. QED BY <1>4, <1>5, <1>6 DEF IInv

(* Leaving a call only takes its task from the writers. *)
LEMMA LeaveKeeps ==
  ASSUME IInv, NEW t \in Tasks, Leave(t),
         UNCHANGED <<nvs, survivors, m_isOpen>>
  PROVE  /\ WritesInv'
         /\ pc' \in [Tasks -> Lines] /\ key' \in [Tasks -> Stored \union {"none"}]
         /\ value' \in [Tasks -> Int] /\ latest' \subseteq Tasks
         /\ pc'[t] = "idle" /\ key'[t] = "none"
         /\ \A u \in Tasks \ {t} : /\ pc'[u] = pc[u] /\ key'[u] = key[u]
                                   /\ value'[u] = value[u]
<1>1. /\ pc' \in [Tasks -> Lines] /\ key' \in [Tasks -> Stored \union {"none"}]
      /\ value' \in [Tasks -> Int] /\ latest' \subseteq Tasks
  BY DEF Leave, GoTo, IInv, TypeOK, Lines
<1>2. /\ pc'[t] = "idle" /\ key'[t] = "none" /\ value'[t] = 0
      /\ \A u \in Tasks \ {t} : /\ pc'[u] = pc[u] /\ key'[u] = key[u]
                                /\ value'[u] = value[u]
      /\ latest' = latest \ {t}
  BY DEF Leave, GoTo, IInv, TypeOK
<1>3. WritesInv'
  <2>1. \A u \in latest' : u # t /\ u \in latest /\ u \in Tasks
    BY <1>2 DEF IInv, TypeOK
  <2>2. \A u \in Tasks : key'[u] = RC => u = MainTask /\ u \in latest' /\ value'[u] \in Nat
    BY <1>2, KeysDiffer DEF IInv, WritesInv
  <2>3. QED
    BY <1>2, <2>1, <2>2, KeysDiffer DEF IInv, WritesInv, Writing, Opening
<1>4. QED BY <1>1, <1>2, <1>3

(* ConfigManager::autoCommit *)
LEMMA AutoCommitInv ==
  ASSUME IInv, NEW t \in Tasks, AutoCommit(t)
  PROVE  IInv' /\ nvs'[RC] = nvs[RC]
<1>0. /\ TypeOK /\ AckedSurvives /\ WritesInv /\ CounterInv /\ pc[t] = "commit"
      /\ UNCHANGED <<nvs, manager, properties, document, boots, acked, incremented, counting>>
  BY DEF IInv, AutoCommit
<1>1. CASE /\ NvsCommit /\ GoTo(t, "committed") /\ UNCHANGED <<key, value, latest>>
  <2>1. /\ DOMAIN survivors' = Stored
        /\ \A j \in Stored : survivors'[j] = {nvs[j]}
        /\ \A j \in Stored : \A w \in survivors'[j] : w \in Int \/ w = Absent
        /\ nvs'[RC] \in survivors'[RC] /\ survivors'[RC] \subseteq survivors[RC]
    BY <1>0, <1>1, CommitKeeps
  <2>2. /\ pc' \in [Tasks -> Lines] /\ pc'[t] = "committed"
        /\ \A u \in Tasks \ {t} : pc'[u] = pc[u]
    BY <1>0, <1>1 DEF GoTo, TypeOK, Lines
  <2>3. TypeOK'
    BY <1>0, <1>1, <2>1, <2>2 DEF TypeOK, IsEntries, manager, properties, counting
  <2>4. AckedSurvives'
    BY <1>0, <2>1 DEF AckedSurvives
  <2>5. WritesInv'
    <3>1. ASSUME NEW u \in latest'
          PROVE  /\ pc'[u] \in Writing /\ nvs'[key'[u]] = value'[u]
                 /\ pc'[u] = "committed" => survivors'[key'[u]] = {value'[u]}
      <4>1. u \in latest /\ u \in Tasks /\ key'[u] = key[u] /\ value'[u] = value[u]
        BY <1>0, <1>1, <3>1 DEF TypeOK
      <4>2. key[u] \in Stored /\ nvs[key[u]] = value[u] /\ pc[u] \in Writing
        BY <1>0, <4>1 DEF WritesInv
      <4>3. QED BY <1>0, <2>1, <2>2, <4>1, <4>2 DEF Writing
    <3>2. \A u \in Tasks : pc'[u] \in Writing => key'[u] \in Stored
      BY <1>0, <1>1, <2>2 DEF WritesInv, Writing
    <3>3. QED BY <1>0, <1>1, <2>1, <2>2, <3>1, <3>2, KeysDiffer DEF WritesInv, Opening, manager
  <2>6. CounterInv'
    BY <1>0, <1>1, <2>1, <2>2, KeysDiffer DEF CounterInv, NotBelow, manager, counting
  <2>7. QED BY <1>0, <2>3, <2>4, <2>5, <2>6 DEF IInv
<1>2. CASE GoTo(t, "uncommitted") /\ UNCHANGED <<survivors, key, value, latest>>
  <2>1. /\ pc' \in [Tasks -> Lines] /\ pc'[t] = "uncommitted"
        /\ \A u \in Tasks \ {t} : pc'[u] = pc[u]
    BY <1>0, <1>2 DEF GoTo, TypeOK, Lines
  <2>2. TypeOK'
    BY <1>0, <1>2, <2>1 DEF TypeOK, IsEntries, manager, properties, counting
  <2>3. AckedSurvives'
    BY <1>0, <1>2 DEF AckedSurvives
  <2>4. WritesInv'
    BY <1>0, <1>2, <2>1, KeysDiffer DEF WritesInv, Writing, Opening, manager, TypeOK
  <2>5. CounterInv'
    BY <1>0, <1>2, <2>1, KeysDiffer DEF CounterInv, NotBelow, manager, counting
  <2>6. QED BY <1>0, <2>2, <2>3, <2>4, <2>5 DEF IInv
<1>3. CASE Leave(t) /\ UNCHANGED survivors
  <2>1. /\ WritesInv'
        /\ pc' \in [Tasks -> Lines] /\ key' \in [Tasks -> Stored \union {"none"}]
        /\ value' \in [Tasks -> Int] /\ latest' \subseteq Tasks
        /\ pc'[t] = "idle" /\ key'[t] = "none"
        /\ \A u \in Tasks \ {t} : /\ pc'[u] = pc[u] /\ key'[u] = key[u]
                                  /\ value'[u] = value[u]
    BY <1>0, <1>3, LeaveKeeps DEF manager
  <2>2. TypeOK'
    BY <1>0, <1>3, <2>1 DEF TypeOK, IsEntries, manager, properties, counting
  <2>3. AckedSurvives'
    BY <1>0, <1>3 DEF AckedSurvives
  <2>4. CounterInv'
    BY <1>0, <1>3, <2>1, KeysDiffer, StoreAssumption
    DEF CounterInv, NotBelow, manager, counting
  <2>5. QED BY <1>0, <2>1, <2>2, <2>3, <2>4 DEF IInv
<1>4. QED BY <1>1, <1>2, <1>3 DEF AutoCommit

(* setValue returns true: what it stored last is the only survivor. *)
LEMMA FinishInv ==
  ASSUME IInv, NEW t \in Tasks, Finish(t)
  PROVE  /\ IInv' /\ nvs' = nvs
         /\ \A k \in Stored : acked'[k] \in {acked[k], nvs[k]}
<1>0. /\ TypeOK /\ AckedSurvives /\ WritesInv /\ CounterInv
      /\ pc[t] \in {"committed", "uncommitted"} /\ key[t] \in Stored
      /\ UNCHANGED <<nvs, survivors, m_isOpen, m_autoCommitEnabled, properties, document,
                     boots, incremented, lastCounted, overwritten>>
  BY DEF IInv, Finish, WritesInv, Writing, flash
<1>1. /\ WritesInv'
      /\ pc' \in [Tasks -> Lines] /\ key' \in [Tasks -> Stored \union {"none"}]
      /\ value' \in [Tasks -> Int] /\ latest' \subseteq Tasks
      /\ pc'[t] = "idle" /\ key'[t] = "none"
      /\ \A u \in Tasks \ {t} : /\ pc'[u] = pc[u] /\ key'[u] = key[u]
                                /\ value'[u] = value[u]
  BY <1>0, LeaveKeeps DEF Finish
<1>2. /\ DOMAIN acked' = Stored
      /\ \A k \in Stored : \/ acked'[k] = acked[k]
                           \/ /\ acked'[k] = nvs[k] /\ survivors[k] = {nvs[k]}
                              /\ k = key[t]
  <2>1. CASE pc[t] = "committed" /\ t \in latest
    <3>1. nvs[key[t]] = value[t] /\ survivors[key[t]] = {value[t]}
      BY <1>0, <2>1 DEF WritesInv
    <3>2. acked' = [acked EXCEPT ![key[t]] = value[t]]
      BY <2>1 DEF Finish
    <3>3. QED BY <1>0, <3>1, <3>2 DEF TypeOK, IsEntries
  <2>2. CASE ~(pc[t] = "committed" /\ t \in latest)
    BY <1>0, <2>2 DEF Finish, TypeOK, IsEntries
  <2>3. QED BY <2>1, <2>2
<1>3. AckedSurvives'
  BY <1>0, <1>2 DEF AckedSurvives
<1>4. /\ m_restartCounter' \in Nat /\ counted' \in Nat
  <2>1. key[t] = RC => value[t] \in Nat
    BY <1>0 DEF WritesInv
  <2>2. QED BY <1>0, <2>1 DEF Finish, TypeOK, RC
<1>5. TypeOK'
  <2>1. IsEntries(acked)'
    BY <1>0, <1>2 DEF TypeOK, IsEntries
  <2>2. QED BY <1>0, <1>1, <1>4, <2>1 DEF TypeOK, IsEntries, properties
<1>6. CounterInv'
  <2>1. CASE key[t] # RC
    <3>1. UNCHANGED <<m_restartCounter, counted>> /\ acked'[RC] = acked[RC]
      BY <1>2, <2>1, KeysDiffer DEF Finish, RC
    <3>2. QED BY <1>0, <1>1, <2>1, <3>1, KeysDiffer, StoreAssumption DEF CounterInv, NotBelow
  <2>2. CASE key[t] = RC
    <3>1. /\ t = MainTask /\ t \in latest /\ m_restartCounter' = value[t]
          /\ counted' = IF pc[t] = "committed" THEN value[t] ELSE counted
      BY <1>0, <2>2 DEF WritesInv, Finish, RC
    <3>2. pc[t] = "committed" => acked'[RC] = value[t]
      BY <1>0, <2>2, <3>1, KeysDiffer DEF Finish, TypeOK, IsEntries
    <3>3. value[t] \in Nat /\ lastCounted \in Nat
      BY <1>0, <2>2 DEF WritesInv, TypeOK
    <3>4. QED
      BY <1>0, <1>1, <2>2, <3>1, <3>2, <3>3, KeysDiffer, StoreAssumption
      DEF CounterInv, NotBelow
  <2>3. QED BY <2>1, <2>2
<1>7. QED BY <1>0, <1>1, <1>2, <1>3, <1>5, <1>6 DEF IInv

(* The steps of open and getRestartCounter that only move on: one task's     *)
(* line changes, and perhaps its local and m_restartCounter.                 *)
LEMMA StepKeeps ==
  ASSUME IInv, NEW t \in Tasks, pc[t] \notin Writing,
         NEW line \in Lines \ Writing, GoTo(t, line),
         \A u \in Tasks \ {t} : value'[u] = value[u],
         value' \in [Tasks -> Int],
         line \in {"assign", "return"} => value'[t] \in Nat,
         t = MainTask /\ line \in Opening => m_isOpen',
         m_isOpen' \in BOOLEAN, m_isOpen => m_isOpen', m_restartCounter' \in Nat,
         overwritten' \in BOOLEAN,
         UNCHANGED <<flash, m_autoCommitEnabled, properties, key, document, boots, acked,
                     latest, incremented, counted, lastCounted>>
  PROVE  /\ TypeOK' /\ AckedSurvives' /\ WritesInv'
         /\ pc'[t] = line /\ \A u \in Tasks \ {t} : pc'[u] = pc[u]
<1>0. TypeOK /\ AckedSurvives /\ WritesInv /\ t \notin latest /\ key[t] # RC
  BY NotLatest DEF IInv
<1>1. /\ pc' \in [Tasks -> Lines] /\ pc'[t] = line
      /\ \A u \in Tasks \ {t} : pc'[u] = pc[u]
  BY <1>0 DEF GoTo, TypeOK
<1>2. TypeOK'
  BY <1>0, <1>1 DEF TypeOK, IsEntries, flash, properties
<1>3. AckedSurvives'
  BY <1>0 DEF AckedSurvives, flash
<1>4. WritesInv'
  <2>1. \A u \in latest' : u # t /\ u \in latest /\ u \in Tasks
    BY <1>0 DEF TypeOK
  <2>2. /\ nvs' = nvs /\ survivors' = survivors /\ key' = key /\ latest' = latest
    BY DEF flash
  <2>3. QED
    BY <1>0, <1>1, <2>1, <2>2, KeysDiffer DEF WritesInv, Opening
<1>5. QED BY <1>1, <1>2, <1>3, <1>4

LEMMA OpenNvsInv ==
  ASSUME IInv, OpenNvs
  PROVE  IInv' /\ nvs' = nvs
<1>0. TypeOK /\ CounterInv /\ MainTask \in Tasks /\ pc[MainTask] = "idle"
  BY KeysDiffer DEF IInv, OpenNvs, Ready
<1>1. /\ TypeOK' /\ AckedSurvives' /\ WritesInv'
      /\ pc'[MainTask] = "update" /\ \A u \in Tasks \ {MainTask} : pc'[u] = pc[u]
  BY <1>0, StepKeeps DEF OpenNvs, Lines, Writing, TypeOK, history, counting
<1>2. CounterInv'
  BY <1>0, <1>1 DEF OpenNvs, CounterInv, NotBelow, flash, history, counting
<1>3. QED BY <1>1, <1>2 DEF IInv, OpenNvs, flash

LEMMA UpdateRestartCounterInv ==
  ASSUME IInv, UpdateRestartCounter
  PROVE  IInv' /\ nvs' = nvs
<1>0. /\ TypeOK /\ CounterInv /\ WritesInv /\ MainTask \in Tasks
      /\ pc[MainTask] = "update" /\ m_isOpen
      /\ UNCHANGED <<flash, manager, properties, key, value, document, boots, history>>
  BY KeysDiffer DEF IInv, UpdateRestartCounter, WritesInv, Opening
<1> DEFINE line == IF m_restartCounter > 0 THEN "idle" ELSE "test"
<1>1. GoTo(MainTask, line) /\ line \in Lines \ Writing /\ line \notin {"assign", "return"}
  BY DEF UpdateRestartCounter, Lines, Writing
<1>2. /\ TypeOK' /\ AckedSurvives' /\ WritesInv'
      /\ pc'[MainTask] = line /\ \A u \in Tasks \ {MainTask} : pc'[u] = pc[u]
  BY <1>0, <1>1, StepKeeps DEF Writing, TypeOK, manager, history, counting
<1>3. CounterInv'
  <2>1. ~overwritten /\ line = "test" => counted = 0
    BY <1>0 DEF CounterInv, TypeOK
  <2>2. QED
    BY <1>0, <1>2, <2>1 DEF CounterInv, NotBelow, flash, manager, history, counting
<1>4. QED BY <1>0, <1>2, <1>3 DEF IInv, flash

LEMMA GetSystemInfoInv ==
  ASSUME IInv, GetSystemInfo
  PROVE  IInv' /\ nvs' = nvs
<1>0. /\ TypeOK /\ CounterInv /\ HttpTask \in Tasks /\ HttpTask # MainTask
      /\ pc[HttpTask] = "idle"
      /\ UNCHANGED <<flash, manager, properties, key, value, document, boots, history>>
  BY KeysDiffer DEF IInv, GetSystemInfo, Ready
<1>1. /\ TypeOK' /\ AckedSurvives' /\ WritesInv'
      /\ pc'[HttpTask] = "test" /\ \A u \in Tasks \ {HttpTask} : pc'[u] = pc[u]
  BY <1>0, StepKeeps DEF GetSystemInfo, Lines, Writing, TypeOK, manager, history, counting
<1>2. CounterInv'
  BY <1>0, <1>1, KeysDiffer
  DEF CounterInv, NotBelow, flash, manager, history, counting
<1>3. QED BY <1>0, <1>1, <1>2 DEF IInv, flash

LEMMA TestCounterInv ==
  ASSUME IInv, NEW t \in Tasks, TestCounter(t)
  PROVE  IInv' /\ nvs' = nvs
<1>0. /\ TypeOK /\ CounterInv /\ WritesInv /\ pc[t] = "test"
      /\ UNCHANGED <<flash, manager, properties, key, document, boots, history>>
  BY DEF IInv, TestCounter
<1>1. CASE m_restartCounter = 0 /\ GoTo(t, "read") /\ UNCHANGED value
  <2>1. /\ TypeOK' /\ AckedSurvives' /\ WritesInv'
        /\ pc'[t] = "read" /\ \A u \in Tasks \ {t} : pc'[u] = pc[u]
    BY <1>0, <1>1, StepKeeps
    DEF Lines, Writing, Opening, WritesInv, TypeOK, manager, history, counting
  <2>2. CounterInv'
    BY <1>0, <1>1, <2>1, KeysDiffer
    DEF CounterInv, NotBelow, flash, manager, history, counting
  <2>3. QED BY <1>0, <2>1, <2>2 DEF IInv, flash
<1>2. CASE /\ m_restartCounter # 0 /\ GoTo(t, "return")
           /\ value' = [value EXCEPT ![t] = m_restartCounter]
  <2>0. /\ value' \in [Tasks -> Int] /\ value'[t] = m_restartCounter
        /\ \A u \in Tasks \ {t} : value'[u] = value[u]
    BY <1>0, <1>2 DEF TypeOK
  <2>1. /\ TypeOK' /\ AckedSurvives' /\ WritesInv'
        /\ pc'[t] = "return" /\ \A u \in Tasks \ {t} : pc'[u] = pc[u]
    BY <1>0, <1>2, <2>0, StepKeeps
    DEF Lines, Writing, Opening, WritesInv, TypeOK, manager, history, counting
  <2>2. key[t] # RC
    BY <1>0, NotLatest DEF Writing
  <2>3. CounterInv'
    BY <1>0, <1>2, <2>0, <2>1, <2>2, KeysDiffer
    DEF CounterInv, NotBelow, flash, manager, history, counting
  <2>4. QED BY <1>0, <2>1, <2>3 DEF IInv, flash
<1>3. QED BY <1>1, <1>2 DEF TestCounter

(* The main task reads while the manager is open, so not below lastCounted;  *)
(* another task may find it closed and read 0.                               *)
LEMMA ReadCounterInv ==
  ASSUME IInv, NEW t \in Tasks, ReadCounter(t)
  PROVE  IInv' /\ nvs' = nvs
<1>0. /\ TypeOK /\ CounterInv /\ WritesInv /\ pc[t] = "read" /\ GoTo(t, "assign")
      /\ UNCHANGED <<flash, manager, properties, key, document, boots, history>>
      /\ value' = [value EXCEPT ![t] = StoredCounter]
  BY DEF IInv, ReadCounter
<1>1. StoredCounter \in Nat
  BY <1>0 DEF WritesInv, StoredCounter, RC
<1>2. ~overwritten => StoredCounter = 0 \/ StoredCounter >= lastCounted
  BY <1>0 DEF CounterInv, NotBelow, WritesInv, StoredCounter, RC
<1>3. ~overwritten /\ t = MainTask => StoredCounter >= lastCounted
  <2>1. t = MainTask => m_isOpen
    BY <1>0 DEF WritesInv, Opening
  <2>2. ~overwritten => NotBelow(nvs[RC], lastCounted)
    BY <1>0 DEF CounterInv, WritesInv
  <2>3. QED BY <1>0, <2>1, <2>2 DEF NotBelow, StoredCounter, RC, TypeOK
<1>4. /\ value' \in [Tasks -> Int] /\ value'[t] = StoredCounter
      /\ \A u \in Tasks \ {t} : value'[u] = value[u]
  BY <1>0, <1>1 DEF TypeOK
<1>5. /\ TypeOK' /\ AckedSurvives' /\ WritesInv'
      /\ pc'[t] = "assign" /\ \A u \in Tasks \ {t} : pc'[u] = pc[u]
  BY <1>0, <1>1, <1>4, StepKeeps
  DEF Lines, Writing, Opening, WritesInv, TypeOK, manager, history, counting
<1>6. key[t] # RC
  BY <1>0, NotLatest DEF Writing
<1>7. CounterInv'
  BY <1>0, <1>2, <1>3, <1>4, <1>5, <1>6, KeysDiffer
  DEF CounterInv, NotBelow, flash, manager, history, counting
<1>8. QED BY <1>0, <1>5, <1>7 DEF IInv, flash

(* Unless it overwrites a counter, the assignment fills an empty field or    *)
(* repeats what is there.                                                    *)
LEMMA AssignCounterInv ==
  ASSUME IInv, NEW t \in Tasks, AssignCounter(t)
  PROVE  IInv' /\ nvs' = nvs
<1>0. /\ TypeOK /\ CounterInv /\ WritesInv /\ pc[t] = "assign" /\ value[t] \in Nat
      /\ GoTo(t, "return") /\ m_restartCounter' = value[t]
      /\ overwritten' = (overwritten \/ m_restartCounter \notin {0, value[t]})
      /\ UNCHANGED <<flash, m_isOpen, m_autoCommitEnabled, properties, key, value, document,
                     boots, acked, latest, incremented, counted, lastCounted>>
  BY DEF IInv, AssignCounter, WritesInv
<1>1. overwritten' \in BOOLEAN
  BY <1>0 DEF TypeOK
<1>2. /\ TypeOK' /\ AckedSurvives' /\ WritesInv'
      /\ pc'[t] = "return" /\ \A u \in Tasks \ {t} : pc'[u] = pc[u]
  BY <1>0, <1>1, StepKeeps DEF Lines, Writing, Opening, WritesInv, TypeOK
<1>3. CounterInv'
  <2>1. SUFFICES ASSUME ~overwritten' PROVE CounterInv'
    BY DEF CounterInv
  <2>2. ~overwritten /\ (m_restartCounter = 0 \/ m_restartCounter = value[t])
    BY <1>0, <2>1
  <2>3. lastCounted \in Nat /\ m_restartCounter \in Nat /\ counted \in Nat
    BY <1>0 DEF TypeOK
  <2>4. /\ \A v \in survivors[RC] : NotBelow(v, lastCounted)
        /\ value[t] = 0 \/ value[t] >= lastCounted
        /\ \A u \in Tasks : pc[u] = "assign" => value[u] = 0 \/ value[u] >= lastCounted
        /\ pc[MainTask] \in {"assign", "return"} => value[MainTask] >= lastCounted
        /\ pc[MainTask] = "return" => m_restartCounter >= lastCounted
        /\ pc[MainTask] \in {"test", "read", "assign", "return"} => counted = 0
        /\ key[MainTask] = RC => counted = 0 /\ value[MainTask] > lastCounted
        /\ counted # 0 => /\ counted > lastCounted
                          /\ m_restartCounter = counted
                          /\ acked[RC] = counted
    BY <1>0, <2>2 DEF CounterInv
  <2>5. pc'[MainTask] = "return" => m_restartCounter' >= lastCounted
    BY <1>0, <1>2, <2>2, <2>3, <2>4, KeysDiffer
  <2>6. counted # 0 => m_restartCounter' = counted
    BY <1>0, <2>2, <2>3, <2>4
  <2>7. pc'[MainTask] \in {"assign", "return"} => value[MainTask] >= lastCounted
    BY <1>0, <1>2, <2>4, KeysDiffer
  <2>8. pc'[MainTask] \in {"test", "read", "assign", "return"} => counted = 0
    BY <1>0, <1>2, <2>4, KeysDiffer
  <2>9. \A u \in Tasks : pc'[u] = "assign" => value[u] = 0 \/ value[u] >= lastCounted
    BY <1>2, <2>4
  <2>10. QED
    BY <1>0, <2>4, <2>5, <2>6, <2>7, <2>8, <2>9 DEF CounterInv, flash
<1>4. QED BY <1>0, <1>2, <1>3 DEF IInv, flash

(* The main task stores the next count while this boot is not counted, or    *)
(* after a late assignment; other tasks store nothing.                       *)
LEMMA ReturnCounterInv ==
  ASSUME IInv, NEW t \in Tasks, ReturnCounter(t)
  PROVE  IInv' /\ (counted # 0 /\ ~overwritten => nvs'[RC] = nvs[RC])
<1>0. /\ TypeOK /\ AckedSurvives /\ CounterInv /\ WritesInv /\ pc[t] = "return"
      /\ value[t] \in Nat /\ pc[t] \notin Writing
      /\ UNCHANGED <<manager, properties, document, boots, counting>>
  BY DEF IInv, ReturnCounter, WritesInv, Writing
<1>1. CASE SetFails(t)
  <2>1. UNCHANGED <<nvs, survivors, acked, incremented, m_isOpen>> /\ Leave(t)
    BY <1>0, <1>1 DEF SetFails, flash, manager
  <2>2. /\ WritesInv'
        /\ pc' \in [Tasks -> Lines] /\ key' \in [Tasks -> Stored \union {"none"}]
        /\ value' \in [Tasks -> Int] /\ latest' \subseteq Tasks
        /\ pc'[t] = "idle" /\ key'[t] = "none"
        /\ \A u \in Tasks \ {t} : /\ pc'[u] = pc[u] /\ key'[u] = key[u]
                                  /\ value'[u] = value[u]
    BY <2>1, LeaveKeeps
  <2>3. TypeOK'
    BY <1>0, <2>1, <2>2 DEF TypeOK, IsEntries, manager, properties, counting
  <2>4. AckedSurvives'
    BY <1>0, <2>1 DEF AckedSurvives
  <2>5. CounterInv'
    BY <1>0, <2>1, <2>2, KeysDiffer DEF CounterInv, NotBelow, manager, counting
  <2>6. QED BY <2>1, <2>2, <2>3, <2>4, <2>5 DEF IInv
<1>2. ASSUME NEW n \in Returned(t), t = MainTask, NvsSet(t, RC, n + 1)
      PROVE  IInv' /\ (counted # 0 /\ ~overwritten => nvs'[RC] = nvs[RC])
  <2>1. n \in Nat /\ n + 1 \in Nat
    BY <1>0, <1>2 DEF Returned, TypeOK
  <2>2. ~overwritten => counted = 0 /\ n + 1 > lastCounted
    BY <1>0, <1>2, <2>1 DEF CounterInv, Returned, TypeOK
  <2>3. TypeOK'
    BY <1>0, <1>2, <2>1, KeysDiffer, WriteTypes DEF TypeOK, manager, properties, counting
  <2>4. AckedSurvives' /\ WritesInv'
    BY <1>0, <1>2, <2>1, KeysDiffer, WriteKeeps DEF manager
  <2>5. CounterInv'
    <3>1. /\ survivors'[RC] = survivors[RC] \union {n + 1}
          /\ pc'[t] = "commit" /\ value'[t] = n + 1
          /\ \A u \in Tasks \ {t} : /\ pc'[u] = pc[u] /\ key'[u] = key[u]
                                    /\ value'[u] = value[u]
      BY <1>0, <1>2, KeysDiffer DEF NvsSet, GoTo, TypeOK, IsEntries
    <3>2. n + 1 # Absent
      BY <2>1, StoreAssumption
    <3>3. lastCounted \in Nat
      BY <1>0 DEF TypeOK
    <3>4. ~overwritten => \A v \in survivors'[RC] : NotBelow(v, lastCounted)
      BY <1>0, <2>1, <2>2, <3>1, <3>2, <3>3 DEF CounterInv, NotBelow
    <3>5. QED
      BY <1>0, <1>2, <2>1, <2>2, <3>1, <3>3, <3>4, KeysDiffer
      DEF CounterInv, manager, counting
  <2>6. QED BY <2>2, <2>3, <2>4, <2>5 DEF IInv
<1>3. QED
  BY <1>1, <1>2 DEF ReturnCounter, Write, RC

(* ConfigManager::commit by the application *)
LEMMA CommitInv ==
  ASSUME IInv, NEW t \in Tasks, Commit(t)
  PROVE  IInv' /\ nvs' = nvs
<1>0. /\ TypeOK /\ AckedSurvives /\ CounterInv /\ WritesInv
      /\ NvsCommit /\ acked' = nvs
      /\ UNCHANGED <<nvs, manager, properties, locals, document, boots, latest, incremented,
                     counting>>
  BY DEF IInv, Commit
<1>1. /\ DOMAIN survivors' = Stored
      /\ \A j \in Stored : survivors'[j] = {nvs[j]}
      /\ \A j \in Stored : \A w \in survivors'[j] : w \in Int \/ w = Absent
      /\ nvs'[RC] \in survivors'[RC] /\ survivors'[RC] \subseteq survivors[RC]
  BY <1>0, CommitKeeps
<1>2. TypeOK'
  BY <1>0, <1>1 DEF TypeOK, IsEntries, manager, properties, locals, counting
<1>3. AckedSurvives'
  BY <1>0, <1>1 DEF AckedSurvives
<1>4. WritesInv'
  <2>1. \A u \in latest : key[u] \in Stored
    BY <1>0 DEF WritesInv, TypeOK
  <2>2. QED BY <1>0, <1>1, <2>1 DEF WritesInv, manager, locals
<1>5. CounterInv'
  <2>1. counted # 0 /\ ~overwritten => acked'[RC] = counted
    <3>1. counted # 0 /\ ~overwritten => acked[RC] = counted /\ counted # Absent
      BY <1>0, StoreAssumption DEF CounterInv, TypeOK
    <3>2. QED BY <1>0, <3>1, KeysDiffer DEF AckedSurvives
  <2>2. QED
    BY <1>0, <1>1, <2>1 DEF CounterInv, NotBelow, manager, locals, counting
<1>6. QED BY <1>0, <1>2, <1>3, <1>4, <1>5 DEF IInv

(* The steps that leave NVS, the locals and the counter alone. *)
LEMMA OtherInv ==
  ASSUME IInv,
         \/ Close \/ SetAutoCommitEnabled
         \/ \E k \in Keys : Property(k) \/ Configure(k)
         \/ \E D \in SUBSET Keys : PostConfig(D)
         \/ UNCHANGED vars
  PROVE  IInv' /\ UNCHANGED <<nvs, survivors, acked>>
<1>0. TypeOK /\ AckedSurvives /\ CounterInv /\ WritesInv
  BY DEF IInv
<1>1. /\ UNCHANGED <<flash, m_restartCounter, locals, boots, history>>
      /\ m_isOpen' \in BOOLEAN /\ m_autoCommitEnabled' \in BOOLEAN
      /\ m_isOpen' = m_isOpen \/ pc[MainTask] = "idle"
      /\ m_properties' \subseteq Keys /\ typed' \subseteq Keys /\ configured' \subseteq Keys
      /\ DOMAIN document' \subseteq Keys
      /\ \A k \in DOMAIN document' : document'[k] \in Inputs[k]
  <2>1. CASE Close \/ SetAutoCommitEnabled
    BY <1>0, <2>1 DEF Close, Ready, SetAutoCommitEnabled, TypeOK, properties
  <2>2. CASE \E k \in Keys : Property(k) \/ Configure(k)
    BY <1>0, <2>2 DEF Property, Configure, TypeOK, manager
  <2>3. ASSUME NEW D \in SUBSET Keys, PostConfig(D)
        PROVE  <1>1!:
    BY <1>0, <2>3 DEF PostConfig, TypeOK, manager, properties
  <2>4. CASE UNCHANGED vars
    BY <1>0, <2>4 DEF vars, TypeOK, manager, properties
  <2>5. QED BY <2>1, <2>2, <2>3, <2>4
<1>2. TypeOK'
  BY <1>0, <1>1 DEF TypeOK, IsEntries, flash, locals, history, counting
<1>3. AckedSurvives' /\ UNCHANGED <<nvs, survivors, acked>>
  BY <1>0, <1>1 DEF AckedSurvives, flash, history
<1>4. WritesInv'
  BY <1>0, <1>1 DEF WritesInv, Opening, flash, locals, history
<1>5. CounterInv'
  BY <1>0, <1>1 DEF CounterInv, NotBelow, flash, locals, history, counting
<1>6. QED BY <1>2, <1>3, <1>4, <1>5 DEF IInv

(* A restart finds a survivor of every key, so none below the last count. *)
LEMMA RestartInv ==
  ASSUME IInv, Restart
  PROVE  IInv' /\ counted' = 0 /\ acked' = acked /\ \A k \in Stored : nvs'[k] \in survivors[k]
<1>0. TypeOK /\ AckedSurvives /\ CounterInv /\ WritesInv
  BY DEF IInv
<1>1. /\ DOMAIN nvs' = Stored
      /\ \A k \in Stored : nvs'[k] \in survivors[k]
      /\ survivors' = [k \in Stored |-> {nvs'[k]}]
      /\ pc' = AtIdle /\ key' = NoKey /\ value' = NoValue /\ latest' = {}
      /\ m_restartCounter' = 0 /\ counted' = 0 /\ overwritten' = FALSE /\ acked' = acked
  BY DEF Restart
<1>2. TypeOK'
  <2>1. IsEntries(nvs)' /\ IsEntries(acked)' /\ DOMAIN survivors' = Stored
    BY <1>0, <1>1 DEF TypeOK, IsEntries
  <2>2. \A k \in Stored : \A v \in survivors'[k] : v \in Int \/ v = Absent
    BY <1>0, <1>1 DEF TypeOK
  <2>3. DOMAIN document' = {}
    BY DEF Restart, NoDocument
  <2>4. boots' \in 1..MaxBoots
    BY <1>0, StoreAssumption DEF Restart, TypeOK
  <2>5. /\ pc' \in [Tasks -> Lines] /\ key' \in [Tasks -> Stored \union {"none"}]
        /\ value' \in [Tasks -> Int]
    BY <1>1 DEF AtIdle, NoKey, NoValue, Lines
  <2>6. /\ m_isOpen' \in BOOLEAN /\ m_autoCommitEnabled' \in BOOLEAN /\ m_restartCounter' \in Nat
        /\ m_properties' \subseteq Keys /\ typed' \subseteq Keys /\ configured' \subseteq Keys
        /\ latest' \subseteq Tasks /\ incremented' \in BOOLEAN
        /\ counted' \in Nat /\ lastCounted' \in Nat /\ overwritten' \in BOOLEAN
    BY <1>0 DEF Restart, TypeOK
  <2>7. QED BY <2>1, <2>2, <2>3, <2>4, <2>5, <2>6 DEF TypeOK
<1>3. AckedSurvives'
  BY <1>0, <1>1 DEF AckedSurvives
<1>4. WritesInv'
  BY <1>0, <1>1, KeysDiffer DEF WritesInv, AtIdle, NoKey, NoValue, Writing, Opening
<1>5. CounterInv'
  <2>1. nvs'[RC] \in survivors[RC] /\ survivors'[RC] = {nvs'[RC]}
    BY <1>1, KeysDiffer
  <2>2. NotBelow(nvs'[RC], lastCounted')
    <3>1. CASE overwritten
      BY <1>0, <2>1, <3>1, StoreAssumption DEF Restart, NotBelow, WritesInv
    <3>2. CASE ~overwritten /\ counted = 0
      BY <1>0, <2>1, <3>2 DEF Restart, NotBelow, CounterInv
    <3>3. CASE ~overwritten /\ counted # 0
      <4>1. acked[RC] = counted /\ counted # Absent
        BY <1>0, <3>3, StoreAssumption DEF CounterInv, TypeOK
      <4>2. nvs'[RC] = counted /\ lastCounted' = counted
        BY <1>0, <2>1, <3>3, <4>1, KeysDiffer DEF AckedSurvives, Restart
      <4>3. QED BY <1>0, <4>1, <4>2 DEF NotBelow, TypeOK
    <3>4. QED BY <3>1, <3>2, <3>3
  <2>3. QED
    BY <1>1, <1>2, <2>1, <2>2, KeysDiffer DEF CounterInv, AtIdle, NoKey, NoValue, TypeOK
<1>6. QED BY <1>1, <1>2, <1>3, <1>4, <1>5 DEF IInv

-----------------------------------------------------------------------------
LEMMA NextInv ==
  ASSUME IInv, [Next]_vars
  PROVE  IInv' /\ (counted # 0 /\ counted' # 0 /\ ~overwritten => nvs'[RC] = nvs[RC])
<1>1. ASSUME NEW t \in Tasks,
             \/ \E k \in Keys : \E v \in Inputs[k] : SetValue(t, k, v)
             \/ AutoCommit(t) \/ Finish(t) \/ Commit(t)
      PROVE  IInv' /\ nvs'[RC] = nvs[RC]
  BY <1>1, SetValueInv, AutoCommitInv, FinishInv, CommitInv
<1>2. ASSUME NEW t \in Tasks, CounterStep(t)
      PROVE  IInv' /\ (counted # 0 /\ ~overwritten => nvs'[RC] = nvs[RC])
  BY <1>2, TestCounterInv, ReadCounterInv, AssignCounterInv, ReturnCounterInv
  DEF CounterStep
<1>3. CASE (\E k \in Keys : FromJson(k)) \/ OpenNvs \/ UpdateRestartCounter \/ GetSystemInfo
  BY <1>3, FromJsonInv, OpenNvsInv, UpdateRestartCounterInv, GetSystemInfoInv
<1>4. CASE Restart
  BY <1>4, RestartInv
<1>5. CASE \/ Close \/ SetAutoCommitEnabled
           \/ \E k \in Keys : Property(k) \/ Configure(k)
           \/ \E D \in SUBSET Keys : PostConfig(D)
           \/ UNCHANGED vars
  BY <1>5, OtherInv
<1>6. QED BY <1>1, <1>2, <1>3, <1>4, <1>5 DEF Next

(* The inductive invariant holds in every reachable state. *)
THEOREM StoreInvariance == Spec => []IInv
<1>1. Init => IInv
  BY InitInv
<1>2. IInv /\ [Next]_vars => IInv'
  BY NextInv
<1>3. QED BY <1>1, <1>2, PTL DEF Spec

(* Type correctness of the manager's fields, of the tasks' locals and of NVS. *)
THEOREM StoreTypeCorrect == Spec => []TypeOK
<1>1. IInv => TypeOK
  BY DEF IInv
<1>2. QED BY <1>1, StoreInvariance, PTL

(* What setValue or commit has reported as stored survives every restart,    *)
(* unless it is overwritten, whatever the other tasks do.                    *)
THEOREM ReportedValuesSurvive == Spec => []AckedSurvives
<1>1. IInv => AckedSurvives
  BY DEF IInv
<1>2. QED BY <1>1, StoreInvariance, PTL

(* Unless a late reader has overwritten it, a counted boot keeps reporting   *)
(* its count, which is above that of the last counted boot.                  *)
THEOREM CounterIncreases == Spec => []CounterGrows
<1>1. IInv => CounterGrows
  BY DEF IInv, CounterInv, CounterGrows
<1>2. QED BY <1>1, StoreInvariance, PTL

(* Unless a late reader has overwritten the counter, a boot is counted once, *)
(* whatever closes and opens the manager afterwards.                         *)
THEOREM BootCountedOnce == Spec => CountedOnce
<1>1. IInv /\ [Next]_vars
        => [counted # 0 /\ counted' # 0 /\ ~overwritten
              => nvs'[RESTART_COUNTER_KEY] = nvs[RESTART_COUNTER_KEY]]_vars
  BY NextInv DEF RC
<1>2. QED BY <1>1, StoreInvariance, PTL DEF Spec, CountedOnce

-----------------------------------------------------------------------------
(* What setValue's length check leaves: no string NVS holds, or may find     *)
(* after a restart, is longer than MAXIMUM_CONFIG_VALUE_LENGTH.              *)
ShortStrings ==
  \A k \in StringKeys :
    \A v \in survivors[k] \union {nvs[k]} : v = Absent \/ v <= MAXIMUM_CONFIG_VALUE_LENGTH

(* A write adds at most a string that setValue accepts. *)
LEMMA WriteShort ==
  ASSUME TypeOK, ShortStrings, NEW t \in Tasks, NEW k \in Stored, NEW v,
         Write(t, k, v), v \in Int
  PROVE  ShortStrings'
<1>1. CASE SetFails(t)
  BY <1>1 DEF SetFails, flash, ShortStrings
<1>2. CASE ~Refused(k, v) /\ NvsSet(t, k, v)
  <2>1. k \in StringKeys => v <= MAXIMUM_CONFIG_VALUE_LENGTH
    BY <1>2 DEF Refused, MAXIMUM_CONFIG_VALUE_LENGTH
  <2>2. SUFFICES ASSUME NEW j \in StringKeys, NEW w \in survivors'[j] \union {nvs'[j]}
                 PROVE  w = Absent \/ w <= MAXIMUM_CONFIG_VALUE_LENGTH
    BY DEF ShortStrings
  <2>3. j \in Stored
    BY StoreAssumption DEF Stored
  <2>4. (j = k /\ w = v) \/ w \in survivors[j] \union {nvs[j]}
    BY <1>2, <2>2, <2>3 DEF NvsSet, TypeOK, IsEntries
  <2>5. QED BY <2>1, <2>4 DEF ShortStrings
<1>3. QED BY <1>1, <1>2 DEF Write

(* Every step writes one key through setValue, leaves NVS alone, commits or  *)
(* restarts.                                                                 *)
LEMMA StepKinds ==
  ASSUME IInv, [Next]_vars
  PROVE  \/ \E t \in Tasks, k \in Stored, v \in Int : Write(t, k, v)
         \/ /\ UNCHANGED nvs
            /\ survivors' = survivors \/ survivors' = [k \in Stored |-> {nvs[k]}]
            /\ \A k \in Stored : acked'[k] \in {acked[k], nvs[k]}
         \/ Restart
<1> DEFINE Goal == \/ \E t \in Tasks, k \in Stored, v \in Int : Write(t, k, v)
                   \/ /\ UNCHANGED nvs
                      /\ survivors' = survivors \/ survivors' = [k \in Stored |-> {nvs[k]}]
                      /\ \A k \in Stored : acked'[k] \in {acked[k], nvs[k]}
                   \/ Restart
<1> USE KeysDiffer
<1>0. TypeOK
  BY DEF IInv
<1>1. ASSUME NEW t \in Tasks, NEW k \in Keys, NEW v \in Inputs[k], SetValue(t, k, v)
      PROVE  Goal
  <2>1. Constrain(k, v) \in Int
    BY StoreAssumption, ConstrainInt
  <2>2. QED BY <1>1, <2>1 DEF SetValue
<1>2. ASSUME NEW k \in Keys, FromJson(k)
      PROVE  Goal
  <2>1. Constrain(k, document[k]) \in Int
    BY <1>0, <1>2, StoreAssumption, ConstrainInt DEF FromJson, TypeOK
  <2>2. Write(HttpTask, k, Constrain(k, document[k]))
    BY <1>2 DEF FromJson, Write
  <2>3. QED BY <2>1, <2>2
<1>3. ASSUME NEW t \in Tasks, ReturnCounter(t)
      PROVE  Goal
  <2>1. PICK n \in Returned(t) : Write(t, RC, n + 1) \/ SetFails(t)
    BY <1>3 DEF ReturnCounter, RC
  <2>2. n + 1 \in Int
    BY <1>0 DEF Returned, TypeOK
  <2>3. Write(t, RC, n + 1)
    BY <2>1 DEF Write
  <2>4. QED BY <2>2, <2>3
<1>4. ASSUME NEW t \in Tasks, AutoCommit(t) \/ Commit(t)
      PROVE  Goal
  BY <1>4 DEF AutoCommit, Commit, NvsCommit
<1>5. ASSUME NEW t \in Tasks, Finish(t)
      PROVE  Goal
  BY <1>5, FinishInv DEF Finish, flash
<1>6. ASSUME NEW t \in Tasks, TestCounter(t) \/ ReadCounter(t) \/ AssignCounter(t)
      PROVE  Goal
  BY <1>6 DEF TestCounter, ReadCounter, AssignCounter, flash, history
<1>7. ASSUME OpenNvs \/ UpdateRestartCounter \/ GetSystemInfo
      PROVE  Goal
  BY <1>7 DEF OpenNvs, UpdateRestartCounter, GetSystemInfo, flash, history
<1>8. ASSUME \/ Close \/ SetAutoCommitEnabled
             \/ \E k \in Keys : Property(k) \/ Configure(k)
             \/ \E D \in SUBSET Keys : PostConfig(D)
             \/ UNCHANGED vars
      PROVE  Goal
  BY <1>8, OtherInv
<1> HIDE DEF Goal
<1>9. Goal \/ Restart
  BY <1>1, <1>2, <1>3, <1>4, <1>5, <1>6, <1>7, <1>8 DEF Next, CounterStep
<1>10. QED BY <1>9 DEF Goal

(* The strings stay short: setValue is the only writer of a property, the    *)
(* counter is no string, a commit and a restart choose among what is there.  *)
LEMMA NextShort ==
  ASSUME IInv, ShortStrings, [Next]_vars
  PROVE  ShortStrings'
<1>0. TypeOK /\ \A k \in StringKeys : k \in Stored
  BY StoreAssumption DEF IInv, Stored
<1>1. CASE \E t \in Tasks, k \in Stored, v \in Int : Write(t, k, v)
  BY <1>0, <1>1, WriteShort
<1>2. CASE nvs' = nvs /\ (survivors' = survivors \/ survivors' = [k \in Stored |-> {nvs[k]}])
  BY <1>0, <1>2 DEF ShortStrings
<1>3. CASE Restart
  BY <1>0, <1>3 DEF Restart, ShortStrings
<1>4. QED BY <1>1, <1>2, <1>3, StepKinds

(* Every value reported as stored is what getValue returns, except strings   *)
(* of 63 and 64 characters: ReadsBack fails there and nowhere else.          *)
THEOREM OnlyTheGapIsLost == Spec => []ReadsBackOutsideGap
<1>1. Init => ShortStrings
  BY StoreAssumption DEF Init, ShortStrings, Stored
<1>2. IInv /\ ShortStrings /\ [Next]_vars => ShortStrings'
  BY NextShort
<1>3. IInv /\ ShortStrings => ReadsBackOutsideGap
  <2> SUFFICES ASSUME IInv, ShortStrings, NEW k \in Keys, m_isOpen, acked[k] # Absent,
                      k \in StringKeys => acked[k] \notin {63, 64}
               PROVE  getValue(k) = acked[k]
    BY DEF ReadsBackOutsideGap
  <2>1. k \in Stored /\ nvs[k] = acked[k] /\ nvs[k] \in Int
    BY DEF IInv, AckedSurvives, TypeOK, IsEntries, Stored
  <2>2. k \in StringKeys => nvs[k] <= 64 /\ nvs[k] # 63 /\ nvs[k] # 64
    BY <2>1 DEF ShortStrings, MAXIMUM_CONFIG_VALUE_LENGTH
  <2>3. k \in StringKeys => ~(nvs[k] + 1 >= 64)
    BY <2>1, <2>2
  <2>4. QED BY <2>1, <2>3 DEF getValue
<1>4. QED BY <1>1, <1>2, <1>3, StoreInvariance, PTL DEF Spec

-----------------------------------------------------------------------------
(* Every step of the manager is a step of the abstract store, or a stutter. *)
LEMMA StepRefines ==
  ASSUME IInv, [Next]_vars
  PROVE  [Durable!DurableNext]_<<nvs, acked>>
<1>0. TypeOK /\ AckedSurvives
  BY DEF IInv
<1>1. ASSUME NEW t \in Tasks, NEW k \in Stored, NEW v \in Int, Write(t, k, v)
      PROVE  [Durable!DurableNext]_<<nvs, acked>>
  <2>1. CASE SetFails(t)
    BY <2>1 DEF SetFails, flash
  <2>2. CASE NvsSet(t, k, v)
    <3>1. acked'[k] = Absent
      BY <1>0, <2>2 DEF NvsSet, TypeOK, IsEntries
    <3>2. \A other \in Stored \ {k} : nvs'[other] = nvs[other] /\ acked'[other] = acked[other]
      BY <1>0, <2>2 DEF NvsSet, TypeOK, IsEntries
    <3>3. Durable!WriteName(k)
      BY <3>1, <3>2 DEF Durable!WriteName, Durable!Kept
    <3>4. QED BY <3>3 DEF Durable!DurableNext
  <2>3. QED BY <1>1, <2>1, <2>2 DEF Write
<1>2. CASE UNCHANGED nvs /\ \A k \in Stored : acked'[k] \in {acked[k], nvs[k]}
  BY <1>2 DEF Durable!DurableNext, Durable!Sync
<1>3. CASE Restart
  <2>1. acked' = acked /\ \A k \in Stored : nvs'[k] \in survivors[k]
    BY <1>3 DEF Restart
  <2>2. Durable!Crash
    BY <1>0, <2>1 DEF Durable!Crash, AckedSurvives
  <2>3. QED BY <2>2 DEF Durable!DurableNext
<1>4. QED BY <1>1, <1>2, <1>3, StepKinds

(* The manager over NVS implements the durable store: whatever it does, a    *)
(* crash between two of its steps brings back what was reported as stored.   *)
THEOREM StoreIsDurable == Spec => ImplementsDurableStore
<1>1. Init => Durable!DurableInit
  BY DEF Init, Durable!DurableInit
<1>2. IInv /\ [Next]_vars => [Durable!DurableNext]_<<nvs, acked>>
  BY StepRefines
<1>3. QED
  BY <1>1, <1>2, StoreInvariance, PTL
  DEF Spec, ImplementsDurableStore, Durable!DurableSpec
=============================================================================
