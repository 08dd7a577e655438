------------------------- MODULE HttpRequests_proofs -------------------------
(***************************************************************************)
(* For every buffer, heap and size of body and file: the types, what a     *)
(* request leaves behind and how often it is answered.                     *)
(***************************************************************************)
EXTENDS HttpRequests, TLAPS

(* The blocks a request holds at each place. *)
Accounts ==
  /\ place = "idle" /\ (kind = "file" \/ BrokeOff) => heap = heapBefore + 1
  /\ place = "idle" /\ ~(kind = "file" \/ BrokeOff) => heap = heapBefore
  /\ place \in {"build", "check"} => heap = heapBefore
  /\ place \in {"built", "receive", "handle", "open", "opened", "close"} => heap = heapBefore + 1
  /\ place \in {"accepted", "refused", "read", "send"} => heap = heapBefore + 2

(* What a place says of the request. *)
Here ==
  /\ place \in {"build", "built"} => kind = "get"
  /\ place \in {"check", "receive", "handle", "accepted", "refused"} => kind = "post"
  /\ place \in {"open", "opened", "read", "send", "close"} => kind = "file"
  /\ place \in {"handle", "accepted", "refused"} => progress = size
  /\ place = "receive" => size < READ_BUFFER_SIZE
  /\ place \in {"check", "open", "opened"} => progress = 0
  /\ place = "send" => progress < size
  /\ place \notin {"idle", "close"} => failedChunks = 0

HttpInv ==
  /\ HttpTypeOK
  /\ Here
  /\ Accounts
  /\ m_fd = "open" => place \in {"opened", "read", "send", "close"}
  /\ AnsweredOnce

LEMMA InitInv == HttpInit => HttpInv
<1> SUFFICES ASSUME HttpInit PROVE HttpInv
  OBVIOUS
<1>1. /\ place = "idle" /\ kind = "none" /\ size = 0 /\ progress = 0 /\ heap = 0 /\ heapBefore = 0
      /\ m_fd = "closed" /\ answers = 0 /\ client = "here" /\ failedChunks = 0
  BY DEF HttpInit
<1>2. HttpTypeOK
  BY <1>1, HttpAssumption DEF HttpTypeOK
<1>3. Here /\ AnsweredOnce
  BY <1>1 DEF Here, AnsweredOnce
<1>4. Accounts
  BY <1>1 DEF Accounts, BrokeOff
<1>5. QED BY <1>1, <1>2, <1>3, <1>4 DEF HttpInv

(* A request comes: nothing of it is held but a FileResponseHandler. *)
LEMMA RequestInv ==
  ASSUME HttpInv, GetJson \/ PostJson \/ GetFile
  PROVE  HttpInv'
<1> USE HttpAssumption
<1>1. CASE GetJson
  <2>1. /\ place = "idle" /\ place' = "build" /\ kind' = "get" /\ size' = 0 /\ heapBefore' = heap
        /\ progress' = 0 /\ answers' = 0 /\ client' = "here" /\ failedChunks' = 0 /\ heap' = heap /\ m_fd' = m_fd
    BY <1>1 DEF GetJson, Request, From
  <2>2. QED BY <2>1 DEF HttpInv, HttpTypeOK, Here, Accounts, AnsweredOnce
<1>2. CASE PostJson
  <2>1. PICK n \in 0..MaxSize : Request("check", "post", n) /\ UNCHANGED <<heap, m_fd>>
    BY <1>2 DEF PostJson
  <2>2. /\ place = "idle" /\ place' = "check" /\ kind' = "post" /\ size' = n /\ heapBefore' = heap
        /\ progress' = 0 /\ answers' = 0 /\ client' = "here" /\ failedChunks' = 0 /\ heap' = heap /\ m_fd' = m_fd
    BY <2>1 DEF Request, From
  <2>3. QED BY <2>2 DEF HttpInv, HttpTypeOK, Here, Accounts, AnsweredOnce
<1>3. CASE GetFile
  <2>1. PICK n \in 0..MaxSize : Request("open", "file", n) /\ Allocate /\ UNCHANGED m_fd
    BY <1>3 DEF GetFile
  <2>2. /\ place = "idle" /\ place' = "open" /\ kind' = "file" /\ size' = n /\ heapBefore' = heap
        /\ progress' = 0 /\ answers' = 0 /\ client' = "here" /\ failedChunks' = 0 /\ m_fd' = m_fd
        /\ heap < HeapSize /\ heap' = heap + 1
    BY <2>1 DEF Request, From, Allocate, HasMemory
  <2>3. QED BY <2>2 DEF HttpInv, HttpTypeOK, Here, Accounts, AnsweredOnce
<1>4. QED BY <1>1, <1>2, <1>3

(* Steps on the way to an answer. *)
LEMMA MoveInv ==
  ASSUME HttpInv,
         \/ BuildJson \/ AllocateBuffer \/ Receive \/ Parse \/ Handle
         \/ OpenFile \/ AllocateFileBuffer \/ Read \/ ReadEnds \/ SendChunk \/ ClientLeaves
  PROVE  HttpInv'
<1> USE HttpAssumption DEF HttpInv, HttpTypeOK, Here, Accounts, AnsweredOnce, From, Allocate, HasMemory,
                           request
<1>1. CASE BuildJson \/ AllocateBuffer
  BY <1>1 DEF BuildJson, AllocateBuffer
<1>2. CASE Receive \/ Parse
  BY <1>2 DEF Receive, Parse
<1>3. CASE Handle
  BY <1>3 DEF Handle
<1>4. CASE OpenFile \/ AllocateFileBuffer
  BY <1>4 DEF OpenFile, AllocateFileBuffer
<1>5. CASE Read \/ ReadEnds
  BY <1>5 DEF Read, ReadEnds
<1>6. CASE SendChunk
  BY <1>6 DEF SendChunk
<1>7. CASE ClientLeaves
  BY <1>7 DEF ClientLeaves, BrokeOff
<1>8. QED BY <1>1, <1>2, <1>3, <1>4, <1>5, <1>6, <1>7

(* The ways a request ends. *)
LEMMA AnswerInv ==
  ASSUME HttpInv,
         \/ SendJson \/ NoJson \/ TooLong \/ ReceiveFails \/ ParseFails \/ HandleWithoutResponse
         \/ SendResult \/ NotFound \/ SendFails \/ CloseFile
  PROVE  HttpInv'
<1> USE HttpAssumption DEF HttpInv, HttpTypeOK, Here, Accounts, BrokeOff, AnsweredOnce, AnswerAndReturn,
                           From, HasMemory, request
<1>1. CASE SendJson \/ NoJson
  BY <1>1 DEF SendJson, NoJson
<1>2. CASE TooLong
  BY <1>2 DEF TooLong
<1>3. CASE ReceiveFails
  BY <1>3 DEF ReceiveFails
<1>4. CASE ParseFails \/ HandleWithoutResponse
  BY <1>4 DEF ParseFails, HandleWithoutResponse
<1>5. CASE SendResult
  BY <1>5 DEF SendResult
<1>6. CASE NotFound
  BY <1>6 DEF NotFound
<1>7. CASE SendFails
  BY <1>7 DEF SendFails
<1>8. CASE CloseFile
  BY <1>8 DEF CloseFile
<1>9. QED BY <1>1, <1>2, <1>3, <1>4, <1>5, <1>6, <1>7, <1>8

LEMMA HttpRestartInv ==
  ASSUME HttpRestart
  PROVE  HttpInv'
BY HttpAssumption
DEF HttpRestart, HttpInv, HttpTypeOK, Here, Accounts, BrokeOff, AnsweredOnce

LEMMA StepInv == HttpInv /\ [HttpNext]_httpVars => HttpInv'
<1> SUFFICES ASSUME HttpInv, [HttpNext]_httpVars PROVE HttpInv'
  OBVIOUS
<1>1. CASE HttpNext
  BY <1>1, RequestInv, MoveInv, AnswerInv, HttpRestartInv DEF HttpNext, Handler, OutOfMemory
<1>2. CASE UNCHANGED httpVars
  BY <1>2 DEF httpVars, request, HttpInv, HttpTypeOK, Here, Accounts, BrokeOff, AnsweredOnce
<1>3. QED BY <1>1, <1>2

LEMMA HttpInvariance == HttpSpec => []HttpInv
BY InitInv, StepInv, PTL DEF HttpSpec

(* jsonRequestHelper's buffer always has room for the terminating zero. *)
THEOREM HttpTypeCorrect == HttpSpec => []HttpTypeOK
<1>1. HttpInv => HttpTypeOK
  BY DEF HttpInv
<1>2. QED BY <1>1, HttpInvariance, PTL

(* No branch of a handler keeps more than the two known blocks or a file. *)
THEOREM HttpReturnsMemory == HttpSpec => []MemoryReturned
<1>1. HttpInv => MemoryReturned
  BY DEF HttpInv, HttpTypeOK, MemoryReturned, Accounts, BrokeOff
<1>2. QED BY <1>1, HttpInvariance, PTL

(* Each branch of a handler answers, and only a file that could not be sent  *)
(* is answered more than once.                                               *)
THEOREM HttpAnswersOnce == HttpSpec => []AnsweredOnce
<1>1. HttpInv => AnsweredOnce
  BY DEF HttpInv
<1>2. QED BY <1>1, HttpInvariance, PTL

(* From where to where a handler's step goes, and what is left of the body   *)
(* or file before and after it.                                              *)
Leads(here, there, left, more) ==
  \/ here # "idle" /\ there = "idle"
  \/ here = "build" /\ there = "built"
  \/ here = "handle" /\ there \in {"accepted", "refused"}
  \/ here = "receive" /\ there = "handle"
  \/ here = "read" /\ there = "close"
  \/ here = "send" /\ there = "close" /\ 0 < left
  \/ <<here, there>> \in {<<"check", "receive">>, <<"open", "opened">>, <<"opened", "read">>,
                         <<"read", "send">>} /\ more = left
  \/ <<here, there>> \in {<<"receive", "receive">>, <<"send", "read">>} /\ more < left

(* StepsFrom place by place. *)
LEMMA StepsAt ==
  ASSUME NEW left \in Nat
  PROVE  /\ StepsFrom("idle", left) = 0
         /\ \A here \in {"built", "accepted", "refused", "close"} : StepsFrom(here, left) = 1
         /\ \A here \in {"build", "handle"} : StepsFrom(here, left) = 2
         /\ StepsFrom("receive", left) = left + 3 /\ StepsFrom("check", left) = left + 4
         /\ StepsFrom("send", left) = 2 * left + 1 /\ StepsFrom("read", left) = 2 * left + 2
         /\ StepsFrom("opened", left) = 2 * left + 3 /\ StepsFrom("open", left) = 2 * left + 4
BY DEF StepsFrom

LEMMA LeadsDown ==
  ASSUME NEW here \in {"idle", "build", "built", "check", "receive", "handle", "accepted", "refused",
                       "open", "opened", "read", "send", "close"},
         NEW there, NEW left \in Nat, NEW more \in Nat, Leads(here, there, left, more)
  PROVE  StepsFrom(there, more) \in 0..(StepsFrom(here, left) - 1)
<1>1. CASE here # "idle" /\ there = "idle"
  BY <1>1, StepsAt
<1>2. CASE \/ here = "build" /\ there = "built"
           \/ here = "handle" /\ there \in {"accepted", "refused"}
  BY <1>2, StepsAt
<1>3. CASE here = "receive" /\ there = "handle"
  BY <1>3, StepsAt
<1>4. CASE here = "read" /\ there = "close"
  BY <1>4, StepsAt
<1>5. CASE here = "send" /\ there = "close" /\ 0 < left
  BY <1>5, StepsAt
<1>6. CASE <<here, there>> = <<"check", "receive">> /\ more = left
  BY <1>6, StepsAt
<1>7. CASE <<here, there>> \in {<<"open", "opened">>, <<"opened", "read">>} /\ more = left
  BY <1>7, StepsAt
<1>8. CASE <<here, there>> = <<"read", "send">> /\ more = left
  BY <1>8, StepsAt
<1>9. CASE <<here, there>> \in {<<"receive", "receive">>, <<"send", "read">>} /\ more < left
  BY <1>9, StepsAt
<1>10. QED BY <1>1, <1>2, <1>3, <1>4, <1>5, <1>6, <1>7, <1>8, <1>9 DEF Leads

(* The handler's branches one by one. *)
LEMMA HandlerLeads ==
  ASSUME HttpInv, Handler
  PROVE  Leads(place, place', size - progress, (size - progress)')
<1> USE DEF From, AnswerAndReturn, request, Leads
<1>1. /\ size \in Nat /\ progress \in Nat /\ progress <= size
  BY HttpAssumption DEF HttpInv, HttpTypeOK
<1>2. CASE SendJson \/ NoJson \/ TooLong \/ ReceiveFails \/ ParseFails \/ HandleWithoutResponse
           \/ SendResult \/ NotFound \/ CloseFile
  BY <1>2 DEF SendJson, NoJson, TooLong, ReceiveFails, ParseFails, HandleWithoutResponse, SendResult,
              NotFound, CloseFile
<1>3. CASE BuildJson \/ Handle \/ Parse \/ ReadEnds
  BY <1>3 DEF BuildJson, Handle, Parse, ReadEnds
<1>4. CASE AllocateBuffer \/ OpenFile \/ AllocateFileBuffer \/ Read
  BY <1>4 DEF AllocateBuffer, OpenFile, AllocateFileBuffer, Read
<1>5. CASE Receive
  <2>1. PICK received \in 1..(size - progress) : progress' = progress + received
    BY <1>5 DEF Receive
  <2>2. place = "receive" /\ place' = "receive" /\ size' = size
    BY <1>5 DEF Receive
  <2>3. size' - progress' < size - progress
    BY <1>1, <2>1, <2>2
  <2>4. QED BY <2>2, <2>3
<1>6. CASE SendChunk
  <2>1. place = "send" /\ place' = "read" /\ size' = size /\ progress' = progress + 1
    BY <1>6 DEF SendChunk
  <2>2. size' - progress' < size - progress
    BY <1>1, <2>1
  <2>3. QED BY <2>1, <2>2
<1>7. CASE SendFails
  <2>1. place = "send" /\ place' = "close"
    BY <1>7 DEF SendFails
  <2>2. 0 < size - progress
    BY <1>1, <2>1 DEF HttpInv, Here
  <2>3. QED BY <2>1, <2>2
<1>8. CASE OutOfMemory
  BY <1>8 DEF OutOfMemory, HttpRestart
<1>9. QED BY <1>2, <1>3, <1>4, <1>5, <1>6, <1>7, <1>8 DEF Handler

(* Every branch of a handler brings its return nearer: RequestEnds follows   *)
(* for any body and file as soon as the task is scheduled.                   *)
THEOREM HttpHandlerAdvances == HttpSpec => HandlerAdvances
<1>1. HttpInv /\ HttpInv' /\ Handler => StepsLeft' \in 0..(StepsLeft - 1)
  <2> SUFFICES ASSUME HttpInv, HttpInv', Handler PROVE StepsLeft' \in 0..(StepsLeft - 1)
    OBVIOUS
  <2>1. size - progress \in Nat
    BY HttpAssumption DEF HttpInv, HttpTypeOK
  <2>2. (size - progress)' \in Nat
    <3>1. (size \in Nat)' /\ (progress \in 0..size)'
      BY HttpAssumption DEF HttpInv, HttpTypeOK
    <3>2. PICK n, m : n = size' /\ m = progress'
      OBVIOUS
    <3>3. n \in Nat /\ m \in 0..n
      BY <3>1, <3>2
    <3>4. n - m \in Nat
      BY <3>3
    <3>5. QED BY <3>2, <3>4
  <2>3. Leads(place, place', size - progress, (size - progress)')
    BY HandlerLeads
  <2>4. StepsFrom(place', (size - progress)') \in 0..(StepsFrom(place, size - progress) - 1)
    BY <2>1, <2>2, <2>3, LeadsDown DEF HttpInv, HttpTypeOK
  <2>5. QED BY <2>4 DEF StepsLeft
<1>2. HttpInv /\ HttpInv' /\ [HttpNext]_httpVars
        => [Handler => StepsLeft' \in 0..(StepsLeft - 1)]_httpVars
  BY <1>1
<1>3. QED BY <1>2, HttpInvariance, PTL DEF HttpSpec, HandlerAdvances
=============================================================================
