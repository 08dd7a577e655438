----------------------------- MODULE HttpRequests -----------------------------
(***************************************************************************)
(* http/HttpModule.cpp and http/modules/FileSystem.cpp: what the task of   *)
(* esp_http_server does with one request after the other: a POST whose     *)
(* body is JSON (jsonRequestHelper), a GET answered with JSON              *)
(* (sendJsonResponse), a GET of a file (FileResponseHandler).              *)
(*                                                                         *)
(* Memory is counted in blocks: a read buffer, a cJSON tree, a             *)
(* FileResponseHandler is one each; bodies and files in units.             *)
(***************************************************************************)
EXTENDS Integers

CONSTANTS
  READ_BUFFER_SIZE,  \* of jsonRequestHelper
  MaxSize,           \* the largest body sent and file stored
  HeapSize           \* blocks there are

ASSUME HttpAssumption ==
  /\ READ_BUFFER_SIZE \in Nat \ {0}
  /\ MaxSize \in Nat
  /\ HeapSize \in Nat \ {0}

VARIABLES
  place,       \* where the task is
  kind,        \* of the request: post, get or file; none before the first
  size,        \* content_len, or the length of the file
  progress,    \* received or sent of it
  heap,        \* blocks in use
  m_fd,        \* of FileResponseHandler: open or closed
  answers,     \* history: calls that end a response, in this request
  heapBefore,  \* history: heap when the request came
  client,      \* of this request: here or lost
  failedChunks \* history: chunks of this request that could not be sent

request == <<kind, size, heapBefore>>
httpVars == <<place, request, progress, heap, m_fd, answers, client, failedChunks>>

HttpInit ==
  /\ place = "idle" /\ kind = "none" /\ size = 0 /\ progress = 0
  /\ heap = 0 /\ heapBefore = 0
  /\ m_fd = "closed" /\ answers = 0 /\ client = "here" /\ failedChunks = 0

HasMemory == heap < HeapSize
Allocate == HasMemory /\ heap' = heap + 1

From(here, there) == place = here /\ place' = there

Request(first, k, n) ==
  /\ From("idle", first)
  /\ kind' = k /\ size' = n /\ heapBefore' = heap
  /\ progress' = 0 /\ answers' = 0 /\ client' = "here" /\ failedChunks' = 0

(* A response is sent and the handler returns. *)
AnswerAndReturn(here) == From(here, "idle") /\ answers' = answers + 1

-----------------------------------------------------------------------------
(* sendJsonResponse frees what it sends; printing takes a block for a while, *)
(* without one it passes nullptr to httpd_resp_sendstr (OutOfMemory).        *)

GetJson ==
  /\ Request("build", "get", 0)
  /\ UNCHANGED <<heap, m_fd>>

BuildJson ==
  /\ From("build", "built") /\ Allocate
  /\ UNCHANGED <<request, progress, m_fd, answers, client, failedChunks>>

SendJson ==
  /\ AnswerAndReturn("built")
  /\ HasMemory /\ heap' = heap - 1
  /\ UNCHANGED <<request, progress, m_fd, client, failedChunks>>

NoJson ==
  /\ AnswerAndReturn("build")
  /\ ~HasMemory
  /\ UNCHANGED <<request, progress, heap, m_fd, client, failedChunks>>

-----------------------------------------------------------------------------
(* jsonRequestHelper *)

PostJson ==
  /\ \E n \in 0..MaxSize : Request("check", "post", n)
  /\ UNCHANGED <<heap, m_fd>>

TooLong ==
  /\ AnswerAndReturn("check")
  /\ size >= READ_BUFFER_SIZE
  /\ UNCHANGED <<request, progress, heap, m_fd, client, failedChunks>>

(* Mutant: no room for the terminating zero. *)
AllocateBufferExact ==
  /\ From("check", "receive")
  /\ size <= READ_BUFFER_SIZE
  /\ Allocate
  /\ UNCHANGED <<request, progress, m_fd, answers, client, failedChunks>>

AllocateBuffer ==
  /\ From("check", "receive")
  /\ size < READ_BUFFER_SIZE
  /\ Allocate
  /\ UNCHANGED <<request, progress, m_fd, answers, client, failedChunks>>

(* httpd_req_recv gives no more than what is left of the body. *)
Receive ==
  /\ From("receive", "receive") /\ progress < size
  /\ client = "here"
  /\ \E received \in 1..(size - progress) : progress' = progress + received
  /\ UNCHANGED <<request, heap, m_fd, answers, client, failedChunks>>

(* Mutant: only a negative result ends the loop, a closed connection gives 0. *)
ReceiveFailsNegativeOnly ==
  /\ AnswerAndReturn("receive") /\ progress < size
  /\ client = "here"
  /\ UNCHANGED <<request, progress, heap, m_fd, client, failedChunks>>

(* Mutant: a timeout begins the body anew. *)
ReceiveFailsRetries ==
  /\ From("receive", "receive") /\ progress < size
  /\ progress' = 0
  /\ UNCHANGED <<request, heap, m_fd, answers, client, failedChunks>>

(* a timeout, the client being there or not, an error, a closed connection:  *)
(* the buffer is not freed                                                   *)
ReceiveFails ==
  /\ AnswerAndReturn("receive") /\ progress < size
  /\ UNCHANGED <<request, progress, heap, m_fd, client, failedChunks>>

(* cJSON_Parse, then free(readBuffer) *)
Parse ==
  /\ From("receive", "handle") /\ progress = size
  /\ HasMemory
  /\ UNCHANGED <<request, progress, heap, m_fd, answers, client, failedChunks>>

ParseFails ==
  /\ AnswerAndReturn("receive") /\ progress = size
  /\ heap' = heap - 1
  /\ UNCHANGED <<request, progress, m_fd, client, failedChunks>>

(* jsonHandler made a response and returned true or false. *)
Handle ==
  /\ From("handle", "accepted") \/ From("handle", "refused")
  /\ Allocate
  /\ UNCHANGED <<request, progress, m_fd, answers, client, failedChunks>>

(* Mutant: the branch without a response keeps jsonRequestData. *)
HandleWithoutResponseKeeps ==
  /\ AnswerAndReturn("handle")
  /\ UNCHANGED <<request, progress, heap, m_fd, client, failedChunks>>

(* It made none: its own choice when it returns false, else out of memory.   *)
HandleWithoutResponse ==
  /\ AnswerAndReturn("handle")
  /\ heap' = heap - 1
  /\ UNCHANGED <<request, progress, m_fd, client, failedChunks>>

(* jsonRequestData is deleted before the response is sent when the request   *)
(* was accepted, after it when it was refused.                               *)
SendResult ==
  /\ \/ AnswerAndReturn("accepted")
     \/ AnswerAndReturn("refused") /\ HasMemory
  /\ heap' = heap - 2
  /\ UNCHANGED <<request, progress, m_fd, client, failedChunks>>

-----------------------------------------------------------------------------
(* FileResponseHandler *)

(* new FileResponseHandler, which nothing deletes *)
GetFile ==
  /\ \E n \in 0..MaxSize : Request("open", "file", n)
  /\ Allocate
  /\ UNCHANGED m_fd

(* Mutant: the branch without its return. *)
NotFoundContinues ==
  /\ From("open", "opened")
  /\ answers' = answers + 1
  /\ UNCHANGED <<request, progress, heap, m_fd, client, failedChunks>>

NotFound ==
  /\ AnswerAndReturn("open")
  /\ UNCHANGED <<request, progress, heap, m_fd, client, failedChunks>>

OpenFile ==
  /\ From("open", "opened")
  /\ m_fd' = "open"
  /\ UNCHANGED <<request, progress, heap, answers, client, failedChunks>>

(* sendFile *)
AllocateFileBuffer ==
  /\ From("opened", "read") /\ Allocate
  /\ UNCHANGED <<request, progress, m_fd, answers, client, failedChunks>>

Read ==
  /\ From("read", "send") /\ progress < size
  /\ UNCHANGED <<request, progress, heap, m_fd, answers, client, failedChunks>>

(* the end of the file, or an error, which ends the response just the same   *)
ReadEnds ==
  /\ From("read", "close")
  /\ heap' = heap - 1
  /\ UNCHANGED <<request, progress, m_fd, answers, client, failedChunks>>

SendChunk ==
  /\ From("send", "read")
  /\ progress' = progress + 1
  /\ UNCHANGED <<request, heap, m_fd, answers, client, failedChunks>>

(* httpd_resp_send_chunk fails, after a timeout with the client still there  *)
(* or because it is gone: sendFile closes the file, ends the chunked response *)
(* and sends a 500 after it.  doIt does not look at its result.              *)
SendFails ==
  /\ From("send", "close")
  /\ m_fd' = "closed"
  /\ answers' = answers + 2 /\ failedChunks' = 1
  /\ heap' = heap - 1
  /\ UNCHANGED <<request, progress, client>>

(* close, a second time after SendFails, and the empty chunk that ends the    *)
(* response                                                                  *)
CloseFile ==
  /\ AnswerAndReturn("close")
  /\ m_fd' = "closed"
  /\ UNCHANGED <<request, progress, heap, client, failedChunks>>

-----------------------------------------------------------------------------
(* The client, or the network between. *)
ClientLeaves ==
  /\ place # "idle" /\ client = "here"
  /\ client' = "lost"
  /\ UNCHANGED <<place, request, progress, heap, m_fd, answers, failedChunks>>

(* power loss, POST /system/reboot, a new that fails in another task or here *)
HttpRestart ==
  /\ place' = "idle" /\ kind' = "none" /\ size' = 0 /\ progress' = 0
  /\ heap' = 0 /\ heapBefore' = 0
  /\ m_fd' = "closed" /\ answers' = 0 /\ client' = "here" /\ failedChunks' = 0

(* A null buffer is written to, or strlen is called with a null string.      *)
OutOfMemory ==
  /\ ~HasMemory
  /\ \/ place \in {"built", "refused", "opened"}
     \/ place = "check" /\ size < READ_BUFFER_SIZE
  /\ HttpRestart

Handler ==
  \/ BuildJson \/ SendJson \/ NoJson
  \/ TooLong \/ AllocateBuffer \/ Receive \/ ReceiveFails \/ Parse \/ ParseFails
  \/ Handle \/ HandleWithoutResponse \/ SendResult
  \/ NotFound \/ OpenFile \/ AllocateFileBuffer \/ Read \/ ReadEnds \/ SendChunk \/ SendFails
  \/ CloseFile
  \/ OutOfMemory

HttpNext == GetJson \/ PostJson \/ GetFile \/ Handler \/ ClientLeaves \/ HttpRestart

(* The task runs; recv and send return, at the latest with a timeout. *)
HttpFairness == WF_httpVars(Handler)

HttpSpec == HttpInit /\ [][HttpNext]_httpVars

-----------------------------------------------------------------------------
(* Type invariant.  HttpModule.cpp:44: what was received and the terminating *)
(* zero fit into the buffer.                                                 *)
HttpTypeOK ==
  /\ place \in {"idle", "build", "built", "check", "receive", "handle", "accepted", "refused",
                "open", "opened", "read", "send", "close"}
  /\ kind \in {"none", "get", "post", "file"}
  /\ size \in 0..MaxSize /\ progress \in 0..size
  /\ heap \in 0..HeapSize /\ heapBefore \in 0..HeapSize
  /\ m_fd \in {"closed", "open"} /\ answers \in 0..3
  /\ client \in {"here", "lost"} /\ failedChunks \in 0..1
  /\ place = "receive" => size < READ_BUFFER_SIZE

BrokeOff == kind = "post" /\ size < READ_BUFFER_SIZE /\ progress < size

(* Whichever branch a request took, it leaves no file open and no block      *)
(* behind but two: the FileResponseHandler of a file (FileSystem.cpp:59) and *)
(* the buffer of a body that broke off (HttpModule.cpp:57).                  *)
MemoryReturned ==
  place = "idle" =>
    /\ m_fd = "closed"
    /\ kind = "file" \/ BrokeOff => heap = heapBefore + 1
    /\ ~(kind = "file" \/ BrokeOff) => heap = heapBefore

(* HttpModule.cpp:15-89, FileSystem.cpp:66-88: on success and in every error *)
(* branch a request is answered once, when its handler returns, whether the  *)
(* client is still there or not.  The one exception is a file of which a     *)
(* chunk could not be sent (FileSystem.cpp:150): it is answered three times, *)
(* at lines 154, 156 and 85.                                                 *)
AnsweredOnce ==
  /\ place = "idle" /\ kind # "none" => answers = 2 * failedChunks + 1
  /\ place # "idle" => answers = 2 * failedChunks

(* The most steps a handler can take from here until it returns. *)
StepsFrom(here, left) ==
  CASE here = "idle" -> 0
    [] here \in {"built", "accepted", "refused", "close"} -> 1
    [] here \in {"build", "handle"} -> 2
    [] here = "receive" -> left + 3
    [] here = "check" -> left + 4
    [] here = "send" -> 2 * left + 1
    [] here = "read" -> 2 * left + 2
    [] here = "opened" -> 2 * left + 3
    [] here = "open" -> 2 * left + 4

StepsLeft == StepsFrom(place, size - progress)

(* HttpModule.cpp:52-58 and the loop of sendFile: whatever recv, read and    *)
(* send return, no step of a handler is in vain.  A request takes at most    *)
(* twice its size and four steps, so that it ends once the task runs.        *)
HandlerAdvances == [][Handler => StepsLeft' \in 0..(StepsLeft - 1)]_httpVars

(* HttpModule.cpp:54: a client that stalls or goes away in the middle of a   *)
(* body or a file does not keep the server's only task.                      *)
RequestEnds == []<>(place = "idle")
=============================================================================
