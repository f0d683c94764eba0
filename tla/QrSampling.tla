------------------------------ MODULE QrSampling ------------------------------
(***************************************************************************)
(* How an AGV learns which QR code is under it: the camera thread fills two *)
(* images in turn (camera_exec, client/src/lib/camera.c), the QR reader     *)
(* copies and decodes one of them (qr_reader, client/src/lib/qr_reader.c),  *)
(* and the thread that executes commands asks for an answer                 *)
(* (get_qr_angle).  The threads share the index of the images, the order    *)
(* flag and a socket, and no lock.                                          *)
(*                                                                          *)
(* An image either shows a code or not; which code it is makes no           *)
(* difference to the exchange.  Nothing asks for TO_SERVER.                 *)
(***************************************************************************)
EXTENDS Integers, Sequences

CONSTANTS
  Limit,              \* 30*3: blank images before the answer "not found"
  SockSize,           \* answers the socket holds before write() waits
  MaxRequests         \* bound: calls of get_qr_angle

ASSUME SamplingAssumption ==
  /\ Limit \in Nat
  /\ SockSize \in Nat \ {0}
  /\ MaxRequests \in Nat

VARIABLES
  image,              \* IMAGE[0], IMAGE[1]
  pp,                 \* CAMERA_PP
  cpc,                \* where the camera thread is
  rpc,                \* where the reader is
  rbuf,               \* the image it copies
  view,               \* its copy
  count,              \* its count of blank images
  asked,              \* the request it saw when it decided to answer
  ordr,               \* the reader's output redirect flag
  sock,               \* answers sent and unread
  qpc,                \* where get_qr_angle is, "idle" outside
  requests,           \* calls of get_qr_angle so far
  answer              \* what the last one read

cameraVars == <<image, pp, cpc>>
readerVars == <<rpc, rbuf, view, count, asked>>
requestVars == <<ordr, qpc, requests, answer>>
samplingVars == <<cameraVars, readerVars, sock, requestVars>>

\* What an image shows
Pictures == {"code", "blank"}

\* What is sent for an image; `asked` is not part of it in the code
Answer(picture) == [picture |-> picture, asked |-> asked]

SamplingInit ==
  /\ image \in [0..1 -> Pictures]
  /\ pp = 0
  /\ cpc = "wait"
  /\ rpc = "wait"
  /\ rbuf = 0
  /\ view = "blank"
  /\ count = 0
  /\ asked = 0
  /\ ordr = "null"
  /\ sock = <<>>
  /\ qpc = "idle"
  /\ requests = 0
  /\ answer = [picture |-> "blank", asked |-> 0]

-----------------------------------------------------------------------------
\* The timer expires: grab, and the threshold filter starts to write IMAGE[CAMERA_PP]
WriteImage ==
  /\ cpc = "wait"
  /\ cpc' = "write"
  /\ rpc' = IF rpc = "copy" /\ rbuf = pp THEN "torn copy" ELSE rpc
  /\ UNCHANGED <<image, pp, rbuf, view, count, asked, sock, requestVars>>

\* The filter is done, CAMERA_PP ^= 1
FlipImage ==
  /\ cpc = "write"
  /\ \E picture \in Pictures : image' = [image EXCEPT ![pp] = picture]
  /\ pp' = 1 - pp
  /\ cpc' = "wait"
  /\ UNCHANGED <<readerVars, sock, requestVars>>

Camera == WriteImage \/ FlipImage

-----------------------------------------------------------------------------
\* The timer expires: memcpy from IMAGE[CAMERA_PP] starts
StartCopy ==
  /\ rpc = "wait"
  /\ rbuf' = pp
  /\ rpc' = IF cpc = "write" THEN "torn copy" ELSE "copy"
  /\ UNCHANGED <<cameraVars, view, count, asked, sock, requestVars>>

\* The copy is complete; of an image written to meanwhile, anything may come out
EndCopy ==
  /\ rpc \in {"copy", "torn copy"}
  /\ view' \in IF rpc = "copy" THEN {image[rbuf]} ELSE Pictures
  /\ rpc' = "look"
  /\ UNCHANGED <<cameraVars, rbuf, count, asked, sock, requestVars>>

\* Mutant of Counted: blank images are not counted for the IPC
CountedNull == IF ordr = "null" THEN 0 ELSE count

\* The first switch over ordr: blank images are counted while somebody asks
Counted == IF ordr = "null" THEN 0 ELSE count + 1

\* quirc_count is 0
LookBlank ==
  /\ rpc = "look" /\ view = "blank"
  /\ count' = Counted
  /\ rpc' = IF count' > Limit THEN "limit" ELSE "wait"
  /\ UNCHANGED <<cameraVars, rbuf, view, asked, sock, requestVars>>

\* The switch over ordr before an answer; without an order count is reset
DecideTo(pc) ==
  /\ \/ ordr = "null" /\ rpc' = "wait" /\ count' = 0 /\ UNCHANGED asked
     \/ ordr = "ipc" /\ rpc' = pc /\ asked' = requests /\ UNCHANGED count
  /\ UNCHANGED <<cameraVars, rbuf, view, sock, requestVars>>

\* count > 30*3: ordr is read again
LookLimit == rpc = "limit" /\ DecideTo("send")

\* A code was found and decoded
LookFound == rpc = "look" /\ view = "code" /\ DecideTo("send")

CountAfterSend == 0

\* ipc_send, which waits for room in the socket
SendAnswer ==
  /\ rpc = "send"
  /\ Len(sock) < SockSize
  /\ sock' = Append(sock, Answer(view))
  /\ count' = CountAfterSend
  /\ rpc' = "wait"
  /\ UNCHANGED <<cameraVars, rbuf, view, asked, requestVars>>

Reader == StartCopy \/ EndCopy \/ LookBlank \/ LookLimit \/ LookFound \/ SendAnswer

-----------------------------------------------------------------------------
\* get_qr_angle is called: qr_ordr(TO_NULL)
Ask ==
  /\ qpc = "idle"
  /\ requests < MaxRequests
  /\ requests' = requests + 1
  /\ ordr' = "null"
  /\ qpc' = "clear"
  /\ UNCHANGED <<cameraVars, readerVars, sock, answer>>

\* Mutant of Drain: an if in place of the loop
DrainOnce(next) ==
  /\ sock' = IF sock = <<>> THEN sock ELSE Tail(sock)
  /\ qpc' = next

\* ipc_clear: one round of its loop, or its end
Drain(next) ==
  \/ sock # <<>> /\ sock' = Tail(sock) /\ UNCHANGED qpc
  \/ sock = <<>> /\ qpc' = next /\ UNCHANGED sock

\* ipc_clear(qr_ipc) before the order
ClearBefore ==
  /\ qpc = "clear"
  /\ Drain("order")
  /\ UNCHANGED <<cameraVars, readerVars, ordr, requests, answer>>

\* qr_ordr(TO_IPC)
Order ==
  /\ qpc = "order"
  /\ ordr' = "ipc"
  /\ qpc' = "read"
  /\ UNCHANGED <<cameraVars, readerVars, sock, requests, answer>>

\* read(qr_ipc)
ReadAnswer ==
  /\ qpc = "read"
  /\ sock # <<>>
  /\ answer' = Head(sock)
  /\ sock' = Tail(sock)
  /\ qpc' = "withdraw"
  /\ UNCHANGED <<cameraVars, readerVars, ordr, requests>>

\* Mutant of OrderAfterRead: the order stands
OrderAfterReadKept == "ipc"

OrderAfterRead == "null"

\* qr_ordr(TO_NULL)
Withdraw ==
  /\ qpc = "withdraw"
  /\ ordr' = OrderAfterRead
  /\ qpc' = "clear again"
  /\ UNCHANGED <<cameraVars, readerVars, sock, requests, answer>>

\* ipc_clear(qr_ipc) after it, and return
ClearAfter ==
  /\ qpc = "clear again"
  /\ Drain("idle")
  /\ UNCHANGED <<cameraVars, readerVars, ordr, requests, answer>>

Answering == ClearBefore \/ Order \/ ReadAnswer \/ Withdraw \/ ClearAfter

SamplingNext == Camera \/ Reader \/ Ask \/ Answering

SamplingSpec == SamplingInit /\ [][SamplingNext]_samplingVars

\* The threads run; nobody needs to ask
FairSampling ==
  /\ SamplingSpec
  /\ WF_samplingVars(Camera)
  /\ WF_samplingVars(Reader)
  /\ WF_samplingVars(Answering)

-----------------------------------------------------------------------------
\* Type invariant of camera, reader and get_qr_angle.
Answers == [picture : Pictures, asked : 0..MaxRequests]
SamplingTypeOK ==
  /\ image \in [0..1 -> Pictures]
  /\ pp \in 0..1 /\ rbuf \in 0..1
  /\ cpc \in {"wait", "write"}
  /\ rpc \in {"wait", "copy", "torn copy", "look", "limit", "send"}
  /\ view \in Pictures
  /\ count \in 0..Limit + 1
  /\ asked \in 0..MaxRequests /\ requests \in 0..MaxRequests
  /\ ordr \in {"null", "ipc"}
  /\ sock \in Seq(Answers) /\ Len(sock) <= SockSize
  /\ qpc \in {"idle", "clear", "order", "read", "withdraw", "clear again"}
  /\ answer \in Answers

(***************************************************************************)
(* Between two requests at most one answer is left in the socket or about   *)
(* to be sent: the reader may be between its look at the order flag and its *)
(* send when the order is withdrawn, but only once (qr_reader.c:122-123,    *)
(* 193-262).  More would fill the socket while nobody reads it.             *)
(***************************************************************************)
Sending == IF rpc = "send" THEN 1 ELSE 0
AtMostOneLate == qpc = "idle" => Len(sock) + Sending <= 1

(***************************************************************************)
(* A request is answered by what the reader decided to send during it or    *)
(* during the request just before: an answer that came too late for its     *)
(* request may be taken for the next, never for a later one                 *)
(* (qr_reader.c:113-123).                                                   *)
(***************************************************************************)
LagAtMostOne ==
  qpc \in {"withdraw", "clear again"} => answer.asked >= requests - 1

(***************************************************************************)
(* The inductive invariant behind both: the reader may send for the request *)
(* before this one only while nothing has been read for this one, and then  *)
(* the socket is empty once it was cleared (qr_reader.c:113-123, 247-262).  *)
(***************************************************************************)
OrderInv == ordr = "ipc" <=> qpc \in {"read", "withdraw"}
FreshSock ==
  \A i \in 1..Len(sock) :
    sock[i].asked >= (IF qpc = "idle" THEN requests ELSE requests - 1)
LateInv ==
  rpc = "send" =>
    \/ asked >= requests
    \/ /\ asked >= requests - 1
       /\ qpc = "clear" \/ (qpc \in {"order", "read"} /\ sock = <<>>)
CountInv == rpc \notin {"limit", "send"} => count <= Limit
SamplingInv ==
  /\ SamplingTypeOK
  /\ CountInv
  /\ OrderInv
  /\ FreshSock
  /\ LateInv
  /\ AtMostOneLate
  /\ LagAtMostOne

(***************************************************************************)
(* Every call of get_qr_angle returns, whether a code is seen or not and    *)
(* whatever is left in the socket (qr_reader.c:113-136, 191-226).           *)
(***************************************************************************)
EveryCallReturns == (qpc # "idle") ~> (qpc = "idle")

(***************************************************************************)
(* CAMERA_PP is a "ping pong flag" (camera.c:24, qr_reader.c:48): the       *)
(* reader does not copy the image that the camera is writing.               *)
(***************************************************************************)
PingPong == ~(cpc = "write" /\ rpc \in {"copy", "torn copy"} /\ rbuf = pp)
=============================================================================
