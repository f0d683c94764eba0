--------------------------- MODULE QrSamplingProofs ---------------------------
(***************************************************************************)
(* For every number of blank images, size of the socket and number of       *)
(* requests: at most one answer comes late, and it is late by one request.  *)
(***************************************************************************)
EXTENDS QrSampling, TLAPS

USE DEF samplingVars, cameraVars, readerVars, requestVars

\* What the type invariant says of the numbers and the socket
LEMMA Numbers ==
  ASSUME SamplingTypeOK
  PROVE  /\ pp \in 0..1 /\ rbuf \in 0..1
         /\ Limit \in Nat /\ count \in Nat /\ count <= Limit + 1
         /\ MaxRequests \in Nat
         /\ asked \in Nat /\ asked <= MaxRequests
         /\ requests \in Nat /\ requests <= MaxRequests
         /\ sock \in Seq(Answers) /\ Len(sock) \in Nat
         /\ SockSize \in Nat /\ Len(sock) <= SockSize
<1>1. /\ pp \in 0..1 /\ rbuf \in 0..1 /\ count \in 0..Limit + 1
      /\ asked \in 0..MaxRequests /\ requests \in 0..MaxRequests
      /\ sock \in Seq(Answers) /\ Len(sock) <= SockSize
  BY DEF SamplingTypeOK
<1>2. Len(sock) \in Nat
  BY <1>1
<1> QED
  BY <1>1, <1>2, SamplingAssumption DEF SamplingAssumption

\* An answer, and the request it is for
LEMMA AnswerIsOne ==
  ASSUME SamplingTypeOK
  PROVE  Answer(view) \in Answers /\ Answer(view).asked = asked
BY DEF SamplingTypeOK, Answer, Answers

\* The socket keeps its answers when one is put in
LEMMA PutOne ==
  ASSUME NEW S, NEW s \in Seq(S), NEW e \in S
  PROVE  /\ Append(s, e) \in Seq(S)
         /\ Len(s) \in Nat /\ Len(Append(s, e)) = Len(s) + 1
         /\ Append(s, e)[Len(s) + 1] = e
         /\ \A i \in 1..Len(s) : Append(s, e)[i] = s[i]
OBVIOUS

\* The socket keeps its other answers when one is taken out
LEMMA TakeOne ==
  ASSUME NEW S, NEW s \in Seq(S), s # <<>>
  PROVE  /\ Tail(s) \in Seq(S)
         /\ Head(s) = s[1] /\ Head(s) \in S
         /\ Len(s) \in Nat /\ Len(s) > 0 /\ Len(Tail(s)) = Len(s) - 1
         /\ \A i \in 1..Len(Tail(s)) : Tail(s)[i] = s[i + 1]
OBVIOUS

-----------------------------------------------------------------------------
\* The type invariant is true at first
LEMMA InitTypes == SamplingInit => SamplingTypeOK
<1> SUFFICES ASSUME SamplingInit PROVE SamplingTypeOK
  OBVIOUS
<1> USE SamplingAssumption DEF SamplingInit
<1>1. sock \in Seq(Answers) /\ Len(sock) <= SockSize
  OBVIOUS
<1>2. count \in 0..Limit + 1 /\ asked \in 0..MaxRequests /\ requests \in 0..MaxRequests
  OBVIOUS
<1>3. answer \in Answers
  BY DEF Answers, Pictures
<1>4. pp \in 0..1 /\ rbuf \in 0..1
  OBVIOUS
<1>5. view \in Pictures
  BY DEF Pictures
<1> QED
  BY <1>1, <1>2, <1>3, <1>4, <1>5 DEF SamplingTypeOK

\* The camera keeps the type invariant
LEMMA CameraTypes == SamplingTypeOK /\ Camera => SamplingTypeOK'
<1> SUFFICES ASSUME SamplingTypeOK, Camera PROVE SamplingTypeOK'
  OBVIOUS
<1>1. CASE WriteImage
  BY <1>1 DEF WriteImage, SamplingTypeOK
<1>2. CASE FlipImage
  <2>1. image' \in [0..1 -> Pictures]
    BY <1>2 DEF FlipImage, SamplingTypeOK
  <2>2. pp' = 1 - pp
    BY <1>2 DEF FlipImage
  <2>3. pp' \in 0..1
    BY <2>2, Numbers
  <2>4. cpc' = "wait" /\ UNCHANGED <<readerVars, sock, requestVars>>
    BY <1>2 DEF FlipImage
  <2> QED
    BY <2>1, <2>3, <2>4 DEF SamplingTypeOK
<1> QED
  BY <1>1, <1>2 DEF Camera

\* The reader keeps the type invariant: it counts up to the limit and one
LEMMA ReaderTypes == SamplingTypeOK /\ CountInv /\ Reader => SamplingTypeOK' /\ CountInv'
<1> SUFFICES ASSUME SamplingTypeOK, CountInv, Reader PROVE SamplingTypeOK' /\ CountInv'
  OBVIOUS
<1>1. CASE StartCopy
  <2>1. /\ rbuf' = pp /\ rpc = "wait" /\ rpc' \in {"copy", "torn copy"}
        /\ UNCHANGED <<cameraVars, view, count, asked, sock, requestVars>>
    BY <1>1 DEF StartCopy
  <2> QED
    BY <2>1 DEF SamplingTypeOK, CountInv
<1>2. CASE EndCopy
  <2>1. image[rbuf] \in Pictures
    BY Numbers DEF SamplingTypeOK
  <2>2. /\ view' \in Pictures /\ rpc \in {"copy", "torn copy"} /\ rpc' = "look"
        /\ UNCHANGED <<cameraVars, rbuf, count, asked, sock, requestVars>>
    BY <1>2, <2>1 DEF EndCopy
  <2> QED
    BY <2>2 DEF SamplingTypeOK, CountInv
<1>3. CASE LookBlank
  <2>1. /\ count' = Counted /\ rpc = "look" /\ count <= Limit
        /\ rpc' = IF count' > Limit THEN "limit" ELSE "wait"
        /\ UNCHANGED <<cameraVars, rbuf, view, asked, sock, requestVars>>
    BY <1>3 DEF LookBlank, CountInv
  <2>2. count' \in 0..Limit + 1
    BY <2>1, Numbers DEF Counted
  <2>3. CountInv'
    BY <2>1, <2>2, Numbers DEF CountInv
  <2>4. rpc' \in {"limit", "wait"}
    BY <2>1
  <2> QED
    BY <2>1, <2>2, <2>3, <2>4 DEF SamplingTypeOK
<1>4. CASE LookLimit \/ LookFound
  <2>1. DecideTo("send")
    BY <1>4 DEF LookLimit, LookFound
  <2>2. \/ rpc' = "wait" /\ count' = 0 /\ asked' = asked
        \/ rpc' = "send" /\ asked' = requests /\ count' = count
    BY <2>1 DEF DecideTo
  <2>3. UNCHANGED <<cameraVars, rbuf, view, sock, requestVars>>
    BY <2>1 DEF DecideTo
  <2>4. count' \in 0..Limit + 1 /\ asked' \in 0..MaxRequests /\ CountInv'
    BY <2>2, Numbers DEF CountInv
  <2>5. rpc' \in {"wait", "send"}
    BY <2>2
  <2> QED
    BY <2>3, <2>4, <2>5 DEF SamplingTypeOK
<1>5. CASE SendAnswer
  <2>1. /\ sock' = Append(sock, Answer(view)) /\ Len(sock) < SockSize
        /\ count' = 0 /\ rpc' = "wait"
        /\ UNCHANGED <<cameraVars, rbuf, view, asked, requestVars>>
    BY <1>5 DEF SendAnswer, CountAfterSend
  <2>2. sock' \in Seq(Answers) /\ Len(sock') <= SockSize
    BY <2>1, Numbers, AnswerIsOne, PutOne
  <2>3. count' \in 0..Limit + 1 /\ CountInv'
    BY <2>1, Numbers DEF CountInv
  <2> QED
    BY <2>1, <2>2, <2>3 DEF SamplingTypeOK
<1> QED
  BY <1>1, <1>2, <1>3, <1>4, <1>5 DEF Reader

\* get_qr_angle keeps the type invariant
LEMMA RequestTypes == SamplingTypeOK /\ (Ask \/ Answering) => SamplingTypeOK'
<1> SUFFICES ASSUME SamplingTypeOK, Ask \/ Answering PROVE SamplingTypeOK'
  OBVIOUS
<1>1. CASE Ask
  <2>1. /\ requests < MaxRequests /\ requests' = requests + 1
        /\ ordr' = "null" /\ qpc' = "clear"
        /\ UNCHANGED <<cameraVars, readerVars, sock, answer>>
    BY <1>1 DEF Ask
  <2>2. requests' \in 0..MaxRequests
    BY <2>1, Numbers
  <2> QED
    BY <2>1, <2>2 DEF SamplingTypeOK
<1>2. CASE ClearBefore \/ ClearAfter
  <2>1. /\ qpc' \in {qpc, "order", "idle"}
        /\ sock' = sock \/ (sock # <<>> /\ sock' = Tail(sock))
        /\ UNCHANGED <<cameraVars, readerVars, ordr, requests, answer>>
    BY <1>2 DEF ClearBefore, ClearAfter, Drain
  <2>2. sock' \in Seq(Answers) /\ Len(sock') <= SockSize
    <3>1. CASE sock' = sock
      BY <3>1, Numbers
    <3>2. CASE sock # <<>> /\ sock' = Tail(sock)
      BY <3>2, Numbers, TakeOne
    <3> QED
      BY <2>1, <3>1, <3>2
  <2>3. qpc' \in {"idle", "clear", "order", "read", "withdraw", "clear again"}
    BY <2>1 DEF SamplingTypeOK
  <2> QED
    BY <2>1, <2>2, <2>3 DEF SamplingTypeOK
<1>3. CASE Order \/ Withdraw
  <2>1. /\ qpc' \in {"read", "clear again"} /\ ordr' \in {"null", "ipc"}
        /\ UNCHANGED <<cameraVars, readerVars, sock, requests, answer>>
    BY <1>3 DEF Order, Withdraw, OrderAfterRead
  <2> QED
    BY <2>1 DEF SamplingTypeOK
<1>4. CASE ReadAnswer
  <2>1. /\ sock # <<>> /\ answer' = Head(sock) /\ sock' = Tail(sock)
        /\ qpc' = "withdraw"
        /\ UNCHANGED <<cameraVars, readerVars, ordr, requests>>
    BY <1>4 DEF ReadAnswer
  <2>2. sock' \in Seq(Answers) /\ Len(sock') <= SockSize /\ answer' \in Answers
    BY <2>1, Numbers, TakeOne
  <2> QED
    BY <2>1, <2>2 DEF SamplingTypeOK
<1> QED
  BY <1>1, <1>2, <1>3, <1>4 DEF Answering

-----------------------------------------------------------------------------
\* Neither the camera nor the first half of the reader touches the exchange
LEMMA QuietKeeps ==
  ASSUME SamplingInv, UNCHANGED <<asked, sock, requestVars>>,
         rpc' = "send" <=> rpc = "send"
  PROVE  (OrderInv /\ FreshSock /\ LateInv /\ AtMostOneLate /\ LagAtMostOne)'
BY DEF SamplingInv, OrderInv, FreshSock, LateInv, AtMostOneLate, LagAtMostOne, Sending

\* The reader decides to answer only while the order stands
LEMMA DecideKeeps ==
  ASSUME SamplingInv, DecideTo("send"), rpc # "send"
  PROVE  (OrderInv /\ FreshSock /\ LateInv /\ AtMostOneLate /\ LagAtMostOne)'
<1>1. /\ UNCHANGED <<sock, requestVars>>
      /\ \/ rpc' = "wait"
         \/ rpc' = "send" /\ ordr = "ipc" /\ asked' = requests
  BY DEF DecideTo
<1>2. (OrderInv /\ FreshSock /\ LagAtMostOne)'
  BY <1>1 DEF SamplingInv, OrderInv, FreshSock, LagAtMostOne
<1>3. LateInv'
  <2>1. requests \in Nat
    BY Numbers DEF SamplingInv
  <2> QED
    BY <1>1, <2>1 DEF LateInv
<1>4. AtMostOneLate'
  <2>1. CASE rpc' = "wait"
    BY <1>1, <2>1 DEF SamplingInv, AtMostOneLate, Sending
  <2>2. CASE ordr = "ipc"
    BY <1>1, <2>2 DEF SamplingInv, AtMostOneLate, OrderInv
  <2> QED
    BY <1>1, <2>1, <2>2
<1> QED
  BY <1>2, <1>3, <1>4

\* What is sent is for this request, or late by one and first in the socket
LEMMA SendKeeps ==
  ASSUME SamplingInv, SendAnswer
  PROVE  (OrderInv /\ FreshSock /\ LateInv /\ AtMostOneLate /\ LagAtMostOne)'
<1>1. /\ rpc = "send" /\ rpc' = "wait" /\ sock' = Append(sock, Answer(view))
      /\ UNCHANGED <<asked, requestVars>>
  BY DEF SendAnswer
<1>2. /\ Len(sock) \in Nat /\ Len(sock') = Len(sock) + 1
      /\ sock'[Len(sock) + 1].asked = asked
      /\ \A i \in 1..Len(sock) : sock'[i] = sock[i]
  BY <1>1, Numbers, AnswerIsOne, PutOne DEF SamplingInv
<1>3. (OrderInv /\ LateInv /\ LagAtMostOne)'
  BY <1>1 DEF SamplingInv, OrderInv, LateInv, LagAtMostOne
<1>4. AtMostOneLate'
  BY <1>1, <1>2 DEF SamplingInv, AtMostOneLate, Sending
<1>5. FreshSock'
  <2>1. asked >= (IF qpc = "idle" THEN requests ELSE requests - 1)
    <3>1. asked \in Nat /\ requests \in Nat
      BY Numbers DEF SamplingInv
    <3>2. LateInv
      BY DEF SamplingInv
    <3> QED
      BY <1>1, <3>1, <3>2 DEF LateInv
  <2>2. \A i \in 1..Len(sock) :
          sock[i].asked >= (IF qpc = "idle" THEN requests ELSE requests - 1)
    BY DEF SamplingInv, FreshSock
  <2>3. \A i \in 1..Len(sock') : i = Len(sock) + 1 \/ i \in 1..Len(sock)
    BY <1>2
  <2>4. requests' = requests /\ qpc' = qpc
    BY <1>1
  <2> QED
    BY <1>2, <2>1, <2>2, <2>3, <2>4 DEF FreshSock
<1> QED
  BY <1>3, <1>4, <1>5

\* A new request: what is left of the one before is late by one
LEMMA AskKeeps ==
  ASSUME SamplingInv, Ask
  PROVE  (OrderInv /\ FreshSock /\ LateInv /\ AtMostOneLate /\ LagAtMostOne)'
<1>1. /\ qpc = "idle" /\ qpc' = "clear" /\ ordr' = "null" /\ requests' = requests + 1
      /\ UNCHANGED <<rpc, asked, sock, answer>>
  BY DEF Ask
<1>2. requests \in Nat /\ asked \in Nat
  BY Numbers DEF SamplingInv
<1>3. (OrderInv /\ AtMostOneLate /\ LagAtMostOne)'
  BY <1>1 DEF OrderInv, AtMostOneLate, LagAtMostOne
<1>4. LateInv'
  <2>1. rpc = "send" => asked >= requests
    BY <1>1 DEF SamplingInv, LateInv
  <2> QED
    BY <1>1, <1>2, <2>1 DEF LateInv
<1>5. FreshSock'
  <2>1. \A i \in 1..Len(sock) : sock[i].asked >= requests
    BY <1>1 DEF SamplingInv, FreshSock
  <2>2. requests' - 1 = requests
    BY <1>1, <1>2
  <2> QED
    BY <1>1, <2>1, <2>2 DEF FreshSock
<1> QED
  BY <1>3, <1>4, <1>5

\* A round of ipc_clear takes an answer out, its end finds the socket empty
LEMMA DrainKeeps ==
  ASSUME SamplingInv, ClearBefore \/ ClearAfter
  PROVE  (OrderInv /\ FreshSock /\ LateInv /\ AtMostOneLate /\ LagAtMostOne)'
<1>1. /\ qpc \in {"clear", "clear again"}
      /\ UNCHANGED <<rpc, asked, ordr, requests, answer>>
  BY DEF ClearBefore, ClearAfter
<1>2. \/ sock # <<>> /\ sock' = Tail(sock) /\ qpc' = qpc
      \/ sock = <<>> /\ sock' = sock /\ qpc = "clear" /\ qpc' = "order"
      \/ sock = <<>> /\ sock' = sock /\ qpc = "clear again" /\ qpc' = "idle"
  BY DEF ClearBefore, ClearAfter, Drain
<1>3. OrderInv' /\ LagAtMostOne'
  BY <1>1, <1>2 DEF SamplingInv, OrderInv, LagAtMostOne
<1>4. LateInv'
  BY <1>1, <1>2 DEF SamplingInv, LateInv
<1>5. CASE sock # <<>> /\ sock' = Tail(sock) /\ qpc' = qpc
  <2>1. sock \in Seq(Answers)
    BY Numbers DEF SamplingInv
  <2>2. /\ Len(sock) \in Nat /\ Len(sock') = Len(sock) - 1
        /\ \A i \in 1..Len(sock') : sock'[i] = sock[i + 1]
    BY <1>5, <2>1, TakeOne
  <2>3. \A i \in 1..Len(sock') : i + 1 \in 1..Len(sock)
    BY <2>2
  <2>4. \A i \in 1..Len(sock) : sock[i].asked >= requests - 1
    BY <1>1 DEF SamplingInv, FreshSock
  <2>5. FreshSock'
    BY <1>1, <1>5, <2>2, <2>3, <2>4 DEF FreshSock
  <2>6. AtMostOneLate'
    BY <1>1, <1>5 DEF AtMostOneLate
  <2> QED
    BY <1>3, <1>4, <2>5, <2>6
<1>6. CASE sock = <<>> /\ sock' = sock
  <2>1. Len(sock') = 0
    BY <1>6
  <2>2. FreshSock' /\ AtMostOneLate'
    BY <2>1 DEF FreshSock, AtMostOneLate, Sending
  <2> QED
    BY <1>3, <1>4, <2>2
<1> QED
  BY <1>2, <1>5, <1>6

\* The order, the answer and the withdrawal of the order
LEMMA AnswerKeeps ==
  ASSUME SamplingInv, Order \/ ReadAnswer \/ Withdraw
  PROVE  (OrderInv /\ FreshSock /\ LateInv /\ AtMostOneLate /\ LagAtMostOne)'
<1>1. CASE Order \/ Withdraw
  <2>1. /\ UNCHANGED <<rpc, asked, sock, requests, answer>>
        /\ \/ qpc = "order" /\ qpc' = "read" /\ ordr' = "ipc"
           \/ qpc = "withdraw" /\ qpc' = "clear again" /\ ordr' = "null"
    BY <1>1 DEF Order, Withdraw, OrderAfterRead
  <2>2. (OrderInv /\ AtMostOneLate /\ LagAtMostOne)'
    BY <2>1 DEF SamplingInv, OrderInv, AtMostOneLate, LagAtMostOne
  <2>3. LateInv'
    BY <2>1 DEF SamplingInv, LateInv
  <2>4. FreshSock'
    BY <2>1 DEF SamplingInv, FreshSock
  <2> QED
    BY <2>2, <2>3, <2>4
<1>2. CASE ReadAnswer
  <2>1. /\ qpc = "read" /\ qpc' = "withdraw" /\ sock # <<>>
        /\ answer' = Head(sock) /\ sock' = Tail(sock)
        /\ UNCHANGED <<rpc, asked, ordr, requests>>
    BY <1>2 DEF ReadAnswer
  <2>2. sock \in Seq(Answers)
    BY Numbers DEF SamplingInv
  <2>3. /\ Len(sock) \in Nat /\ Len(sock) > 0 /\ Len(sock') = Len(sock) - 1
        /\ Head(sock) = sock[1]
        /\ \A i \in 1..Len(sock') : sock'[i] = sock[i + 1]
    BY <2>1, <2>2, TakeOne
  <2>4. \A i \in 1..Len(sock) : sock[i].asked >= requests - 1
    BY <2>1 DEF SamplingInv, FreshSock
  <2>5. 1 \in 1..Len(sock) /\ \A i \in 1..Len(sock') : i + 1 \in 1..Len(sock)
    BY <2>3
  <2>6. LagAtMostOne'
    BY <2>1, <2>3, <2>4, <2>5 DEF LagAtMostOne
  <2>7. FreshSock'
    BY <2>1, <2>3, <2>4, <2>5 DEF FreshSock
  <2>8. OrderInv' /\ AtMostOneLate'
    BY <2>1 DEF SamplingInv, OrderInv, AtMostOneLate
  <2>9. LateInv'
    BY <2>1 DEF SamplingInv, LateInv
  <2> QED
    BY <2>6, <2>7, <2>8, <2>9
<1> QED
  BY <1>1, <1>2

-----------------------------------------------------------------------------
\* The inductive invariant holds at first
LEMMA InitInv == SamplingInit => SamplingInv
<1> SUFFICES ASSUME SamplingInit PROVE SamplingInv
  OBVIOUS
<1>1. SamplingTypeOK
  BY InitTypes
<1>2. CountInv
  BY SamplingAssumption DEF SamplingAssumption, SamplingInit, CountInv
<1>3. OrderInv /\ LateInv /\ AtMostOneLate /\ LagAtMostOne
  BY DEF SamplingInit, OrderInv, LateInv, AtMostOneLate, LagAtMostOne, Sending
<1>4. FreshSock
  BY DEF SamplingInit, FreshSock
<1> QED
  BY <1>1, <1>2, <1>3, <1>4 DEF SamplingInv

\* Every step keeps it
LEMMA NextInv == SamplingInv /\ [SamplingNext]_samplingVars => SamplingInv'
<1> SUFFICES ASSUME SamplingInv, [SamplingNext]_samplingVars PROVE SamplingInv'
  OBVIOUS
<1>1. SamplingTypeOK /\ CountInv
  BY DEF SamplingInv
<1>2. CASE Camera
  <2>1. /\ UNCHANGED <<asked, count, sock, requestVars>>
        /\ (rpc' = rpc) \/ (rpc = "copy" /\ rpc' = "torn copy")
    BY <1>2 DEF Camera, WriteImage, FlipImage
  <2>2. CountInv'
    BY <1>1, <2>1 DEF CountInv
  <2> QED
    BY <1>1, <1>2, <2>1, <2>2, CameraTypes, QuietKeeps DEF SamplingInv
<1>3. CASE Reader
  <2>1. SamplingTypeOK' /\ CountInv'
    BY <1>1, <1>3, ReaderTypes
  <2>2. CASE StartCopy \/ EndCopy \/ LookBlank
    <3>1. UNCHANGED <<asked, sock, requestVars>> /\ (rpc' = "send" <=> rpc = "send")
      BY <2>2 DEF StartCopy, EndCopy, LookBlank
    <3> QED
      BY <2>1, <3>1, QuietKeeps DEF SamplingInv
  <2>3. CASE LookLimit \/ LookFound
    <3>1. DecideTo("send") /\ rpc # "send"
      BY <2>3 DEF LookLimit, LookFound
    <3> QED
      BY <2>1, <3>1, DecideKeeps DEF SamplingInv
  <2>4. CASE SendAnswer
    BY <2>1, <2>4, SendKeeps DEF SamplingInv
  <2> QED
    BY <1>3, <2>2, <2>3, <2>4 DEF Reader
<1>4. CASE Ask \/ Answering
  <2>1. UNCHANGED <<rpc, count>>
    BY <1>4 DEF Ask, Answering, ClearBefore, Order, ReadAnswer, Withdraw, ClearAfter
  <2>2. SamplingTypeOK' /\ CountInv'
    BY <1>1, <1>4, <2>1, RequestTypes DEF CountInv
  <2>3. (OrderInv /\ FreshSock /\ LateInv /\ AtMostOneLate /\ LagAtMostOne)'
    BY <1>4, AskKeeps, DrainKeeps, AnswerKeeps DEF Answering
  <2> QED
    BY <2>2, <2>3 DEF SamplingInv
<1>5. CASE UNCHANGED samplingVars
  <2>1. SamplingTypeOK' /\ CountInv'
    BY <1>1, <1>5 DEF SamplingTypeOK, CountInv
  <2> QED
    BY <1>5, <2>1, QuietKeeps DEF SamplingInv
<1> QED
  BY <1>2, <1>3, <1>4, <1>5 DEF SamplingNext

\* The exchange between get_qr_angle and the reader keeps its invariant
\* (qr_reader.c:105-137, 181-269).
THEOREM SamplingInvariant == SamplingSpec => []SamplingInv
BY InitInv, NextInv, PTL DEF SamplingSpec

\* The type invariant, for every value of the constants.
THEOREM SamplingTypeCorrect == SamplingSpec => []SamplingTypeOK
<1>1. SamplingInv => SamplingTypeOK
  BY DEF SamplingInv
<1> QED
  BY <1>1, SamplingInvariant, PTL

\* At most one answer is left over between two requests (qr_reader.c:122-123).
THEOREM OneLateAnswer == SamplingSpec => []AtMostOneLate
<1>1. SamplingInv => AtMostOneLate
  BY DEF SamplingInv
<1> QED
  BY <1>1, SamplingInvariant, PTL

\* An answer is for this request or the one before (qr_reader.c:113-123).
THEOREM LagIsOne == SamplingSpec => []LagAtMostOne
<1>1. SamplingInv => LagAtMostOne
  BY DEF SamplingInv
<1> QED
  BY <1>1, SamplingInvariant, PTL
=============================================================================
