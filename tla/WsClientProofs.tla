--------------------------- MODULE WsClientProofs ---------------------------
(***************************************************************************)
(* Theorems about the websocket client, for any number of requests and     *)
(* connections: every variable keeps its type; a request gets at most one  *)
(* answer; nothing waits after the shutdown; the connection of a client    *)
(* that is not disconnected has its reader and its writer; and whoever     *)
(* waits for an answer is not forgotten.                                   *)
(***************************************************************************)
EXTENDS WsClient, TLAPS, SequenceTheorems

(* The handler counts its failures from the last connection it made.        *)
TypeInv == TypeOK /\ (rpc # "done" => retryCount < MaxRetry)

LEMMA ConnsFact == 1 \in Conns /\ \A k \in Conns : k \in Nat /\ k \in Reqs
BY BoundsAssumption DEF Conns, Reqs

LEMMA OwnerFact == Owner \in Reqs /\ Users \subseteq Reqs
BY DEF Reqs

(* What an action leaves alone keeps its type.                              *)
LEMMA Frame ==
    ASSUME TypeInv
    PROVE  /\ UNCHANGED <<connVars, reconVars, shutdown>> =>
                  ConnTypes' /\ (rpc' # "done" => retryCount' < MaxRetry)
           /\ UNCHANGED requestVars => RequestTypes'
           /\ UNCHANGED <<sendChan, inVars, outVars>> => HandlerTypes'
           /\ UNCHANGED issueVars => IssueTypes'
           /\ UNCHANGED nodeVars => NodeTypes'
<1> USE DEF TypeInv, TypeOK
<1>1. UNCHANGED <<connVars, reconVars, shutdown>> =>
          ConnTypes' /\ (rpc' # "done" => retryCount' < MaxRetry)
  BY DEF ConnTypes, connVars, reconVars
<1>2. UNCHANGED requestVars => RequestTypes'
  BY DEF RequestTypes, requestVars
<1>3. UNCHANGED <<sendChan, inVars, outVars>> => HandlerTypes'
  BY DEF HandlerTypes, inVars, outVars
<1>4. UNCHANGED issueVars => IssueTypes'
  BY DEF IssueTypes, issueVars
<1>5. UNCHANGED nodeVars => NodeTypes'
  BY DEF NodeTypes, nodeVars
<1> QED
  BY <1>1, <1>2, <1>3, <1>4, <1>5

LEMMA TypeInit == Init => TypeInv
<1> SUFFICES ASSUME Init PROVE TypeInv
  OBVIOUS
<1> USE ConnsFact, OwnerFact DEF Init
<1>1. ConnTypes /\ retryCount < MaxRetry
  <2>1. sock \in Conns /\ gen \in Conns /\ disconnected \in BOOLEAN /\ shutdown \in BOOLEAN
    BY Zenon
  <2>2. socket \in [Conns -> {None, "up", "broken", "closed"}]
    OBVIOUS
  <2>3. rpc = "wait" /\ retryCount \in 0 .. MaxRetry /\ retryCount < MaxRetry
    BY DEF MaxRetry
  <2> QED
    BY <2>1, <2>2, <2>3 DEF ConnTypes
<1>2. RequestTypes
  BY DEF RequestTypes
<1>3. sendChan \in Seq(Reqs)
  OBVIOUS
<1>4. HandlerTypes
  BY <1>3 DEF HandlerTypes, InPlaces, OutPlaces
<1>5. IssueTypes
  BY DEF IssueTypes, IssuePlaces
<1>6. NodeTypes
  BY DEF NodeTypes
<1> QED
  BY <1>1, <1>2, <1>4, <1>5, <1>6 DEF TypeInv, TypeOK

LEMMA DisconnectTypes ==
    ASSUME TypeInv, DoDisconnect, UNCHANGED reconVars, shutdown' \in BOOLEAN
    PROVE  ConnTypes' /\ (rpc' # "done" => retryCount' < MaxRetry)
BY DEF TypeInv, TypeOK, ConnTypes, DoDisconnect, reconVars

LEMMA ReaderTypes == ASSUME TypeInv, NEW k \in Conns, Reader(k) PROVE TypeInv'
<1> USE Frame DEF TypeInv, TypeOK
<1>1. CASE InTop(k)
  <2>1. HandlerTypes'
    BY <1>1 DEF InTop, HandlerTypes, ConnTypes, InPlaces, outVars
  <2> QED
    BY <1>1, <2>1 DEF InTop
<1>2. CASE InRead(k)
  <2>1. PICK r \in replies[isock[k]] :
            /\ replies' = [replies EXCEPT ![isock[k]] = @ \ {r}]
            /\ imsg' = [imsg EXCEPT ![k] = r]
    BY <1>2 DEF InRead
  <2>2. isock[k] \in Conns /\ r \in Reqs
    BY <2>1 DEF HandlerTypes, NodeTypes
  <2>3. HandlerTypes'
    BY <1>2, <2>1, <2>2 DEF InRead, HandlerTypes, InPlaces, outVars
  <2>4. NodeTypes'
    BY <1>2, <2>1, <2>2 DEF InRead, NodeTypes
  <2> QED
    BY <1>2, <2>3, <2>4 DEF InRead
<1>3. CASE InError(k)
  <2>1. HandlerTypes'
    BY <1>3 DEF InError, HandlerTypes, InPlaces, outVars
  <2> QED
    BY <1>3, <2>1 DEF InError
<1>4. CASE RouteReply(k)
  <2>1. HandlerTypes'
    BY <1>4 DEF RouteReply, HandlerTypes, InPlaces, outVars
  <2>2. RequestTypes'
    BY <1>4 DEF RouteReply, RequestTypes, Forgets
  <2> QED
    BY <1>4, <2>1, <2>2 DEF RouteReply
<1>5. CASE Deliver(k)
  <2>1. HandlerTypes' /\ imsg[k] \in Reqs
    BY <1>5 DEF Deliver, HandlerTypes, InPlaces, outVars
  <2>2. RequestTypes'
    BY <1>5, <2>1 DEF Deliver, RequestTypes, Registers
  <2> QED
    BY <1>5, <2>1, <2>2 DEF Deliver
<1>6. CASE InExit(k)
  <2>1. HandlerTypes'
    BY <1>6 DEF InExit, HandlerTypes, InPlaces, outVars
  <2>2. ConnTypes' /\ (rpc' # "done" => retryCount' < MaxRetry)
    BY <1>6, DisconnectTypes DEF InExit, ConnTypes
  <2> QED
    BY <1>6, <2>1, <2>2 DEF InExit
<1> QED
  BY <1>1, <1>2, <1>3, <1>4, <1>5, <1>6 DEF Reader

LEMMA WriterTypes == ASSUME TypeInv, NEW k \in Conns, Writer(k) PROVE TypeInv'
<1> USE Frame DEF TypeInv, TypeOK
<1>1. CASE OutTop(k)
  <2>1. HandlerTypes'
    BY <1>1 DEF OutTop, HandlerTypes, ConnTypes, OutPlaces, inVars
  <2> QED
    BY <1>1, <2>1 DEF OutTop
<1>2. CASE OutTake(k)
  <2>1. Head(sendChan) \in Reqs /\ Tail(sendChan) \in Seq(Reqs)
    BY <1>2, HeadTailProperties DEF OutTake, HandlerTypes
  <2>2. HandlerTypes'
    BY <1>2, <2>1 DEF OutTake, HandlerTypes, OutPlaces, inVars
  <2> QED
    BY <1>2, <2>2 DEF OutTake
<1>3. CASE OutStops(k)
  <2>1. HandlerTypes'
    BY <1>3 DEF OutStops, HandlerTypes, OutPlaces, inVars
  <2> QED
    BY <1>3, <2>1 DEF OutStops
<1>4. CASE OutWrite(k)
  <2>1. HandlerTypes' /\ omsg[k] \in Reqs
    BY <1>4 DEF OutWrite, HandlerTypes, OutPlaces, inVars
  <2>2. NodeTypes'
    BY <1>4, <2>1 DEF OutWrite, NodeTypes, ConnTypes
  <2> QED
    BY <1>4, <2>1, <2>2 DEF OutWrite
<1>5. CASE OutLost(k)
  <2>1. HandlerTypes'
    BY <1>5 DEF OutLost, HandlerTypes, OutPlaces, inVars
  <2> QED
    BY <1>5, <2>1 DEF OutLost
<1>6. CASE OutError(k)
  <2>1. HandlerTypes'
    BY <1>6 DEF OutError, HandlerTypes, OutPlaces, inVars
  <2>2. ConnTypes' /\ (rpc' # "done" => retryCount' < MaxRetry)
    BY <1>6, DisconnectTypes DEF OutError, ConnTypes
  <2> QED
    BY <1>6, <2>1, <2>2 DEF OutError
<1>7. CASE OutDrain(k)
  <2>1. Tail(sendChan) \in Seq(Reqs)
    BY <1>7, HeadTailProperties DEF OutDrain, HandlerTypes
  <2>2. HandlerTypes'
    BY <1>7, <2>1 DEF OutDrain, HandlerTypes, inVars, outVars
  <2> QED
    BY <1>7, <2>2 DEF OutDrain
<1>8. CASE OutExit(k)
  <2>1. HandlerTypes'
    BY <1>8 DEF OutExit, HandlerTypes, OutPlaces, inVars
  <2> QED
    BY <1>8, <2>1 DEF OutExit
<1> QED
  BY <1>1, <1>2, <1>3, <1>4, <1>5, <1>6, <1>7, <1>8 DEF Writer

LEMMA IssuerTypes == ASSUME TypeInv, NEW g \in Reqs, Issuer(g) PROVE TypeInv'
<1> USE Frame DEF TypeInv, TypeOK
<1>1. CASE AddRequest(g)
  <2>1. RequestTypes'
    BY <1>1 DEF AddRequest, RequestTypes
  <2>2. IssueTypes'
    BY <1>1 DEF AddRequest, IssueTypes, IssuePlaces
  <2>3. UNCHANGED <<connVars, reconVars, shutdown, sendChan, inVars, outVars, nodeVars>>
    BY <1>1 DEF AddRequest
  <2> QED
    BY <2>1, <2>2, <2>3
<1>2. CASE SendMessage(g)
  <2>1. IssueTypes'
    BY <1>2 DEF SendMessage, IssueTypes, IssuePlaces, ConnTypes
  <2> QED
    BY <1>2, <2>1 DEF SendMessage
<1>3. CASE SendQueues(g)
  <2>1. gmsg[g] \in Reqs
    BY DEF IssueTypes
  <2>2. sendChan' \in Seq(Reqs)
    BY <1>3, <2>1, AppendProperties DEF SendQueues, HandlerTypes
  <2>3. HandlerTypes'
    BY <1>3, <2>2 DEF SendQueues, HandlerTypes, inVars, outVars
  <2>4. IssueTypes'
    BY <1>3 DEF SendQueues, IssueTypes, IssuePlaces, AfterSend
  <2> QED
    BY <1>3, <2>3, <2>4 DEF SendQueues
<1>4. CASE SendGivesUp(g)
  <2>1. IssueTypes'
    BY <1>4 DEF SendGivesUp, IssueTypes, IssuePlaces, AfterSend
  <2> QED
    BY <1>4, <2>1 DEF SendGivesUp
<1>5. CASE Receive(g)
  <2>1. IssueTypes'
    BY <1>5 DEF Receive, IssueTypes, IssuePlaces
  <2>2. ConnTypes' /\ (rpc' # "done" => retryCount' < MaxRetry)
    BY <1>5, DisconnectTypes DEF Receive, ConnTypes
  <2>3. UNCHANGED <<requestVars, sendChan, inVars, outVars, nodeVars>>
    BY <1>5 DEF Receive
  <2> QED
    BY <2>1, <2>2, <2>3
<1>6. CASE g \in Conns /\ Reregister(g)
  <2>1. IssueTypes'
    BY <1>6 DEF Reregister, IssueTypes, IssuePlaces
  <2> QED
    BY <1>6, <2>1 DEF Reregister
<1>7. CASE g \in Conns /\ CopyRequests(g)
  <2>1. IssueTypes'
    BY <1>7 DEF CopyRequests, IssueTypes, IssuePlaces, RequestTypes
  <2> QED
    BY <1>7, <2>1 DEF CopyRequests
<1>8. CASE g \in Conns /\ Resend(g)
  <2>1. IssueTypes'
    BY <1>8 DEF Resend, IssueTypes, IssuePlaces
  <2> QED
    BY <1>8, <2>1 DEF Resend
<1> QED
  BY <1>1, <1>2, <1>3, <1>4, <1>5, <1>6, <1>7, <1>8 DEF Issuer

LEMMA ReconnectorTypes == ASSUME TypeInv, Reconnector PROVE TypeInv'
<1> USE Frame DEF TypeInv, TypeOK
<1>1. CASE ReconnectWakes
  BY <1>1 DEF ReconnectWakes, ConnTypes, connVars
<1>2. CASE ReconnectChecks
  BY <1>2 DEF ReconnectChecks, ConnTypes, connVars
<1>3. CASE DialFails
  BY <1>3 DEF DialFails, ConnTypes, connVars, GivesUp, MaxRetry
<1>4. CASE Dial
  <2>1. sock' \in Conns
    BY <1>4, BoundsAssumption DEF Dial, ConnTypes, Conns
  <2>2. ConnTypes' /\ retryCount' < MaxRetry
    BY <1>4, <2>1 DEF Dial, ConnTypes, MaxRetry
  <2> QED
    BY <1>4, <2>2 DEF Dial
<1>5. CASE Reset
  <2>1. sock \in Conns /\ sock \in Reqs
    BY ConnsFact DEF ConnTypes
  <2>2. ConnTypes' /\ (rpc' # "done" => retryCount' < MaxRetry)
    BY <1>5 DEF Reset, ConnTypes
  <2>3. HandlerTypes'
    BY <1>5, <2>1 DEF Reset, HandlerTypes, InPlaces, OutPlaces
  <2>4. IssueTypes'
    BY <1>5, <2>1 DEF Reset, IssueTypes, IssuePlaces
  <2> QED
    BY <1>5, <2>2, <2>3, <2>4 DEF Reset
<1> QED
  BY <1>1, <1>2, <1>3, <1>4, <1>5 DEF Reconnector

LEMMA TypeStep == ASSUME TypeInv, [Next]_vars PROVE TypeInv'
<1> USE Frame, OwnerFact DEF TypeInv, TypeOK
<1>1. ASSUME NEW k \in Conns, Break(k) PROVE TypeInv'
  <2>1. ConnTypes' /\ (rpc' # "done" => retryCount' < MaxRetry)
    BY <1>1 DEF Break, ConnTypes, reconVars
  <2> QED
    BY <1>1, <2>1 DEF Break
<1>2. ASSUME NEW k \in Conns, NEW r \in Reqs, Reply(k, r) PROVE TypeInv'
  <2>1. NodeTypes'
    BY <1>2 DEF Reply, NodeTypes
  <2> QED
    BY <1>2, <2>1 DEF Reply
<1>3. ASSUME NEW u \in Users, Begin(u) PROVE TypeInv'
  <2>1. IssueTypes'
    BY <1>3 DEF Begin, IssueTypes, IssuePlaces
  <2> QED
    BY <1>3, <2>1 DEF Begin
<1>4. CASE Watch
  <2>1. IssueTypes'
    BY <1>4 DEF Watch, IssueTypes, IssuePlaces
  <2> QED
    BY <1>4, <2>1 DEF Watch
<1>5. CASE Shutdown
  <2>1. IssueTypes'
    BY <1>5 DEF Shutdown, IssueTypes, IssuePlaces
  <2>2. RequestTypes'
    BY <1>5 DEF Shutdown, RequestTypes
  <2>3. ConnTypes' /\ (rpc' # "done" => retryCount' < MaxRetry)
    BY <1>5, DisconnectTypes DEF Shutdown
  <2> QED
    BY <1>5, <2>1, <2>2, <2>3 DEF Shutdown
<1>6. CASE UNCHANGED vars
  BY <1>6 DEF vars
<1> QED
  BY <1>1, <1>2, <1>3, <1>4, <1>5, <1>6, ReaderTypes, WriterTypes, IssuerTypes,
     ReconnectorTypes DEF Next

(* Every variable of the client keeps its type.                             *)
THEOREM TypeCorrect == Spec => []TypeOK
<1>1. TypeInv => TypeOK
  BY DEF TypeInv
<1> QED
  BY <1>1, TypeInit, TypeStep, PTL DEF Spec

-----------------------------------------------------------------------------
(* Why a request gets one answer.  A request is in one of four places: not  *)
(* yet issued, in the map, in the hands of one reader, answered.  It enters *)
(* the map once, since its goroutine never goes back to addRequest, and a   *)
(* connection's number is not used again.                                   *)
Unissued(g) == gpc[g] \in {None, "start", "call"}

Deliveries ==
    \A k \in Conns : ipc[k] = "deliver" =>
        /\ answers[imsg[k]] = 0
        /\ \A j \in Conns : ipc[j] = "deliver" /\ imsg[j] = imsg[k] => j = k

Fresh ==
    \A g \in Reqs : Unissued(g) =>
        g \notin requestMap /\ answers[g] = 0 /\ Delivering(g) = {}

ToMake(k) == k > sock \/ (rpc = "reset" /\ k = sock)

Unmade == \A k \in Conns : ToMake(k) => gpc[k] = None

AnswerInv == TypeInv /\ OneAnswer /\ Deliveries /\ Fresh /\ Unmade

(* Most steps leave the requests alone: no reader takes one, and no         *)
(* goroutine goes back to before it issued its own.                         *)
ReadersQuiet ==
    \A k \in Conns : ipc'[k] = "deliver" => ipc[k] = "deliver" /\ imsg'[k] = imsg[k]

LEMMA QuietStep ==
    ASSUME OneAnswer, Deliveries, Fresh,
           UNCHANGED <<answers, requestMap>>, ReadersQuiet,
           \A g \in Reqs : Unissued(g)' => Unissued(g)
    PROVE  OneAnswer' /\ Deliveries' /\ Fresh'
<1>1. ASSUME NEW r PROVE Delivering(r)' \subseteq Delivering(r)
  BY DEF Delivering, ReadersQuiet
<1>2. OneAnswer'
  BY <1>1 DEF OneAnswer
<1>3. Deliveries'
  BY DEF Deliveries, ReadersQuiet
<1>4. Fresh'
  BY <1>1 DEF Fresh
<1> QED
  BY <1>2, <1>3, <1>4

LEMMA UnmadeStep ==
    ASSUME Unmade, UNCHANGED sock, rpc' = "reset" => rpc = "reset",
           \A k \in Conns : gpc[k] = None => gpc'[k] = None
    PROVE  Unmade'
BY DEF Unmade, ToMake

LEMMA AnswerInit == Init => AnswerInv
<1> SUFFICES ASSUME Init PROVE AnswerInv
  OBVIOUS
<1>1. OneAnswer /\ Deliveries /\ Fresh
  <2>1. \A k \in Conns : ipc[k] # "deliver"
    BY DEF Init, None
  <2>2. requestMap = {} /\ \A r \in Reqs : answers[r] = 0
    BY DEF Init
  <2> QED
    BY <2>1, <2>2 DEF OneAnswer, Deliveries, Fresh, Delivering
<1>2. Unmade
  <2> SUFFICES ASSUME NEW k \in Conns PROVE gpc[k] = None
    BY DEF Unmade
  <2> QED
    BY ConnsFact, NamesAssumption DEF Init
<1> QED
  BY <1>1, <1>2, TypeInit DEF AnswerInv

LEMMA ReaderAnswers == ASSUME AnswerInv, NEW k \in Conns, Reader(k) PROVE AnswerInv'
<1> USE DEF AnswerInv
<1>1. TypeInv'
  BY ReaderTypes
<1>2. UNCHANGED <<gpc, sock, rpc>>
  BY DEF Reader, InTop, InRead, InError, RouteReply, Deliver, InExit, DoDisconnect,
         connVars, reconVars, issueVars
<1>3. Unmade'
  BY <1>2, UnmadeStep
<1>4. ipc \in [Conns -> InPlaces] /\ imsg \in [Conns -> Reqs] /\ imsg[k] \in Reqs
  BY DEF TypeInv, TypeOK, HandlerTypes
<1>5. CASE InTop(k) \/ InRead(k) \/ InError(k) \/ InExit(k)
  <2>1. UNCHANGED <<answers, requestMap>>
    BY <1>5 DEF InTop, InRead, InError, InExit, requestVars
  <2>2. ReadersQuiet
    BY <1>4, <1>5 DEF ReadersQuiet, InTop, InRead, InError, InExit, inVars
  <2> QED
    BY <1>1, <1>2, <1>3, <2>1, <2>2, QuietStep DEF Unissued
<1>6. CASE RouteReply(k) /\ imsg[k] \notin requestMap
  <2>1. UNCHANGED <<answers, requestMap>>
    BY <1>6 DEF RouteReply, Forgets
  <2>2. ReadersQuiet
    BY <1>4, <1>6 DEF ReadersQuiet, RouteReply
  <2> QED
    BY <1>1, <1>2, <1>3, <2>1, <2>2, QuietStep DEF Unissued
<1>7. CASE RouteReply(k) /\ imsg[k] \in requestMap
  <2>1. /\ requestMap' = requestMap \ {imsg[k]} /\ answers' = answers /\ imsg' = imsg
        /\ ipc' = [ipc EXCEPT ![k] = "deliver"]
    BY <1>7 DEF RouteReply, Forgets
  <2>2. Delivering(imsg[k]) = {} /\ answers[imsg[k]] = 0
    BY <1>4, <1>7 DEF OneAnswer
  <2>3. Delivering(imsg[k])' = {k}
    BY <1>4, <2>1, <2>2 DEF Delivering
  <2>4. \A r \in Reqs \ {imsg[k]} : Delivering(r)' = Delivering(r)
    BY <1>4, <1>7, <2>1 DEF Delivering, RouteReply
  <2>5. OneAnswer'
    BY <2>1, <2>4 DEF OneAnswer
  <2>6. Deliveries'
    <3>1. \A j \in Conns : ipc[j] = "deliver" => imsg[j] # imsg[k]
      BY <2>2 DEF Delivering
    <3>2. ipc'[k] = "deliver" /\ \A j \in Conns \ {k} : ipc'[j] = ipc[j]
      BY <1>4, <2>1
    <3> QED
      BY <2>1, <2>2, <3>1, <3>2 DEF Deliveries
  <2>7. Fresh'
    <3> SUFFICES ASSUME NEW g \in Reqs, Unissued(g)'
                 PROVE  g \notin requestMap' /\ answers'[g] = 0 /\ Delivering(g)' = {}
      BY DEF Fresh
    <3>1. Unissued(g)
      BY <1>2 DEF Unissued
    <3> QED
      BY <1>7, <2>1, <2>4, <3>1 DEF Fresh
  <2> QED
    BY <1>1, <1>3, <2>5, <2>6, <2>7
<1>8. CASE Deliver(k)
  <2>1. /\ requestMap' = requestMap /\ answers' = [answers EXCEPT ![imsg[k]] = @ + 1]
        /\ imsg' = imsg /\ ipc[k] = "deliver" /\ ipc' = [ipc EXCEPT ![k] = "top"]
    BY <1>8 DEF Deliver
  <2>2. Delivering(imsg[k]) = {k} /\ answers[imsg[k]] = 0
    BY <2>1 DEF Deliveries, Delivering
  <2>3. Delivering(imsg[k])' = {}
    BY <1>4, <2>1, <2>2 DEF Delivering
  <2>4. \A r \in Reqs \ {imsg[k]} : Delivering(r)' = Delivering(r)
    BY <1>4, <2>1 DEF Delivering
  <2>5. imsg[k] \notin requestMap
    BY <1>4, <2>2 DEF OneAnswer
  <2>6. /\ answers'[imsg[k]] = 1
        /\ \A r \in Reqs \ {imsg[k]} : answers'[r] = answers[r]
    BY <1>4, <2>1, <2>2 DEF TypeInv, TypeOK, RequestTypes
  <2>7. OneAnswer'
    BY <2>1, <2>3, <2>4, <2>5, <2>6 DEF OneAnswer
  <2>8. Deliveries'
    <3>1. \A j \in Conns : ipc'[j] = "deliver" => ipc[j] = "deliver" /\ j # k
      BY <1>4, <2>1
    <3>2. \A j \in Conns : ipc'[j] = "deliver" => imsg[j] \in Reqs \ {imsg[k]}
      BY <1>4, <2>1, <3>1 DEF Deliveries
    <3> QED
      BY <2>1, <2>6, <3>1, <3>2 DEF Deliveries
  <2>9. Fresh'
    <3> SUFFICES ASSUME NEW g \in Reqs, Unissued(g)'
                 PROVE  g \notin requestMap' /\ answers'[g] = 0 /\ Delivering(g)' = {}
      BY DEF Fresh
    <3>1. Unissued(g)
      BY <1>2 DEF Unissued
    <3>2. g # imsg[k]
      BY <2>2, <3>1 DEF Fresh
    <3> QED
      BY <2>1, <2>4, <2>6, <3>1, <3>2 DEF Fresh
  <2> QED
    BY <1>1, <1>3, <2>7, <2>8, <2>9
<1> QED
  BY <1>5, <1>6, <1>7, <1>8 DEF Reader

LEMMA WriterAnswers == ASSUME AnswerInv, NEW k \in Conns, Writer(k) PROVE AnswerInv'
<1> USE DEF AnswerInv
<1>1. UNCHANGED <<answers, requestMap, ipc, imsg, gpc, sock, rpc>>
  BY DEF Writer, OutTop, OutTake, OutStops, OutWrite, OutLost, OutError, OutDrain, OutExit,
         DoDisconnect, connVars, reconVars, requestVars, inVars, issueVars
<1> QED
  BY <1>1, WriterTypes, QuietStep, UnmadeStep DEF ReadersQuiet, Unissued

LEMMA IssuerAnswers == ASSUME AnswerInv, NEW g \in Reqs, Issuer(g) PROVE AnswerInv'
<1> USE DEF AnswerInv
<1>1. TypeInv'
  BY IssuerTypes
<1>2. UNCHANGED <<ipc, imsg, sock, rpc>>
  BY DEF Issuer, AddRequest, SendMessage, SendQueues, SendGivesUp, Receive, Reregister,
         CopyRequests, Resend, DoDisconnect, connVars, reconVars, inVars
<1>3. gpc \in [Reqs -> IssuePlaces]
  BY DEF TypeInv, TypeOK, IssueTypes
<1>4. gpc[g] # None /\ \A h \in Reqs \ {g} : gpc'[h] = gpc[h]
  BY <1>3 DEF Issuer, AddRequest, SendMessage, SendQueues, SendGivesUp, Receive, Reregister,
              CopyRequests, Resend, None
<1>5. Unmade'
  BY <1>2, <1>4, UnmadeStep, ConnsFact
<1>6. CASE ~AddRequest(g)
  <2>1. UNCHANGED <<answers, requestMap>>
    BY <1>6 DEF Issuer, SendMessage, SendQueues, SendGivesUp, Receive, Reregister,
                CopyRequests, Resend, requestVars
  <2>2. Unissued(g)' => Unissued(g)
    BY <1>3, <1>6 DEF Issuer, SendMessage, SendQueues, SendGivesUp, Receive, Reregister,
                      CopyRequests, Resend, AfterSend, Unissued, None
  <2> QED
    BY <1>1, <1>2, <1>4, <1>5, <2>1, <2>2, QuietStep DEF ReadersQuiet, Unissued
<1>7. CASE AddRequest(g)
  <2>1. gpc[g] = "call" /\ gpc'[g] \in {"receive", "message"}
    BY <1>3, <1>7 DEF AddRequest
  <2>2. g \notin requestMap /\ answers[g] = 0 /\ Delivering(g) = {}
    BY <2>1 DEF Fresh, Unissued
  <2>3. ~Unissued(g)' /\ \A h \in Reqs \ {g} : Unissued(h)' = Unissued(h)
    BY <1>4, <2>1 DEF Unissued, None
  <2>4. \A r \in Reqs : Delivering(r)' = Delivering(r)
    BY <1>2 DEF Delivering
  <2>5. answers \in [Reqs -> Nat]
    BY DEF TypeInv, TypeOK, RequestTypes
  <2>6. /\ \A r \in Reqs \ {g} : answers'[r] = answers[r]
        /\ requestMap' \ {g} = requestMap
        /\ answers'[g] \in {0, 1} /\ (g \in requestMap' => answers'[g] = 0)
    BY <1>7, <2>2, <2>5 DEF AddRequest
  <2>7. OneAnswer'
    BY <2>2, <2>4, <2>6 DEF OneAnswer
  <2>8. Deliveries'
    <3>1. \A k \in Conns : ipc[k] = "deliver" => imsg[k] \in Reqs \ {g}
      BY <2>2 DEF Delivering, TypeInv, TypeOK, HandlerTypes
    <3> QED
      BY <1>2, <2>6, <3>1 DEF Deliveries
  <2>9. Fresh'
    BY <2>3, <2>4, <2>6 DEF Fresh
  <2> QED
    BY <1>1, <1>5, <2>7, <2>8, <2>9
<1> QED
  BY <1>6, <1>7

LEMMA ReconnectorAnswers == ASSUME AnswerInv, Reconnector PROVE AnswerInv'
<1> USE DEF AnswerInv
<1>1. TypeInv'
  BY ReconnectorTypes
<1>2. UNCHANGED <<answers, requestMap, imsg>>
  BY DEF Reconnector, ReconnectWakes, ReconnectChecks, DialFails, Dial, Reset, requestVars, inVars
<1>3. CASE ReconnectWakes \/ ReconnectChecks \/ DialFails
  <2>1. UNCHANGED <<ipc, gpc, sock>> /\ rpc' # "reset"
    BY <1>3 DEF ReconnectWakes, ReconnectChecks, DialFails, connVars, inVars, issueVars
  <2> QED
    BY <1>1, <1>2, <2>1, QuietStep, UnmadeStep DEF ReadersQuiet, Unissued
<1>4. CASE Dial
  <2>1. UNCHANGED <<ipc, gpc>>
    BY <1>4 DEF Dial, inVars, issueVars
  <2>2. Unmade'
    <3> SUFFICES ASSUME NEW k \in Conns, k > sock \/ k = sock + 1 PROVE gpc[k] = None
      BY <1>4, <2>1, ConnsFact DEF Unmade, ToMake, Dial, TypeInv, TypeOK, ConnTypes, Conns
    <3>1. k > sock
      BY ConnsFact DEF TypeInv, TypeOK, ConnTypes
    <3> QED
      BY <3>1 DEF Unmade, ToMake
  <2> QED
    BY <1>1, <1>2, <2>1, <2>2, QuietStep DEF ReadersQuiet, Unissued
<1>5. CASE Reset
  <2>1. sock \in Conns /\ sock \in Reqs /\ gpc[sock] = None
    BY <1>5, ConnsFact DEF Reset, Unmade, ToMake, TypeInv, TypeOK, ConnTypes
  <2>2. ReadersQuiet
    BY <1>5, <2>1 DEF Reset, ReadersQuiet, TypeInv, TypeOK, HandlerTypes
  <2>3. \A g \in Reqs \ {sock} : gpc'[g] = gpc[g]
    BY <1>5 DEF Reset, TypeInv, TypeOK, IssueTypes
  <2>4. Unissued(sock)
    BY <2>1 DEF Unissued
  <2>5. \A g \in Reqs : Unissued(g)' => Unissued(g)
    BY <2>3, <2>4 DEF Unissued
  <2>6. Unmade'
    <3> SUFFICES ASSUME NEW k \in Conns, k > sock PROVE gpc'[k] = None
      BY <1>5 DEF Unmade, ToMake, Reset
    <3>1. k # sock /\ k \in Reqs
      BY <2>1, ConnsFact
    <3> QED
      BY <2>3, <3>1 DEF Unmade, ToMake
  <2> QED
    BY <1>1, <1>2, <2>2, <2>5, <2>6, QuietStep
<1> QED
  BY <1>3, <1>4, <1>5 DEF Reconnector

LEMMA AnswerStep == ASSUME AnswerInv, [Next]_vars PROVE AnswerInv'
<1> USE DEF AnswerInv
<1>1. TypeInv'
  BY TypeStep
<1>2. gpc \in [Reqs -> IssuePlaces] /\ Owner \notin Conns
  BY NamesAssumption DEF TypeInv, TypeOK, IssueTypes, Conns
<1>3. ASSUME NEW k \in Conns, Break(k) \/ \E r \in Reqs : Reply(k, r) PROVE AnswerInv'
  <2>1. UNCHANGED <<answers, requestMap, ipc, imsg, gpc, sock, rpc>>
    BY <1>3 DEF Break, Reply, connVars, reconVars, requestVars, inVars, issueVars
  <2> QED
    BY <1>1, <2>1, QuietStep, UnmadeStep DEF ReadersQuiet, Unissued
<1>4. ASSUME NEW u \in Users, Begin(u) PROVE AnswerInv'
  <2>1. UNCHANGED <<answers, requestMap, ipc, imsg, sock, rpc>>
    BY <1>4 DEF Begin, connVars, reconVars, requestVars, inVars
  <2>2. u \notin Conns /\ Unissued(u) /\ \A g \in Reqs \ {u} : gpc'[g] = gpc[g]
    BY <1>2, <1>4, NamesAssumption DEF Begin, Unissued, Conns
  <2>3. Unmade'
    BY <2>1, <2>2, UnmadeStep, ConnsFact
  <2> QED
    BY <1>1, <2>1, <2>2, <2>3, QuietStep DEF ReadersQuiet, Unissued
<1>5. CASE Watch
  <2>1. UNCHANGED <<answers, requestMap, ipc, imsg, sock, rpc>>
    BY <1>5 DEF Watch, connVars, reconVars, requestVars, inVars
  <2>2. ~Unissued(Owner)' /\ \A g \in Reqs \ {Owner} : gpc'[g] = gpc[g]
    BY <1>2, <1>5, OwnerFact DEF Watch, Unissued, None
  <2>3. Unmade'
    BY <1>2, <2>1, <2>2, UnmadeStep, ConnsFact
  <2> QED
    BY <1>1, <2>1, <2>2, <2>3, QuietStep DEF ReadersQuiet, Unissued
<1>6. CASE Shutdown
  <2>1. UNCHANGED <<ipc, imsg, sock, rpc>>
    BY <1>6 DEF Shutdown, DoDisconnect, reconVars, inVars
  <2>2. ~Unissued(Owner)' /\ \A g \in Reqs \ {Owner} : gpc'[g] = gpc[g]
    BY <1>2, <1>6, OwnerFact DEF Shutdown, Unissued, None
  <2>3. Unmade'
    BY <1>2, <2>1, <2>2, UnmadeStep, ConnsFact
  <2>4. \A r \in Reqs : Delivering(r)' = Delivering(r)
    BY <2>1 DEF Delivering
  <2>5. /\ requestMap' = {}
        /\ \A r \in Reqs : r \in requestMap => answers[r] = 0 /\ answers'[r] = 1
        /\ \A r \in Reqs : r \notin requestMap => answers'[r] = answers[r]
    BY <1>6 DEF Shutdown, OneAnswer
  <2>6. OneAnswer'
    BY <2>5 DEF OneAnswer
  <2>7. Deliveries'
    <3>1. \A k \in Conns : ipc[k] = "deliver" => imsg[k] \in Reqs \ requestMap
      BY DEF OneAnswer, Delivering, TypeInv, TypeOK, HandlerTypes
    <3> QED
      BY <2>1, <2>5, <3>1 DEF Deliveries
  <2>8. Fresh'
    BY <2>2, <2>4, <2>5 DEF Fresh, Unissued
  <2> QED
    BY <1>1, <2>3, <2>6, <2>7, <2>8
<1>7. CASE UNCHANGED vars
  <2>1. UNCHANGED <<answers, requestMap, ipc, imsg, gpc, sock, rpc>>
    BY <1>7 DEF vars, connVars, reconVars, requestVars, inVars, issueVars
  <2> QED
    BY <1>1, <2>1, QuietStep, UnmadeStep DEF ReadersQuiet, Unissued
<1> QED
  BY <1>3, <1>4, <1>5, <1>6, <1>7, ReaderAnswers, WriterAnswers, IssuerAnswers,
     ReconnectorAnswers DEF Next

(* However often a request is sent and the node answers it, and whatever    *)
(* the shutdown answers itself, its channel of capacity one gets at most    *)
(* one answer, so neither a reader nor Shutdown blocks on it.               *)
THEOREM AtMostOneAnswer == Spec => []OneAnswer
<1>1. AnswerInv => OneAnswer
  BY DEF AnswerInv
<1> QED
  BY <1>1, AnswerInit, AnswerStep, PTL DEF Spec

-----------------------------------------------------------------------------
(* addRequest looks at the shutdown under the lock that empties the map,    *)
(* and nothing takes the shutdown back.                                     *)
THEOREM ShutdownEmptiesMap == Spec => []NothingWaitsAfterShutdown
<1>1. Init => NothingWaitsAfterShutdown
  BY DEF Init, NothingWaitsAfterShutdown
<1>2. ASSUME NothingWaitsAfterShutdown, [Next]_vars PROVE NothingWaitsAfterShutdown'
  <2> USE DEF NothingWaitsAfterShutdown
  <2>1. ASSUME NEW k \in Conns, Break(k) \/ Writer(k) \/ \E r \in Reqs : Reply(k, r)
        PROVE  UNCHANGED <<shutdown, requestMap>>
    BY <2>1 DEF Break, Reply, Writer, OutTop, OutTake, OutStops, OutWrite, OutLost, OutError,
                OutDrain, OutExit, requestVars
  <2>2. ASSUME NEW k \in Conns, Reader(k)
        PROVE  UNCHANGED shutdown /\ requestMap' \subseteq requestMap
    BY <2>2 DEF Reader, InTop, InRead, InError, RouteReply, Forgets, Deliver, InExit, requestVars
  <2>3. ASSUME NEW g \in Reqs, Issuer(g)
        PROVE  UNCHANGED shutdown /\ (shutdown => UNCHANGED requestMap)
    BY <2>3 DEF Issuer, AddRequest, Refuses, SendMessage, SendQueues, SendGivesUp, Receive,
                Reregister, CopyRequests, Resend, requestVars
  <2>4. ASSUME NEW u \in Users, Begin(u) PROVE UNCHANGED <<shutdown, requestMap>>
    BY <2>4 DEF Begin, requestVars
  <2>5. Reconnector \/ Watch => UNCHANGED <<shutdown, requestMap>>
    BY DEF Reconnector, ReconnectWakes, ReconnectChecks, DialFails, Dial, Reset, Watch,
           requestVars
  <2>6. Shutdown => requestMap' = {}
    BY DEF Shutdown
  <2>7. UNCHANGED vars => UNCHANGED <<shutdown, requestMap>>
    BY DEF vars, requestVars
  <2> QED
    BY <1>2, <2>1, <2>2, <2>3, <2>4, <2>5, <2>6, <2>7 DEF Next
<1> QED
  BY <1>1, <1>2, PTL DEF Spec

-----------------------------------------------------------------------------
(* A client that is not disconnected is served: its connection has not been *)
(* closed, and the reader and the writer of that connection run, so that    *)
(* whoever waits for room in sendChan, or for an answer, has a partner.     *)
WriterRuns == opc[gen] \in {"top", "select", "write"}
ReaderRuns == ipc[gen] \in {"top", "read", "route", "deliver", "disconnect"}

ConnectedIsServed ==
    ~disconnected => sock = gen /\ socket[sock] \in {"up", "broken"} /\ WriterRuns /\ ReaderRuns

(* The reconnect handler works on the next connection only while the client *)
(* is disconnected; what it has not started is not there yet; and a writer  *)
(* has the channel of its own connection or of a later one.                 *)
TurnInv ==
    /\ rpc \in {"check", "dial", "reset"} => disconnected
    /\ rpc = "reset" => sock = gen + 1 /\ socket[sock] \in {"up", "broken"}
    /\ rpc # "reset" => sock = gen
    /\ \A k \in Conns : k > gen => opc[k] = None /\ ipc[k] = None
    /\ \A k \in Conns : ogen[k] >= k
    /\ ConnectedIsServed

LEMMA TurnInit == Init => TurnInv
<1> SUFFICES ASSUME Init PROVE TurnInv
  OBVIOUS
<1>1. /\ sock = 1 /\ gen = 1 /\ rpc = "wait" /\ socket[1] = "up"
      /\ opc[1] = "top" /\ ipc[1] = "top"
  BY ConnsFact DEF Init
<1>2. \A k \in Conns : k \in Nat /\ ogen[k] = k /\ (k # 1 => opc[k] = None /\ ipc[k] = None)
  BY ConnsFact DEF Init
<1> QED
  BY <1>1, <1>2 DEF TurnInv, ConnectedIsServed, WriterRuns, ReaderRuns

(* Whoever does not make a connection can only close the present one.       *)
LEMMA TurnKept ==
    ASSUME TypeInv, TurnInv, DoDisconnect \/ UNCHANGED connVars, UNCHANGED rpc,
           \A k \in Conns : opc[k] = None => opc'[k] = None,
           \A k \in Conns : ipc[k] = None => ipc'[k] = None,
           \A k \in Conns : ogen'[k] >= k,
           ~disconnected' => WriterRuns' /\ ReaderRuns'
    PROVE  TurnInv'
<1> USE DEF TurnInv
<1>1. UNCHANGED <<sock, gen>> /\ (disconnected => disconnected')
  BY DEF DoDisconnect, connVars
<1>2. disconnected => socket' = socket
  BY DEF DoDisconnect, connVars
<1>3. ~disconnected' => ~disconnected /\ socket' = socket
  BY DEF DoDisconnect, connVars
<1>4. ConnectedIsServed'
  BY <1>1, <1>3 DEF ConnectedIsServed
<1>5. /\ (rpc \in {"check", "dial", "reset"} => disconnected)'
      /\ (rpc = "reset" => sock = gen + 1 /\ socket[sock] \in {"up", "broken"})'
      /\ (rpc # "reset" => sock = gen)'
  BY <1>1, <1>2
<1>6. (\A k \in Conns : k > gen => opc[k] = None /\ ipc[k] = None)'
  BY <1>1
<1> QED
  BY <1>4, <1>5, <1>6

LEMMA ReaderTurns == ASSUME TypeInv, TurnInv, NEW k \in Conns, Reader(k) PROVE TurnInv'
<1>1. ipc \in [Conns -> InPlaces] /\ gen \in Conns
  BY DEF TypeInv, TypeOK, HandlerTypes, ConnTypes
<1>2. UNCHANGED <<rpc, opc, ogen>> /\ (DoDisconnect \/ UNCHANGED connVars)
  BY DEF Reader, InTop, InRead, InError, RouteReply, Deliver, InExit, reconVars, outVars
<1>3. /\ ipc[k] # None
      /\ InExit(k) \/ ipc'[k] \in {"top", "read", "route", "deliver", "disconnect"}
      /\ \A j \in Conns \ {k} : ipc'[j] = ipc[j]
  BY <1>1 DEF Reader, InTop, InRead, InError, RouteReply, Deliver, InExit, None
<1>4. UNCHANGED gen /\ (~disconnected' => ~InExit(k) /\ ~disconnected)
  BY <1>2 DEF InExit, DoDisconnect, connVars
<1>5. ~disconnected' => WriterRuns' /\ ReaderRuns'
  BY <1>1, <1>2, <1>3, <1>4 DEF TurnInv, ConnectedIsServed, WriterRuns, ReaderRuns
<1>6. \A j \in Conns : (opc[j] = None => opc'[j] = None) /\ (ipc[j] = None => ipc'[j] = None)
                        /\ ogen'[j] >= j
  BY <1>2, <1>3 DEF TurnInv
<1> QED
  BY <1>2, <1>5, <1>6, TurnKept

LEMMA WriterTurns == ASSUME TypeInv, TurnInv, NEW k \in Conns, Writer(k) PROVE TurnInv'
<1>1. /\ opc \in [Conns -> OutPlaces] /\ ogen \in [Conns -> Conns] /\ gen \in Conns
      /\ \A j \in Conns : j \in Nat
  BY ConnsFact DEF TypeInv, TypeOK, HandlerTypes, ConnTypes
<1>2. UNCHANGED <<rpc, ipc>> /\ (DoDisconnect \/ UNCHANGED connVars)
  BY DEF Writer, OutTop, OutTake, OutStops, OutWrite, OutLost, OutError, OutDrain, OutExit,
         reconVars, inVars
<1>3. UNCHANGED gen /\ (~disconnected' => ~disconnected /\ ~OutError(k))
  BY <1>2 DEF OutError, DoDisconnect, connVars
<1>4. opc[k] # None /\ \A j \in Conns \ {k} : opc'[j] = opc[j] /\ ogen'[j] = ogen[j]
  <2>1. opc[k] # None /\ \A j \in Conns \ {k} : opc'[j] = opc[j]
    BY <1>1 DEF Writer, OutTop, OutTake, OutStops, OutWrite, OutLost, OutError, OutDrain,
                OutExit, None, outVars
  <2>2. ogen' = [ogen EXCEPT ![k] = gen] \/ ogen' = ogen
    BY DEF Writer, OutTop, OutTake, OutStops, OutWrite, OutLost, OutError, OutDrain, OutExit,
           outVars
  <2> QED BY <1>1, <2>1, <2>2
<1>5. k <= gen
  BY <1>1, <1>4 DEF TurnInv
<1>6. ogen'[k] = ogen[k] \/ ogen'[k] = gen
  BY <1>1 DEF Writer, OutTop, OutTake, OutStops, OutWrite, OutLost, OutError, OutDrain, OutExit,
              outVars
<1>7. \A j \in Conns : ogen'[j] >= j
  BY <1>1, <1>4, <1>5, <1>6 DEF TurnInv
<1>8. ASSUME ~disconnected' PROVE WriterRuns'
  <2>1. opc[gen] \in {"top", "select", "write"} /\ ~disconnected /\ gen' = gen
    BY <1>3, <1>8 DEF TurnInv, ConnectedIsServed, WriterRuns
  <2>2. CASE k # gen
    BY <1>1, <1>4, <2>1, <2>2 DEF WriterRuns
  <2>3. CASE k = gen
    <3>1. ~OutStops(k) /\ ~OutDrain(k) /\ ~OutExit(k) /\ ~OutError(k)
      BY <1>1, <1>3, <1>8, <2>1, <2>3 DEF TurnInv, OutStops, OutDrain, OutExit, Closed
    <3>2. opc'[k] \in {"top", "select", "write"}
      BY <1>1, <3>1 DEF Writer, OutTop, OutTake, OutWrite, OutLost
    <3> QED BY <2>1, <2>3, <3>2 DEF WriterRuns
  <2> QED BY <2>2, <2>3
<1>9. ~disconnected' => WriterRuns' /\ ReaderRuns'
  BY <1>2, <1>3, <1>8 DEF TurnInv, ConnectedIsServed, ReaderRuns
<1>10. \A j \in Conns : (opc[j] = None => opc'[j] = None) /\ (ipc[j] = None => ipc'[j] = None)
  BY <1>2, <1>4
<1> QED
  BY <1>2, <1>7, <1>9, <1>10, TurnKept

LEMMA ReconnectorTurns == ASSUME TypeInv, TurnInv, Reconnector PROVE TurnInv'
<1>1. /\ sock \in Conns /\ gen \in Conns /\ \A k \in Conns : k \in Nat
      /\ opc \in [Conns -> OutPlaces] /\ ipc \in [Conns -> InPlaces]
      /\ socket \in [Conns -> {None, "up", "broken", "closed"}]
  BY ConnsFact DEF TypeInv, TypeOK, HandlerTypes, ConnTypes
<1>2. CASE ReconnectWakes \/ ReconnectChecks \/ DialFails
  <2>1. UNCHANGED <<connVars, opc, ipc, ogen>>
    BY <1>2 DEF ReconnectWakes, ReconnectChecks, DialFails, inVars, outVars
  <2>2. rpc # "reset" /\ rpc' # "reset" /\ (rpc' \in {"check", "dial"} => disconnected)
    BY <1>2 DEF ReconnectWakes, ReconnectChecks, DialFails, TurnInv
  <2>3. ConnectedIsServed'
    BY <2>1 DEF TurnInv, ConnectedIsServed, WriterRuns, ReaderRuns, connVars
  <2> QED BY <2>1, <2>2, <2>3 DEF TurnInv, connVars
<1>3. CASE Dial
  <2>1. /\ sock = gen /\ disconnected /\ sock' = sock + 1 /\ rpc' = "reset"
        /\ UNCHANGED <<gen, disconnected, opc, ipc, ogen>> /\ sock < MaxConn
        /\ socket' = [socket EXCEPT ![sock'] = "up"]
    BY <1>3 DEF Dial, TurnInv, inVars, outVars
  <2>2. sock' \in Conns
    BY <1>1, <2>1, BoundsAssumption DEF Conns
  <2>3. socket'[sock'] = "up"
    BY <1>1, <2>1, <2>2
  <2>4. ConnectedIsServed'
    BY <2>1 DEF ConnectedIsServed
  <2> QED BY <2>1, <2>3, <2>4 DEF TurnInv
<1>4. CASE Reset
  <2>1. /\ sock = gen + 1 /\ socket[sock] \in {"up", "broken"}
        /\ gen' = sock /\ UNCHANGED <<sock, socket, ogen>> /\ rpc' = "wait"
        /\ ipc' = [ipc EXCEPT ![sock] = "top"] /\ opc' = [opc EXCEPT ![sock] = "top"]
    BY <1>4 DEF Reset, TurnInv
  <2>2. ipc'[sock] = "top" /\ opc'[sock] = "top"
    BY <1>1, <2>1
  <2>3. ConnectedIsServed'
    BY <2>1, <2>2 DEF ConnectedIsServed, WriterRuns, ReaderRuns
  <2>4. \A k \in Conns : k > gen' => opc'[k] = None /\ ipc'[k] = None
    <3> SUFFICES ASSUME NEW k \in Conns, k > gen' PROVE opc'[k] = None /\ ipc'[k] = None
      OBVIOUS
    <3>1. k > gen /\ k # sock
      BY <1>1, <2>1
    <3> QED BY <2>1, <3>1 DEF TurnInv
  <2> QED BY <2>1, <2>3, <2>4 DEF TurnInv
<1> QED
  BY <1>2, <1>3, <1>4 DEF Reconnector

LEMMA TurnStep == ASSUME TypeInv, TurnInv, [Next]_vars PROVE TurnInv'
<1>1. ASSUME UNCHANGED <<opc, ipc, ogen, rpc>>, DoDisconnect \/ UNCHANGED connVars
      PROVE  TurnInv'
  <2>1. ~disconnected' => ~disconnected /\ gen' = gen
    BY <1>1 DEF DoDisconnect, connVars
  <2>2. ~disconnected' => WriterRuns' /\ ReaderRuns'
    BY <1>1, <2>1 DEF TurnInv, ConnectedIsServed, WriterRuns, ReaderRuns
  <2> QED BY <1>1, <2>2, TurnKept DEF TurnInv
<1>2. ASSUME NEW k \in Conns, Break(k) PROVE TurnInv'
  <2>1. /\ UNCHANGED <<sock, gen, disconnected, opc, ipc, ogen, rpc>>
        /\ socket' = [socket EXCEPT ![k] = "broken"]
    BY <1>2 DEF Break, reconVars, inVars, outVars
  <2>2. socket[sock] \in {"up", "broken"} => socket'[sock] \in {"up", "broken"}
    BY <2>1 DEF TypeInv, TypeOK, ConnTypes
  <2> QED BY <2>1, <2>2 DEF TurnInv, ConnectedIsServed, WriterRuns, ReaderRuns
<1>3. ASSUME NEW k \in Conns, NEW r \in Reqs, Reply(k, r) PROVE TurnInv'
  BY <1>1, <1>3 DEF Reply, reconVars, inVars, outVars
<1>4. ASSUME NEW g \in Reqs, Issuer(g) PROVE TurnInv'
  <2>1. UNCHANGED <<opc, ipc, ogen, rpc>> /\ (DoDisconnect \/ UNCHANGED connVars)
    BY <1>4 DEF Issuer, AddRequest, SendMessage, SendQueues, SendGivesUp, Receive, Reregister,
                CopyRequests, Resend, reconVars, inVars, outVars
  <2> QED BY <1>1, <2>1
<1>5. ASSUME NEW u \in Users, Begin(u) PROVE TurnInv'
  BY <1>1, <1>5 DEF Begin, reconVars, inVars, outVars
<1>6. CASE Watch \/ Shutdown \/ UNCHANGED vars
  BY <1>1, <1>6 DEF Watch, Shutdown, vars, reconVars, inVars, outVars
<1> QED
  BY <1>2, <1>3, <1>4, <1>5, <1>6, ReaderTurns, WriterTurns, ReconnectorTurns DEF Next

(* As long as the client is not disconnected its connection has not been    *)
(* closed by whoever left an older one, and its reader and writer run: the  *)
(* select of sendMessage has a writer to take the message, or the closed    *)
(* disconnect channel to give up on (client.go:612-619, 664-684, 773-880).  *)
THEOREM ConnectedAlwaysServed == Spec => []ConnectedIsServed
<1>1. TypeInv /\ TurnInv => ConnectedIsServed
  BY DEF TurnInv
<1> QED
  BY <1>1, TypeInit, TypeStep, TurnInit, TurnStep, PTL DEF Spec

-----------------------------------------------------------------------------
(* Nobody is forgotten.  Whoever waits for an answer has one, or a reader   *)
(* is about to deliver it, or the request is in the map, from where the     *)
(* shutdown answers it if nothing else does.  A goroutine that sends        *)
(* waiting requests again is past its own, which is not among them.         *)
Waits(g) == gpc[g] = "receive" \/ (gpc[g] \in {"message", "send"} /\ gmsg[g] = g)

NobodyForgotten ==
    \A g \in Reqs : Waits(g) =>
        (g \in requestMap /\ ~shutdown) \/ Delivering(g) # {} \/ answers[g] = 1

Kept(r) == r \in requestMap \/ Delivering(r) # {} \/ answers[r] > 0

SendsOthers(k) ==
    gpc[k] \in {"copy", "resend"} \/ (gpc[k] \in {"message", "send"} /\ gmsg[k] # k)

PastOwn ==
    \A k \in Conns :
        /\ k \notin copy[k]
        /\ Unissued(k) => gmsg[k] = k
        /\ SendsOthers(k) => k \notin requestMap

WaitInv == (\A g \in Reqs : Waits(g) => Kept(g)) /\ PastOwn

(* What a reader has taken out of the map stays with it until it delivers.  *)
LEMMA StaysKept ==
    ASSUME NEW r, Kept(r), requestMap \subseteq requestMap', UNCHANGED answers,
           \A k \in Conns : ipc[k] = "deliver" => ipc'[k] = "deliver" /\ imsg'[k] = imsg[k]
    PROVE  Kept(r)'
BY DEF Kept, Delivering

LEMMA ReaderKeeps ==
    ASSUME TypeInv, NEW k \in Conns, Reader(k), NEW r \in Reqs, Kept(r)
    PROVE  Kept(r)'
<1>1. /\ ipc \in [Conns -> InPlaces] /\ imsg \in [Conns -> Reqs]
      /\ answers \in [Reqs -> Nat]
  BY DEF TypeInv, TypeOK, HandlerTypes, RequestTypes
<1>2. CASE InTop(k) \/ InRead(k) \/ InError(k) \/ InExit(k)
  <2>1. UNCHANGED <<answers, requestMap>>
    BY <1>2 DEF InTop, InRead, InError, InExit, requestVars
  <2>2. \A j \in Conns : ipc[j] = "deliver" => ipc'[j] = "deliver" /\ imsg'[j] = imsg[j]
    BY <1>1, <1>2 DEF InTop, InRead, InError, InExit, inVars
  <2> QED BY <2>1, <2>2, StaysKept
<1>3. CASE RouteReply(k)
  <2>1. /\ requestMap' = requestMap \ {imsg[k]} /\ UNCHANGED <<answers, imsg>>
        /\ ipc[k] = "route"
        /\ ipc' = [ipc EXCEPT ![k] = IF imsg[k] \in requestMap THEN "deliver" ELSE "top"]
    BY <1>3 DEF RouteReply, Forgets
  <2>2. CASE imsg[k] = r /\ r \in requestMap
    <3>1. ipc'[k] = "deliver" /\ imsg'[k] = r
      BY <1>1, <2>1, <2>2
    <3> QED BY <3>1 DEF Kept, Delivering
  <2>3. CASE ~(imsg[k] = r /\ r \in requestMap)
    <3>1. r \in requestMap => r \in requestMap'
      BY <2>1, <2>3
    <3>2. Delivering(r) \subseteq Delivering(r)'
      BY <1>1, <2>1 DEF Delivering
    <3> QED BY <2>1, <3>1, <3>2 DEF Kept
  <2> QED BY <2>2, <2>3
<1>4. CASE Deliver(k)
  <2>1. /\ UNCHANGED <<requestMap, imsg>> /\ ipc' = [ipc EXCEPT ![k] = "top"]
        /\ answers' = [answers EXCEPT ![imsg[k]] = @ + 1]
    BY <1>4 DEF Deliver
  <2>2. CASE imsg[k] = r
    <3>1. answers'[r] = answers[r] + 1 /\ answers[r] \in Nat
      BY <1>1, <2>1, <2>2
    <3> QED BY <3>1 DEF Kept
  <2>3. CASE imsg[k] # r
    <3>1. answers'[r] = answers[r]
      BY <1>1, <2>1, <2>3
    <3>2. Delivering(r) \subseteq Delivering(r)'
      BY <1>1, <2>1, <2>3 DEF Delivering
    <3> QED BY <2>1, <3>1, <3>2 DEF Kept
  <2> QED BY <2>2, <2>3
<1> QED
  BY <1>2, <1>3, <1>4 DEF Reader

LEMMA KeptStep ==
    ASSUME TypeInv, TurnInv, [Next]_vars, NEW r \in Reqs, Kept(r)
    PROVE  Kept(r)'
<1>1. /\ ipc \in [Conns -> InPlaces] /\ answers \in [Reqs -> Nat]
      /\ sock \in Conns /\ gen \in Nat
  BY ConnsFact DEF TypeInv, TypeOK, HandlerTypes, RequestTypes, ConnTypes
<1>2. CASE UNCHANGED <<requestMap, answers, ipc, imsg>>
  BY <1>2, StaysKept
<1>3. CASE \E g \in Reqs : AddRequest(g)
  <2>1. PICK g \in Reqs : AddRequest(g)
    BY <1>3
  <2>2. requestMap \subseteq requestMap' /\ UNCHANGED <<ipc, imsg>>
    BY <2>1 DEF AddRequest, inVars
  <2>3. answers[r] > 0 => answers'[r] > 0
    BY <1>1, <2>1 DEF AddRequest
  <2> QED BY <2>2, <2>3 DEF Kept, Delivering
<1>4. CASE Shutdown
  <2>1. UNCHANGED <<ipc, imsg>> /\ (r \in requestMap \/ answers[r] > 0 => answers'[r] > 0)
    BY <1>1, <1>4 DEF Shutdown, inVars
  <2> QED BY <2>1 DEF Kept, Delivering
<1>5. CASE Reset
  <2>1. UNCHANGED <<requestMap, answers, imsg>> /\ ipc' = [ipc EXCEPT ![sock] = "top"]
    BY <1>5 DEF Reset, requestVars
  <2>2. ipc[sock] = None
    BY <1>1, <1>5 DEF Reset, TurnInv
  <2>3. \A k \in Conns : ipc[k] = "deliver" => ipc'[k] = "deliver" /\ imsg'[k] = imsg[k]
    BY <1>1, <2>1, <2>2 DEF None
  <2> QED BY <2>1, <2>3, StaysKept
<1>6. CASE \E k \in Conns : Reader(k)
  BY <1>6, ReaderKeeps
<1>7. ASSUME NEW k \in Conns, Break(k) \/ Writer(k) \/ \E q \in Reqs : Reply(k, q)
      PROVE  UNCHANGED <<requestMap, answers, ipc, imsg>>
  BY <1>7 DEF Break, Reply, Writer, OutTop, OutTake, OutStops, OutWrite, OutLost, OutError,
              OutDrain, OutExit, requestVars, inVars
<1>8. ASSUME NEW g \in Reqs, Issuer(g), ~AddRequest(g)
      PROVE  UNCHANGED <<requestMap, answers, ipc, imsg>>
  BY <1>8 DEF Issuer, SendMessage, SendQueues, SendGivesUp, Receive, Reregister, CopyRequests,
              Resend, requestVars, inVars
<1>9. ASSUME NEW u \in Users, Begin(u) PROVE UNCHANGED <<requestMap, answers, ipc, imsg>>
  BY <1>9 DEF Begin, requestVars, inVars
<1>10. ReconnectWakes \/ ReconnectChecks \/ DialFails \/ Dial \/ Watch \/ UNCHANGED vars
           => UNCHANGED <<requestMap, answers, ipc, imsg>>
  BY DEF ReconnectWakes, ReconnectChecks, DialFails, Dial, Watch, vars, requestVars, inVars
<1> QED
  BY <1>2, <1>3, <1>4, <1>5, <1>6, <1>7, <1>8, <1>9, <1>10 DEF Next, Reconnector

(* Who begins to wait has put the request into the map, or has the refusal. *)
LEMMA WaitsStep ==
    ASSUME TypeInv, PastOwn, [Next]_vars, NEW g \in Reqs, Waits(g)', ~Waits(g)
    PROVE  Kept(g)'
<1>1. /\ gpc \in [Reqs -> IssuePlaces] /\ gmsg \in [Reqs -> Reqs]
      /\ answers \in [Reqs -> Nat] /\ sock \in Reqs
  BY ConnsFact DEF TypeInv, TypeOK, IssueTypes, RequestTypes, ConnTypes
<1>2. gpc'[g] # gpc[g] \/ gmsg'[g] # gmsg[g]
  BY DEF Waits
<1>3. CASE AddRequest(g)
  <2>1. g \in requestMap' \/ answers'[g] > 0
    BY <1>1, <1>3 DEF AddRequest
  <2> QED BY <2>1 DEF Kept
<1>4. CASE g \in Conns /\ Resend(g)
  <2>1. gmsg'[g] # g \/ gpc'[g] = "done"
    BY <1>1, <1>4 DEF Resend, PastOwn
  <2>2. gpc'[g] \in {"message", "done"}
    BY <1>1, <1>4 DEF Resend
  <2> QED BY <2>1, <2>2 DEF Waits
<1>5. CASE SendMessage(g) \/ SendQueues(g) \/ SendGivesUp(g)
  <2>1. gmsg' = gmsg /\ gpc[g] \in {"message", "send"} /\ gmsg[g] # g
    BY <1>5 DEF SendMessage, SendQueues, SendGivesUp, Waits
  <2>2. gpc'[g] \in {"send", "resend"}
    BY <1>1, <1>5, <2>1 DEF SendMessage, SendQueues, SendGivesUp, AfterSend
  <2> QED BY <2>1, <2>2 DEF Waits
<1>6. CASE Receive(g) \/ (g \in Conns /\ (Reregister(g) \/ CopyRequests(g)))
  <2>1. gpc'[g] \in {"watch", "done", "copy", "call", "resend"}
    BY <1>1, <1>6 DEF Receive, Reregister, CopyRequests
  <2> QED BY <2>1 DEF Waits
<1>7. ASSUME NEW h \in Reqs \ {g}, Issuer(h) PROVE FALSE
  BY <1>1, <1>2, <1>7 DEF Issuer, AddRequest, SendMessage, SendQueues, SendGivesUp, Receive,
                          Reregister, CopyRequests, Resend
<1>8. CASE (\E u \in Users : Begin(u)) \/ Watch \/ Shutdown \/ Reset
  <2>1. gmsg' = gmsg /\ gpc'[g] \in {gpc[g], "call", "gone", "quit", "start"}
    BY <1>1, <1>8 DEF Begin, Watch, Shutdown, Reset
  <2> QED BY <1>2, <2>1 DEF Waits
<1>9. CASE (\E k \in Conns : Break(k) \/ Reader(k) \/ Writer(k) \/ \E r \in Reqs : Reply(k, r))
           \/ ReconnectWakes \/ ReconnectChecks \/ DialFails \/ Dial \/ UNCHANGED vars
  <2>1. UNCHANGED <<gpc, gmsg>>
    BY <1>9 DEF Break, Reply, Reader, InTop, InRead, InError, RouteReply, Deliver, InExit,
        Writer, OutTop, OutTake, OutStops, OutWrite, OutLost, OutError, OutDrain, OutExit,
        ReconnectWakes, ReconnectChecks, DialFails, Dial, vars, issueVars
  <2> QED BY <1>2, <2>1
<1> QED
  BY <1>3, <1>4, <1>5, <1>6, <1>7, <1>8, <1>9 DEF Next, Issuer, Reconnector

LEMMA PastOwnStep ==
    ASSUME AnswerInv, PastOwn, [Next]_vars
    PROVE  PastOwn'
<1> SUFFICES ASSUME NEW k \in Conns
             PROVE  /\ k \notin copy'[k]
                    /\ Unissued(k)' => gmsg'[k] = k
                    /\ SendsOthers(k)' => k \notin requestMap'
  BY DEF PastOwn
<1>1. /\ gpc \in [Reqs -> IssuePlaces] /\ gmsg \in [Reqs -> Reqs]
      /\ copy \in [Conns -> SUBSET Reqs] /\ k \in Reqs /\ k \notin Users /\ k # Owner
      /\ sock \in Reqs
  BY ConnsFact, NamesAssumption DEF AnswerInv, TypeInv, TypeOK, IssueTypes, ConnTypes
<1>2. /\ k \notin copy[k] /\ (Unissued(k) => gmsg[k] = k /\ k \notin requestMap)
      /\ SendsOthers(k) => k \notin requestMap
  BY <1>1 DEF PastOwn, AnswerInv, Fresh
<1>3. CASE AddRequest(k)
  <2>1. /\ gmsg[k] = k /\ UNCHANGED <<copy, gmsg>>
        /\ gpc'[k] \in {"message", "receive"}
    BY <1>1, <1>2, <1>3 DEF AddRequest, Unissued
  <2> QED BY <1>2, <2>1 DEF SendsOthers, Unissued, None
<1>4. CASE CopyRequests(k) \/ Resend(k)
  <2>1. requestMap' = requestMap /\ k \notin requestMap
    BY <1>2, <1>4 DEF CopyRequests, Resend, requestVars, SendsOthers
  <2>2. k \notin copy'[k] /\ gpc'[k] \in {"resend", "message", "done"}
    BY <1>1, <1>2, <1>4, <2>1 DEF CopyRequests, Resend
  <2> QED BY <2>1, <2>2 DEF Unissued, None
<1>5. CASE Reregister(k)
  <2>1. /\ k \notin requestMap /\ gmsg[k] = k /\ UNCHANGED <<requestMap, copy, gmsg>>
    BY <1>2, <1>5 DEF Reregister, Unissued, requestVars
  <2> QED BY <1>2, <2>1
<1>6. CASE Receive(k)
  <2>1. /\ answers[k] > 0 /\ UNCHANGED <<requestMap, copy>> /\ gpc'[k] \in {"copy", "done"}
    BY <1>1, <1>6 DEF Receive, requestVars
  <2>2. k \notin requestMap
    BY <1>1, <2>1 DEF AnswerInv, OneAnswer
  <2> QED BY <1>2, <2>1, <2>2 DEF Unissued, None
<1>7. CASE SendMessage(k) \/ SendQueues(k) \/ SendGivesUp(k)
  <2>1. /\ UNCHANGED <<requestMap, copy, gmsg>> /\ gpc[k] \in {"message", "send"}
        /\ gpc'[k] = "send" \/ gpc'[k] = AfterSend(k)
    BY <1>1, <1>7 DEF SendMessage, SendQueues, SendGivesUp, requestVars
  <2>2. SendsOthers(k)' => SendsOthers(k)
    BY <2>1 DEF SendsOthers, AfterSend
  <2>3. ~Unissued(k)'
    BY <2>1 DEF Unissued, AfterSend, None
  <2> QED BY <1>2, <2>1, <2>2, <2>3
<1>8. CASE UNCHANGED <<gmsg, copy>> /\ gpc'[k] = gpc[k] /\ (k \in requestMap' => k \in requestMap)
  BY <1>2, <1>8 DEF SendsOthers, Unissued
<1>9. ASSUME NEW g \in Reqs \ {k}, Issuer(g)
      PROVE  /\ gmsg'[k] = gmsg[k] /\ copy'[k] = copy[k] /\ gpc'[k] = gpc[k]
             /\ k \in requestMap' => k \in requestMap
  BY <1>1, <1>9 DEF Issuer, AddRequest, SendMessage, SendQueues, SendGivesUp, Receive,
                    Reregister, CopyRequests, Resend, requestVars
<1>10. CASE \E g \in Reqs \ {k} : Issuer(g)
  BY <1>2, <1>9, <1>10 DEF SendsOthers, Unissued
<1>11. CASE Reset
  <2>1. UNCHANGED <<requestMap, copy, gmsg>> /\ gpc'[k] \in {gpc[k], "start"}
    BY <1>1, <1>11 DEF Reset, requestVars
  <2>2. gpc'[k] # gpc[k] => gpc[k] = None
    BY <1>1, <1>11 DEF Reset, AnswerInv, Unmade, ToMake
  <2>3. Unissued(k)' => Unissued(k)
    BY <2>1, <2>2 DEF Unissued
  <2>4. SendsOthers(k)' => SendsOthers(k)
    BY <2>1 DEF SendsOthers
  <2> QED BY <1>2, <2>1, <2>3, <2>4
<1>12. CASE (\E u \in Users : Begin(u)) \/ Watch \/ Shutdown
  <2>1. UNCHANGED <<gmsg, copy>> /\ gpc'[k] = gpc[k] /\ (k \in requestMap' => k \in requestMap)
    BY <1>1, <1>12 DEF Begin, Watch, Shutdown, requestVars
  <2> QED BY <1>8, <2>1
<1>13. CASE (\E j \in Conns : Break(j) \/ Reader(j) \/ Writer(j) \/ \E r \in Reqs : Reply(j, r))
           \/ ReconnectWakes \/ ReconnectChecks \/ DialFails \/ Dial \/ UNCHANGED vars
  <2>1. UNCHANGED <<gpc, gmsg, copy>>
    BY <1>13 DEF Break, Reply, Reader, InTop, InRead, InError, RouteReply, Deliver, InExit,
        Writer, OutTop, OutTake, OutStops, OutWrite, OutLost, OutError, OutDrain, OutExit,
        ReconnectWakes, ReconnectChecks, DialFails, Dial, vars, issueVars
  <2>2. requestMap' \subseteq requestMap
    BY <1>13 DEF Break, Reply, Reader, InTop, InRead, InError, RouteReply, Forgets, Deliver,
        InExit, Writer, OutTop, OutTake, OutStops, OutWrite, OutLost, OutError, OutDrain,
        OutExit, ReconnectWakes, ReconnectChecks, DialFails, Dial, vars, requestVars
  <2> QED BY <1>8, <2>1, <2>2
<1>14. CASE Issuer(k)
  BY <1>3, <1>4, <1>5, <1>6, <1>7, <1>14 DEF Issuer
<1> QED
  BY <1>10, <1>11, <1>12, <1>13, <1>14 DEF Next, Reconnector

LEMMA WaitInit == Init => WaitInv
<1> SUFFICES ASSUME Init PROVE WaitInv
  OBVIOUS
<1>1. \A g \in Reqs : gpc[g] \in {"call", None} /\ gmsg[g] = g
  BY DEF Init
<1>2. \A g \in Reqs : ~Waits(g)
  BY <1>1 DEF Waits, None
<1>3. requestMap = {} /\ \A k \in Conns : copy[k] = {}
  BY DEF Init
<1> QED
  BY <1>1, <1>2, <1>3, ConnsFact DEF WaitInv, PastOwn

LEMMA WaitStep == AnswerInv /\ TurnInv /\ WaitInv /\ [Next]_vars => WaitInv'
<1> SUFFICES ASSUME AnswerInv, TurnInv, WaitInv, [Next]_vars PROVE WaitInv'
  OBVIOUS
<1>1. TypeInv
  BY DEF AnswerInv
<1>2. ASSUME NEW g \in Reqs, Waits(g)' PROVE Kept(g)'
  BY <1>1, <1>2, KeptStep, WaitsStep DEF WaitInv
<1> QED
  BY <1>2, PastOwnStep DEF WaitInv

(* A goroutine that waits for the answer to its request is not forgotten:   *)
(* not when connections come and go, not when the answer arrives on another *)
(* connection than the request left on, not when the client is shut down    *)
(* between any two of its steps.  Once the client is shut down everyone who *)
(* waits has the answer or a reader that delivers it without waiting        *)
(* (client.go:194-255, 516-541, 592-608, 698-722).                          *)
THEOREM NobodyIsForgotten == Spec => []NobodyForgotten
<1>1. AnswerInv /\ WaitInv /\ NothingWaitsAfterShutdown => NobodyForgotten
  BY DEF AnswerInv, TypeInv, TypeOK, RequestTypes, OneAnswer, WaitInv, Kept,
         NothingWaitsAfterShutdown, NobodyForgotten
<1>2. AnswerInv => TypeInv
  BY DEF AnswerInv
<1> QED
  BY <1>1, <1>2, AnswerInit, AnswerStep, TurnInit, TurnStep, WaitInit, WaitStep,
     ShutdownEmptiesMap, PTL DEF Spec
=============================================================================
