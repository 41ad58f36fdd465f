------------------------------ MODULE WsClient ------------------------------
(***************************************************************************)
(* The websocket client of the full node (symbols/qitmeer/client/client.go *)
(* and notify.go) as the miner uses it: with automatic reconnection, never *)
(* in HTTP POST mode.  Goroutines that issue requests, the reader and the  *)
(* writer of every connection, the reconnect handler, the goroutine that   *)
(* sends the waiting requests again, and HandlePendingBlocks of robot.go,  *)
(* which owns the client.                                                  *)
(*                                                                         *)
(* Connections are numbered as they are made.  The field c.disconnect      *)
(* holds the channel of one connection: channel j is closed once a later   *)
(* one took its place or Disconnect closed it.  Every goroutine issues at  *)
(* most one request, which bears its name; connection k names the          *)
(* goroutine that runs resendRequests for it.                              *)
(***************************************************************************)
EXTENDS Naturals, Sequences

CONSTANTS
    Owner,       \* HandlePendingBlocks, which registers for new blocks
    Users,       \* goroutines that register a transaction (common.Timeout)
    MaxConn,     \* bound: connections the node accepts
    Unreliable,  \* connections that may break
    SendBuffer   \* capacity of sendChan

Conns == 1 .. MaxConn
Reqs  == {Owner} \cup Users \cup Conns

ASSUME NamesAssumption  == Owner \notin Users /\ Owner \notin Nat /\ Users \cap Nat = {}
ASSUME BoundsAssumption == MaxConn \in Nat \ {0} /\ SendBuffer \in Nat \ {0} /\ Unreliable \subseteq Conns

MaxRetry == 3
None == "none"

VARIABLES
    sock, gen,        \* the connection of c.wsConn, and of c.disconnect
    disconnected,     \* c.disconnected
    shutdown,         \* c.shutdown is closed
    rpc, retryCount,  \* wsReconnectHandler: position, failed attempts
    socket,           \* state of each connection
    requestMap,       \* requests that wait for an answer
    answers, failed,  \* per request: answers delivered; those with an error
    notifyBlocks,     \* c.ntfnState.notifyBlocks
    sendChan,         \* the messages the writers take from
    ipc, isock, imsg, \* wsInHandler: position, connection and message read
    opc, ogen, omsg,  \* wsOutHandler: position, channel and message taken
    gpc, ggen, gmsg,  \* issuers: position, channel and message in sendMessage
    copy,             \* resendRequests: what is left to send again
    wire, replies     \* per connection: at the node, and answered by it

connVars    == <<sock, gen, disconnected, socket>>
reconVars   == <<rpc, retryCount>>
requestVars == <<requestMap, answers, failed, notifyBlocks>>
inVars      == <<ipc, isock, imsg>>
outVars     == <<opc, ogen, omsg>>
issueVars   == <<gpc, ggen, gmsg, copy>>
nodeVars    == <<wire, replies>>
vars == <<connVars, reconVars, shutdown, requestVars, sendChan, inVars, outVars, issueVars, nodeVars>>

(* The first connection is made by New, which starts its reader and writer. *)
Init ==
    /\ sock = 1 /\ gen = 1
    /\ disconnected = FALSE /\ shutdown = FALSE
    /\ rpc = "wait" /\ retryCount = 0
    /\ socket = [k \in Conns |-> IF k = 1 THEN "up" ELSE None]
    /\ requestMap = {}
    /\ answers = [r \in Reqs |-> 0]
    /\ failed = {}
    /\ notifyBlocks = FALSE
    /\ sendChan = <<>>
    /\ ipc = [k \in Conns |-> IF k = 1 THEN "top" ELSE None]
    /\ isock = [k \in Conns |-> k]
    /\ imsg = [k \in Conns |-> Owner]
    /\ opc = [k \in Conns |-> IF k = 1 THEN "top" ELSE None]
    /\ ogen = [k \in Conns |-> k]
    /\ omsg = [k \in Conns |-> Owner]
    /\ gpc = [g \in Reqs |-> IF g = Owner THEN "call" ELSE None]
    /\ ggen = [g \in Reqs |-> 1]
    /\ gmsg = [g \in Reqs |-> g]
    /\ copy = [k \in Conns |-> {}]
    /\ wire = [k \in Conns |-> {}]
    /\ replies = [k \in Conns |-> {}]

Closed(j) == j < gen \/ disconnected

(* The commands of the owner and of reregisterNtfns are notifyBlocks.       *)
Registers(r) == r \notin Users

-----------------------------------------------------------------------------
(* The node and the network.                                                *)

Break(k) ==
    /\ k \in Unreliable
    /\ socket[k] = "up"
    /\ socket' = [socket EXCEPT ![k] = "broken"]
    /\ UNCHANGED <<sock, gen, disconnected, reconVars, shutdown, requestVars, sendChan>>
    /\ UNCHANGED <<inVars, outVars, issueVars, nodeVars>>

Reply(k, r) ==
    /\ socket[k] = "up"
    /\ r \in wire[k]
    /\ wire' = [wire EXCEPT ![k] = @ \ {r}]
    /\ replies' = [replies EXCEPT ![k] = @ \cup {r}]
    /\ UNCHANGED <<connVars, reconVars, shutdown, requestVars, sendChan>>
    /\ UNCHANGED <<inVars, outVars, issueVars>>

-----------------------------------------------------------------------------
(* doDisconnect: whoever calls it closes the present connection.            *)
DoDisconnectNotify ==
    /\ disconnected' = TRUE
    /\ UNCHANGED <<sock, gen, socket>>

DoDisconnect ==
    /\ disconnected' = TRUE
    /\ socket' = IF disconnected THEN socket ELSE [socket EXCEPT ![sock] = "closed"]
    /\ UNCHANGED <<sock, gen>>

(* The owner, once NotifyBlocks has returned: at the end of the program it  *)
(* shuts a connected client down.  When it finds the client disconnected    *)
(* it leaves it alone: it ends, or it makes another client.                 *)
Watch ==
    /\ gpc[Owner] = "watch"
    /\ gpc' = [gpc EXCEPT ![Owner] = IF disconnected THEN "gone" ELSE "quit"]
    /\ UNCHANGED <<connVars, reconVars, shutdown, requestVars, sendChan>>
    /\ UNCHANGED <<inVars, outVars, ggen, gmsg, copy, nodeVars>>

(* All under requestLock: no request is added or answered meanwhile.        *)
Shutdown ==
    /\ gpc[Owner] = "quit"
    /\ gpc' = [gpc EXCEPT ![Owner] = "gone"]
    /\ shutdown' = TRUE
    /\ answers' = [r \in Reqs |-> IF r \in requestMap THEN answers[r] + 1 ELSE answers[r]]
    /\ failed' = failed \cup requestMap
    /\ requestMap' = {}
    /\ DoDisconnect
    /\ UNCHANGED <<reconVars, notifyBlocks, sendChan, inVars, outVars, ggen, gmsg, copy, nodeVars>>

-----------------------------------------------------------------------------
(* Issuing a request: sendRequest with addRequest and sendMessage, then the *)
(* wait for the answer.                                                     *)

(* The robot looks at its client first (robot.go:281,335).                  *)
Begin(u) ==
    /\ gpc[u] = None
    /\ ~disconnected /\ gpc[Owner] # "gone"
    /\ gpc' = [gpc EXCEPT ![u] = "call"]
    /\ UNCHANGED <<connVars, reconVars, shutdown, requestVars, sendChan>>
    /\ UNCHANGED <<inVars, outVars, ggen, gmsg, copy, nodeVars>>

(* addRequest refuses once the client is shut down.                         *)
NeverRefuses == FALSE
Refuses      == shutdown

AddRequest(g) ==
    /\ gpc[g] = "call"
    /\ \/ /\ Refuses
          /\ answers' = [answers EXCEPT ![g] = @ + 1]
          /\ failed' = failed \cup {g}
          /\ gpc' = [gpc EXCEPT ![g] = "receive"]
          /\ UNCHANGED requestMap
       \/ /\ ~Refuses
          /\ requestMap' = requestMap \cup {g}
          /\ gpc' = [gpc EXCEPT ![g] = "message"]
          /\ UNCHANGED <<answers, failed>>
    /\ UNCHANGED <<connVars, reconVars, shutdown, notifyBlocks, sendChan>>
    /\ UNCHANGED <<inVars, outVars, ggen, gmsg, copy, nodeVars>>

SendMessage(g) ==
    /\ gpc[g] = "message"
    /\ ggen' = [ggen EXCEPT ![g] = gen]
    /\ gpc' = [gpc EXCEPT ![g] = "send"]
    /\ UNCHANGED <<connVars, reconVars, shutdown, requestVars, sendChan>>
    /\ UNCHANGED <<inVars, outVars, gmsg, copy, nodeVars>>

(* Its own request: the wait for the answer.  Another's: the next to resend. *)
AfterSend(g) == IF gmsg[g] = g THEN "receive" ELSE "resend"

HasRoomButOne == Len(sendChan) + 1 < SendBuffer
HasRoom       == Len(sendChan) < SendBuffer

SendQueues(g) ==
    /\ gpc[g] = "send"
    /\ HasRoom
    /\ sendChan' = Append(sendChan, gmsg[g])
    /\ gpc' = [gpc EXCEPT ![g] = AfterSend(g)]
    /\ UNCHANGED <<connVars, reconVars, shutdown, requestVars>>
    /\ UNCHANGED <<inVars, outVars, ggen, gmsg, copy, nodeVars>>

SendGivesUp(g) ==
    /\ gpc[g] = "send"
    /\ Closed(ggen[g])
    /\ gpc' = [gpc EXCEPT ![g] = AfterSend(g)]
    /\ UNCHANGED <<connVars, reconVars, shutdown, requestVars, sendChan>>
    /\ UNCHANGED <<inVars, outVars, ggen, gmsg, copy, nodeVars>>

Receive(g) ==
    /\ gpc[g] = "receive"
    /\ answers[g] > 0
    /\ \/ g = Owner /\ gpc' = [gpc EXCEPT ![g] = "watch"] /\ UNCHANGED connVars
       \/ g \in Users /\ gpc' = [gpc EXCEPT ![g] = "done"] /\ UNCHANGED connVars
       \/ /\ g \in Conns /\ g \notin failed
          /\ gpc' = [gpc EXCEPT ![g] = "copy"] /\ UNCHANGED connVars
       \/ /\ g \in Conns /\ g \in failed
          /\ gpc' = [gpc EXCEPT ![g] = "done"] /\ DoDisconnect
    /\ UNCHANGED <<reconVars, shutdown, requestVars, sendChan>>
    /\ UNCHANGED <<inVars, outVars, ggen, gmsg, copy, nodeVars>>

-----------------------------------------------------------------------------
(* resendRequests of connection k: reregisterNtfns first, then the waiting  *)
(* requests, from a copy and in any order (the source keeps their list).    *)

Reregister(k) ==
    /\ gpc[k] = "start"
    /\ gpc' = [gpc EXCEPT ![k] = IF notifyBlocks THEN "call" ELSE "copy"]
    /\ UNCHANGED <<connVars, reconVars, shutdown, requestVars, sendChan>>
    /\ UNCHANGED <<inVars, outVars, ggen, gmsg, copy, nodeVars>>

CopyRequests(k) ==
    /\ gpc[k] = "copy"
    /\ copy' = [copy EXCEPT ![k] = requestMap]
    /\ gpc' = [gpc EXCEPT ![k] = "resend"]
    /\ UNCHANGED <<connVars, reconVars, shutdown, requestVars, sendChan>>
    /\ UNCHANGED <<inVars, outVars, ggen, gmsg, nodeVars>>

Resend(k) ==
    /\ gpc[k] = "resend"
    /\ \/ /\ copy[k] = {} \/ disconnected
          /\ gpc' = [gpc EXCEPT ![k] = "done"]
          /\ UNCHANGED <<gmsg, copy>>
       \/ /\ ~disconnected
          /\ \E r \in copy[k] :
                 /\ copy' = [copy EXCEPT ![k] = @ \ {r}]
                 /\ gmsg' = [gmsg EXCEPT ![k] = r]
          /\ gpc' = [gpc EXCEPT ![k] = "message"]
    /\ UNCHANGED <<connVars, reconVars, shutdown, requestVars, sendChan>>
    /\ UNCHANGED <<inVars, outVars, ggen, nodeVars>>

-----------------------------------------------------------------------------
(* wsInHandler.  It reads from c.wsConn, whichever connection that is now.  *)

InTop(k) ==
    /\ ipc[k] = "top"
    /\ ipc' = [ipc EXCEPT ![k] = IF shutdown THEN "disconnect" ELSE "read"]
    /\ isock' = [isock EXCEPT ![k] = sock]
    /\ UNCHANGED <<connVars, reconVars, shutdown, requestVars, sendChan>>
    /\ UNCHANGED <<imsg, outVars, issueVars, nodeVars>>

InRead(k) ==
    /\ ipc[k] = "read"
    /\ socket[isock[k]] # "closed"
    /\ \E r \in replies[isock[k]] :
           /\ replies' = [replies EXCEPT ![isock[k]] = @ \ {r}]
           /\ imsg' = [imsg EXCEPT ![k] = r]
    /\ ipc' = [ipc EXCEPT ![k] = "route"]
    /\ UNCHANGED <<connVars, reconVars, shutdown, requestVars, sendChan>>
    /\ UNCHANGED <<isock, outVars, issueVars, wire>>

InError(k) ==
    /\ ipc[k] = "read"
    /\ socket[isock[k]] \in {"broken", "closed"}
    /\ ipc' = [ipc EXCEPT ![k] = "disconnect"]
    /\ UNCHANGED <<connVars, reconVars, shutdown, requestVars, sendChan>>
    /\ UNCHANGED <<isock, imsg, outVars, issueVars, nodeVars>>

(* removeRequest, and the answer nobody waits for.                          *)
Remembers(r) == requestMap
Forgets(r)   == requestMap \ {r}

RouteReply(k) ==
    /\ ipc[k] = "route"
    /\ requestMap' = Forgets(imsg[k])
    /\ ipc' = [ipc EXCEPT ![k] = IF imsg[k] \in requestMap THEN "deliver" ELSE "top"]
    /\ UNCHANGED <<connVars, reconVars, shutdown, answers, failed, notifyBlocks, sendChan>>
    /\ UNCHANGED <<isock, imsg, outVars, issueVars, nodeVars>>

(* trackRegisteredNtfns comes before the reply is looked at, and whether    *)
(* the node granted the request is its choice.                              *)
Deliver(k) ==
    /\ ipc[k] = "deliver"
    /\ notifyBlocks' = (notifyBlocks \/ Registers(imsg[k]))
    /\ answers' = [answers EXCEPT ![imsg[k]] = @ + 1]
    /\ failed' \in {failed, failed \cup {imsg[k]}}
    /\ ipc' = [ipc EXCEPT ![k] = "top"]
    /\ UNCHANGED <<connVars, reconVars, shutdown, requestMap, sendChan>>
    /\ UNCHANGED <<isock, imsg, outVars, issueVars, nodeVars>>

InExit(k) ==
    /\ ipc[k] = "disconnect"
    /\ DoDisconnect
    /\ ipc' = [ipc EXCEPT ![k] = "done"]
    /\ UNCHANGED <<reconVars, shutdown, requestVars, sendChan>>
    /\ UNCHANGED <<isock, imsg, outVars, issueVars, nodeVars>>

-----------------------------------------------------------------------------
(* wsOutHandler.  It, too, writes to whichever connection c.wsConn is now.  *)

OutTop(k) ==
    /\ opc[k] = "top"
    /\ ogen' = [ogen EXCEPT ![k] = gen]
    /\ opc' = [opc EXCEPT ![k] = "select"]
    /\ UNCHANGED <<connVars, reconVars, shutdown, requestVars, sendChan>>
    /\ UNCHANGED <<inVars, omsg, issueVars, nodeVars>>

OutTake(k) ==
    /\ opc[k] = "select"
    /\ sendChan # <<>>
    /\ omsg' = [omsg EXCEPT ![k] = Head(sendChan)]
    /\ sendChan' = Tail(sendChan)
    /\ opc' = [opc EXCEPT ![k] = "write"]
    /\ UNCHANGED <<connVars, reconVars, shutdown, requestVars>>
    /\ UNCHANGED <<inVars, ogen, issueVars, nodeVars>>

OutStops(k) ==
    /\ opc[k] = "select"
    /\ Closed(ogen[k])
    /\ opc' = [opc EXCEPT ![k] = "drain"]
    /\ UNCHANGED <<connVars, reconVars, shutdown, requestVars, sendChan>>
    /\ UNCHANGED <<inVars, ogen, omsg, issueVars, nodeVars>>

OutWrite(k) ==
    /\ opc[k] = "write"
    /\ socket[sock] = "up"
    /\ wire' = [wire EXCEPT ![sock] = @ \cup {omsg[k]}]
    /\ opc' = [opc EXCEPT ![k] = "top"]
    /\ UNCHANGED <<connVars, reconVars, shutdown, requestVars, sendChan>>
    /\ UNCHANGED <<inVars, ogen, omsg, issueVars, replies>>

(* What is written to a broken connection may vanish without an error.      *)
OutLost(k) ==
    /\ opc[k] = "write"
    /\ socket[sock] = "broken"
    /\ opc' = [opc EXCEPT ![k] = "top"]
    /\ UNCHANGED <<connVars, reconVars, shutdown, requestVars, sendChan>>
    /\ UNCHANGED <<inVars, ogen, omsg, issueVars, nodeVars>>

OutError(k) ==
    /\ opc[k] = "write"
    /\ socket[sock] \in {"broken", "closed"}
    /\ DoDisconnect
    /\ opc' = [opc EXCEPT ![k] = "drain"]
    /\ UNCHANGED <<reconVars, shutdown, requestVars, sendChan>>
    /\ UNCHANGED <<inVars, ogen, omsg, issueVars, nodeVars>>

OutDrain(k) ==
    /\ opc[k] = "drain"
    /\ sendChan # <<>>
    /\ sendChan' = Tail(sendChan)
    /\ UNCHANGED <<connVars, reconVars, shutdown, requestVars>>
    /\ UNCHANGED <<inVars, outVars, issueVars, nodeVars>>

OutExit(k) ==
    /\ opc[k] = "drain"
    /\ sendChan = <<>>
    /\ opc' = [opc EXCEPT ![k] = "done"]
    /\ UNCHANGED <<connVars, reconVars, shutdown, requestVars, sendChan>>
    /\ UNCHANGED <<inVars, ogen, omsg, issueVars, nodeVars>>

-----------------------------------------------------------------------------
(* wsReconnectHandler.                                                      *)

ReconnectWakes ==
    /\ rpc = "wait"
    /\ \/ disconnected /\ rpc' = "check"
       \/ shutdown /\ rpc' = "done"
    /\ UNCHANGED <<retryCount, connVars, shutdown, requestVars, sendChan>>
    /\ UNCHANGED <<inVars, outVars, issueVars, nodeVars>>

ReconnectChecks ==
    /\ rpc = "check"
    /\ rpc' = IF shutdown THEN "done" ELSE "dial"
    /\ UNCHANGED <<retryCount, connVars, shutdown, requestVars, sendChan>>
    /\ UNCHANGED <<inVars, outVars, issueVars, nodeVars>>

GivesUpLate(n) == n > MaxRetry
GivesUp(n)     == n >= MaxRetry

DialFails ==
    /\ rpc = "dial"
    /\ retryCount' = retryCount + 1
    /\ rpc' = IF GivesUp(retryCount + 1) THEN "done" ELSE "check"
    /\ UNCHANGED <<connVars, shutdown, requestVars, sendChan>>
    /\ UNCHANGED <<inVars, outVars, issueVars, nodeVars>>

Dial ==
    /\ rpc = "dial"
    /\ sock < MaxConn
    /\ sock' = sock + 1
    /\ socket' = [socket EXCEPT ![sock'] = "up"]
    /\ retryCount' = 0
    /\ rpc' = "reset"
    /\ UNCHANGED <<gen, disconnected, shutdown, requestVars, sendChan>>
    /\ UNCHANGED <<inVars, outVars, issueVars, nodeVars>>

(* A new disconnect channel; start() and resendRequests in new goroutines.  *)
Reset ==
    /\ rpc = "reset"
    /\ gen' = sock
    /\ disconnected' = FALSE
    /\ ipc' = [ipc EXCEPT ![sock] = "top"]
    /\ opc' = [opc EXCEPT ![sock] = "top"]
    /\ gpc' = [gpc EXCEPT ![sock] = "start"]
    /\ rpc' = "wait"
    /\ UNCHANGED <<sock, socket, retryCount, shutdown, requestVars, sendChan>>
    /\ UNCHANGED <<isock, imsg, ogen, omsg, ggen, gmsg, copy, nodeVars>>

-----------------------------------------------------------------------------
Reader(k) == InTop(k) \/ InRead(k) \/ InError(k) \/ RouteReply(k) \/ Deliver(k) \/ InExit(k)

Writer(k) ==
    \/ OutTop(k) \/ OutTake(k) \/ OutStops(k)
    \/ OutWrite(k) \/ OutLost(k) \/ OutError(k)
    \/ OutDrain(k) \/ OutExit(k)

Issuer(g) ==
    \/ AddRequest(g) \/ SendMessage(g) \/ SendQueues(g) \/ SendGivesUp(g) \/ Receive(g)
    \/ g \in Conns /\ (Reregister(g) \/ CopyRequests(g) \/ Resend(g))

Reconnector == ReconnectWakes \/ ReconnectChecks \/ DialFails \/ Dial \/ Reset

Next ==
    \/ \E k \in Conns : Break(k) \/ Reader(k) \/ Writer(k) \/ \E r \in Reqs : Reply(k, r)
    \/ \E g \in Reqs : Issuer(g)
    \/ \E u \in Users : Begin(u)
    \/ Reconnector
    \/ Watch \/ Shutdown

Spec == Init /\ [][Next]_vars

(* Every goroutine that can run does; senders that wait for room in         *)
(* sendChan are served in turn; the node answers what reaches it.  Nothing  *)
(* says that a connection is made or lasts, or that the program ends.       *)
Fairness ==
    /\ \A k \in Conns : WF_vars(Reader(k)) /\ WF_vars(Writer(k))
    /\ \A k \in Conns, r \in Reqs : WF_vars(Reply(k, r))
    /\ \A g \in Reqs : SF_vars(Issuer(g))
    /\ WF_vars(Reconnector) /\ WF_vars(Shutdown)

FairSpec == Spec /\ Fairness

-----------------------------------------------------------------------------
ConnTypes ==
    /\ sock \in Conns /\ gen \in Conns
    /\ disconnected \in BOOLEAN /\ shutdown \in BOOLEAN
    /\ socket \in [Conns -> {None, "up", "broken", "closed"}]
    /\ rpc \in {"wait", "check", "dial", "reset", "done"}
    /\ retryCount \in 0 .. MaxRetry

RequestTypes ==
    /\ requestMap \subseteq Reqs /\ failed \subseteq Reqs
    /\ answers \in [Reqs -> Nat]
    /\ notifyBlocks \in BOOLEAN

InPlaces  == {None, "top", "read", "route", "deliver", "disconnect", "done"}
OutPlaces == {None, "top", "select", "write", "drain", "done"}

HandlerTypes ==
    /\ sendChan \in Seq(Reqs)
    /\ ipc \in [Conns -> InPlaces]  /\ isock \in [Conns -> Conns] /\ imsg \in [Conns -> Reqs]
    /\ opc \in [Conns -> OutPlaces] /\ ogen \in [Conns -> Conns]  /\ omsg \in [Conns -> Reqs]

IssuePlaces == {None, "start", "call", "message", "send", "receive", "copy",
                "resend", "watch", "quit", "gone", "done"}

IssueTypes ==
    /\ gpc \in [Reqs -> IssuePlaces]
    /\ ggen \in [Reqs -> Conns] /\ gmsg \in [Reqs -> Reqs]
    /\ copy \in [Conns -> SUBSET Reqs]

NodeTypes ==
    wire \in [Conns -> SUBSET Reqs] /\ replies \in [Conns -> SUBSET Reqs]

TypeOK == ConnTypes /\ RequestTypes /\ HandlerTypes /\ IssueTypes /\ NodeTypes

Delivering(r) == {k \in Conns : ipc[k] = "deliver" /\ imsg[k] = r}

(* A request gets at most one answer, whichever of the node's replies, the  *)
(* refusal of addRequest and the shutdown come together and however often   *)
(* the request is sent: a second send on its channel of capacity one would  *)
(* block the reader, or Shutdown with requestLock held                      *)
(* (client.go:241-255, 539-541, 711-717).                                   *)
OneAnswer ==
    \A r \in Reqs :
        /\ answers[r] <= 1
        /\ r \in requestMap => answers[r] = 0 /\ Delivering(r) = {}

(* After the shutdown no request waits in the map, and none enters it       *)
(* (client.go:595-600).                                                     *)
NothingWaitsAfterShutdown == shutdown => requestMap = {}

Idle == {None, "done", "gone"}

(* The shutdown ends the reader and the writer of every connection, the     *)
(* reconnect handler, whatever it was doing, and everyone who waits for an  *)
(* answer (client.go:698-722, 173, 786, 813-821).                           *)
ShutdownEndsAll ==
    shutdown ~> /\ rpc = "done"
                /\ \A k \in Conns : ipc[k] \in Idle /\ opc[k] \in Idle
                /\ \A g \in Reqs : gpc[g] \in Idle

(* As long as connections do not break, whoever issues a request gets its   *)
(* answer.                                                                  *)
RequestsAnswered ==
    \A g \in Reqs : gpc[g] = "message" ~> gpc[g] \notin {"message", "send", "receive"}

(* client.go:915, "Stop resending commands if the client disconnected again *)
(* since the next reconnect will handle them": a request that waits is      *)
(* answered unless the client gives up connecting.                          *)
ReconnectHandlesRequests ==
    \A r \in Reqs : r \in requestMap ~> r \notin requestMap \/ rpc = "done"
=============================================================================
