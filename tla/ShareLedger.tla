----------------------------- MODULE ShareLedger -----------------------------
(***************************************************************************)
(* The accounting of a solo miner (symbols/qitmeer/robot.go): the blocks   *)
(* the node accepted wait in PendingBlocks until the node reports enough   *)
(* confirmations or the chain outgrows them.  Four goroutines share it:    *)
(* the submitter (SubmitWork), the statistics (Status), the reader of the  *)
(* websocket, which calls OnTxConfirm, and the owner of the client         *)
(* (HandlePendingBlocks); common.Timeout starts one more for each request  *)
(* to the node and waits for it at most a second, under PendingLock.       *)
(*                                                                         *)
(* A block is known by its coinbase, and a coinbase by the template it was *)
(* made for: two shares of one template have the same.  PendingBlocks maps *)
(* a coinbase to its height, which is that of the template, so that here   *)
(* it is the set of its keys.  x++ is a read and a write wherever another  *)
(* goroutine can write between them.                                       *)
(***************************************************************************)
EXTENDS Naturals, Sequences, FiniteSets

CONSTANTS
    MaxTemplates,      \* bound: templates the node hands out
    MaxShares,         \* bound: shares the submitter takes
    NotConfirmHeight,  \* blocks the chain may grow over one not confirmed
    MaxInbox,          \* bound: messages on their way from the node
    MaxUint            \* the largest value of a counter (2^64 - 1 in the code)

ASSUME BoundsAssumption ==
    /\ MaxTemplates \in Nat /\ MaxShares \in Nat /\ NotConfirmHeight \in Nat
    /\ MaxInbox \in Nat /\ MaxUint \in Nat /\ MaxUint > MaxShares + 1

Coinbases == 1 .. MaxTemplates
None      == "none"

VARIABLES
    templates,        \* heights of the templates, in order; the last is Work.Block
    pendingBlocks, pendingShares, validShares, invalidShares, staleShares,
    pendingLock,      \* who holds it
    subPC, subTx, subReg,                    \* the submitter
    statPC, statTodo, statV, statReg, total, \* Status: v of its loop, the sum it prints
    rdPC, rdTx, rdEnough, rdReg,             \* the reader
    call,             \* the goroutine the caller of Timeout waits for
    connected,        \* this.WsClient is there and connected
    inbox,            \* messages of the node the reader has not read
    taken, rejected, accepted, failed   \* history: shares, answers, removals

book       == <<pendingBlocks, pendingShares, invalidShares, failed>>
counters   == <<pendingBlocks, pendingShares, validShares, invalidShares, staleShares>>
subVars    == <<subPC, subTx, subReg>>
statVars   == <<statPC, statTodo, statV, statReg, total>>
rdVars     == <<rdPC, rdTx, rdEnough, rdReg>>
netVars    == <<call, connected, inbox>>
history    == <<taken, rejected, accepted, failed>>
vars == <<templates, counters, pendingLock, subVars, statVars, rdVars, netVars, history>>

Init ==
    /\ templates = <<>>
    /\ pendingBlocks = {} /\ pendingShares = 0
    /\ validShares = 0 /\ invalidShares = 0 /\ staleShares = 0
    /\ pendingLock = None
    /\ subPC = "idle" /\ subTx = 1 /\ subReg = 0
    /\ statPC = "idle" /\ statTodo = {} /\ statV = 1 /\ statReg = 0 /\ total = 0
    /\ rdPC = "read" /\ rdTx = 1 /\ rdEnough = FALSE /\ rdReg = 0
    /\ call = None /\ connected = FALSE /\ inbox = <<>>
    /\ taken = 0 /\ rejected = 0 /\ accepted = 0 /\ failed = 0

Dec(x) == IF x = 0 THEN MaxUint ELSE x - 1

(* The height of Work.Block.                                                *)
Height == templates[Len(templates)]

-----------------------------------------------------------------------------
(* common.Timeout: the caller waits for its call, or for the ticker of one  *)
(* second; then it goes on, and the call is abandoned: all it may still do  *)
(* is make the node answer.  Both callers hold PendingLock, so that at most *)
(* one call is waited for.                                                  *)

Start == call' = "check" /\ UNCHANGED inbox

Completes == call = "complete" /\ call' = None /\ UNCHANGED inbox

Answer(to) == [kind |-> "answer", to |-> to]

TimesOut ==
    /\ call' = None
    /\ inbox' = [i \in DOMAIN inbox |-> IF inbox[i] = Answer("call") THEN Answer("nobody") ELSE inbox[i]]

WaitsForCall == Completes

TimeoutReturns == Completes \/ TimesOut

(* The function handed to Timeout: without a connected client it ends, else *)
(* it sends NotifyTxsConfirmed or RemoveTxsConfirmed and waits.             *)
CallRuns ==
    /\ call = "check"
    /\ call' = IF connected THEN "sent" ELSE "complete"
    /\ UNCHANGED <<templates, connected, inbox>>

-----------------------------------------------------------------------------
(* The submitter holds SubmitLock from the answer to a share until it is    *)
(* back at its select.                                                      *)

AddTemplate ==
    /\ Len(templates) < MaxTemplates
    /\ \E h \in (IF templates = <<>> THEN {1} ELSE {Height, Height + 1}) :
           templates' = Append(templates, h)

(* ListenWork before the first template; then OnBlockConnected, whose       *)
(* goroutine takes SubmitLock.                                              *)
NewTemplate == subPC = "idle" /\ AddTemplate /\ UNCHANGED netVars

TakeShare ==
    /\ subPC = "idle" /\ templates # <<>> /\ taken < MaxShares
    /\ taken' = taken + 1
    /\ UNCHANGED <<templates, pendingBlocks, pendingShares, invalidShares, pendingLock>>
    /\ UNCHANGED <<call, inbox, rejected, accepted>>

(* The empty string: a device found a stale share.                          *)
TakeStale == TakeShare /\ staleShares' = staleShares + 1 /\ UNCHANGED subVars

(* Submit fails: the first half of InvalidShares++, without PendingLock.    *)
TakeRejected ==
    /\ TakeShare
    /\ subPC' = "invalid" /\ subReg' = invalidShares
    /\ UNCHANGED <<subTx, staleShares>>

(* The node accepts, or does not answer: Submit returns nil for both.       *)
TakeAccepted ==
    /\ TakeShare
    /\ subPC' = "lock" /\ subTx' \in DOMAIN templates
    /\ UNCHANGED <<subReg, staleShares>>

CountRejected ==
    /\ subPC = "invalid"
    /\ subPC' = "get"
    /\ invalidShares' = subReg + 1 /\ subReg' = 0
    /\ rejected' = rejected + 1
    /\ UNCHANGED <<templates, pendingBlocks, pendingShares, staleShares, pendingLock, subTx>>
    /\ UNCHANGED <<call, inbox, taken, accepted>>

(* Get(true): a template, perhaps with the coinbase of the last one.        *)
GetForced ==
    /\ subPC = "get"
    /\ subPC' = "idle"
    /\ AddTemplate \/ UNCHANGED templates
    /\ UNCHANGED <<pendingBlocks, pendingShares, invalidShares, staleShares, pendingLock>>
    /\ UNCHANGED <<subTx, subReg, call, inbox, taken, rejected, accepted>>

EnterPending ==
    /\ subPC = "lock" /\ pendingLock = None
    /\ subPC' = "timeout" /\ pendingLock' = "submitter"
    /\ pendingBlocks' = pendingBlocks \cup {subTx}
    /\ pendingShares' = pendingShares + 1
    /\ accepted' = accepted + 1
    /\ Start
    /\ UNCHANGED <<templates, invalidShares, staleShares, subTx, subReg, taken, rejected>>

SubmitReturns ==
    /\ subPC = "timeout"
    /\ TimeoutReturns
    /\ subPC' = "idle" /\ subTx' = 1 /\ pendingLock' = None
    /\ UNCHANGED <<templates, pendingBlocks, pendingShares, invalidShares, staleShares, subReg>>
    /\ UNCHANGED <<taken, rejected, accepted>>

Submitter ==
    /\ \/ TakeStale \/ TakeRejected \/ CountRejected \/ GetForced
       \/ TakeAccepted \/ EnterPending \/ SubmitReturns
    /\ UNCHANGED <<validShares, failed, statVars, rdVars, connected>>

-----------------------------------------------------------------------------
(* Status: every ten seconds.                                               *)

Tick ==
    /\ statPC = "idle" /\ templates # <<>>
    /\ statPC' = "lock"
    /\ UNCHANGED <<book, pendingLock, statTodo, statV, statReg, total, call, inbox>>

StatusScansFreely ==
    /\ statPC = "lock"
    /\ statPC' = "scan" /\ pendingLock' = "status"
    /\ statTodo' = pendingBlocks
    /\ UNCHANGED <<book, statV, statReg, total, call, inbox>>

StatusLocks ==
    /\ statPC = "lock" /\ pendingLock = None
    /\ statPC' = "scan" /\ pendingLock' = "status"
    /\ statTodo' = pendingBlocks
    /\ UNCHANGED <<book, statV, statReg, total, call, inbox>>

OutgrownSwapped(c) == templates[c] > Height + NotConfirmHeight

Outgrown(c) == Height > templates[c] + NotConfirmHeight

(* The next block of the loop, and the first half of InvalidShares++.       *)
StatusLooks ==
    /\ statPC = "scan"
    /\ \E c \in statTodo :
           /\ statV' = c
           /\ statTodo' = statTodo \ {c}
           /\ IF Outgrown(c) THEN statPC' = "remove" /\ statReg' = invalidShares
                             ELSE UNCHANGED <<statPC, statReg>>
    /\ UNCHANGED <<book, pendingLock, total, call, inbox>>

RemoveUncounted ==
    /\ pendingBlocks' = pendingBlocks \ {statV}
    /\ UNCHANGED pendingShares

Remove ==
    /\ pendingBlocks' = pendingBlocks \ {statV}
    /\ pendingShares' = Dec(pendingShares)

StatusRemoves ==
    /\ statPC = "remove"
    /\ statPC' = "timeout"
    /\ invalidShares' = statReg + 1 /\ statReg' = 0
    /\ Remove
    /\ failed' = failed + 1
    /\ Start
    /\ UNCHANGED <<pendingLock, statTodo, statV, total>>

StatusReturns ==
    /\ statPC = "timeout"
    /\ TimeoutReturns
    /\ statPC' = "scan"
    /\ UNCHANGED <<book, pendingLock, statTodo, statV, statReg, total>>

StatusUnlocks ==
    /\ statPC = "scan" /\ statTodo = {}
    /\ statPC' = "valid" /\ statV' = 1 /\ pendingLock' = None
    /\ UNCHANGED <<book, statTodo, statReg, total, call, inbox>>

(* The counters are read without a lock, in this order.                     *)
StatusReads(at, sum, next) ==
    /\ statPC = at
    /\ statPC' = next /\ total' = sum
    /\ UNCHANGED <<book, pendingLock, statTodo, statV, statReg, call, inbox>>

ReadTotalPendingFirst ==
    \/ StatusReads("valid", pendingShares, "rejected")
    \/ StatusReads("rejected", total + invalidShares + staleShares, "pending")
    \/ StatusReads("pending", total + validShares, "log")
    \/ StatusReads("log", 0, "idle")

ReadTotal ==
    \/ StatusReads("valid", validShares, "rejected")
    \/ StatusReads("rejected", total + invalidShares + staleShares, "pending")
    \/ StatusReads("pending", total + pendingShares, "log")
    \/ StatusReads("log", 0, "idle")

Status ==
    /\ \/ Tick \/ StatusLocks \/ StatusLooks \/ StatusRemoves
       \/ StatusReturns \/ StatusUnlocks \/ ReadTotal
    /\ UNCHANGED <<templates, validShares, staleShares, subVars, rdVars, connected>>
    /\ UNCHANGED <<taken, rejected, accepted>>

-----------------------------------------------------------------------------
(* The reader of the websocket: answers go to the calls, a notification     *)
(* runs OnTxConfirm before the next message is read.                        *)

ReadAnswer ==
    /\ Head(inbox).kind = "answer"
    /\ call' = IF Head(inbox).to = "call" THEN "complete" ELSE call
    /\ UNCHANGED rdVars

ReadConfirm ==
    /\ Head(inbox).kind = "confirm"
    /\ rdPC' = "lock" /\ rdTx' = Head(inbox).tx /\ rdEnough' = Head(inbox).enough
    /\ UNCHANGED <<rdReg, call>>

ReadMessage ==
    /\ rdPC = "read" /\ inbox # <<>>
    /\ inbox' = Tail(inbox)
    /\ ReadAnswer \/ ReadConfirm
    /\ UNCHANGED <<book, validShares, pendingLock>>

ConfirmAny == rdTx \in Coinbases

ConfirmPending == rdTx \in pendingBlocks

Confirmed == rdPC' = "read" /\ rdTx' = 1 /\ rdEnough' = FALSE /\ rdReg' = 0

(* A block that is not pending (any more) changes nothing.                  *)
ConfirmLocks ==
    /\ rdPC = "lock" /\ pendingLock = None
    /\ IF ConfirmPending
       THEN /\ pendingLock' = "reader"
            /\ pendingShares' = Dec(pendingShares)
            /\ rdPC' = IF rdEnough THEN "valid" ELSE "invalid"
            /\ rdReg' = invalidShares
            /\ UNCHANGED <<rdTx, rdEnough>>
       ELSE Confirmed /\ UNCHANGED <<pendingLock, pendingShares>>
    /\ UNCHANGED <<pendingBlocks, invalidShares, validShares, failed, call, inbox>>

ConfirmForgets == UNCHANGED pendingBlocks

ConfirmDeletes == pendingBlocks' = pendingBlocks \ {rdTx}

ConfirmSettles ==
    /\ \/ rdPC = "valid" /\ validShares' = validShares + 1 /\ UNCHANGED <<invalidShares, failed>>
       \/ rdPC = "invalid" /\ invalidShares' = rdReg + 1 /\ failed' = failed + 1 /\ UNCHANGED validShares
    /\ ConfirmDeletes
    /\ pendingLock' = None
    /\ Confirmed
    /\ UNCHANGED <<pendingShares, call, inbox>>

Reader ==
    /\ ReadMessage \/ ConfirmLocks \/ ConfirmSettles
    /\ UNCHANGED <<templates, staleShares, subVars, statVars, connected, taken, rejected, accepted>>

-----------------------------------------------------------------------------
(* The node (external), and the client as its owner sees it.                *)

Send(m) == connected /\ Len(inbox) < MaxInbox /\ inbox' = Append(inbox, m) /\ UNCHANGED connected

(* The node reports on any block the miner may have registered, in any      *)
(* order and as often as it likes: registrations that were lost with a      *)
(* connection, or came twice, are among these.  It answers a request, be    *)
(* the call still waited for or not.                                        *)
NodeSends ==
    \/ \E c \in DOMAIN templates, enough \in BOOLEAN :
           Send([kind |-> "confirm", tx |-> c, enough |-> enough])
    \/ call = "sent" /\ Answer("call") \notin {inbox[i] : i \in DOMAIN inbox} /\ Send(Answer("call"))
    \/ Send(Answer("nobody"))

(* A request without an answer is sent again on the next connection.        *)
Break == connected /\ connected' = FALSE /\ inbox' = <<>>

(* The client reconnects, or its owner makes another.                       *)
Connect == ~connected /\ connected' = TRUE /\ UNCHANGED inbox

Connection ==
    /\ NodeSends \/ Break \/ Connect
    /\ UNCHANGED <<templates, call>>

-----------------------------------------------------------------------------
Outside ==
    /\ NewTemplate \/ CallRuns \/ Connection
    /\ UNCHANGED <<counters, pendingLock, subVars, statVars, rdVars, history>>

Next == Submitter \/ Status \/ Reader \/ Outside

Spec == Init /\ [][Next]_vars

(* Go's mutex serves whoever waits in turn, hence strong fairness for those *)
(* who take PendingLock; the ticker of Timeout and the scheduler give weak  *)
(* fairness to the rest of Status and of the reader and to the submitter's  *)
(* return.  Nothing is asked of the node, of the owner, of the calls.       *)
Fairness ==
    /\ WF_vars(subPC = "timeout" /\ Submitter)
    /\ WF_vars(statPC # "lock" /\ Status)
    /\ SF_vars(statPC = "lock" /\ Status)
    /\ WF_vars(rdPC \in {"valid", "invalid"} /\ Reader)
    /\ SF_vars(rdPC = "lock" /\ Reader)

FairSpec == Spec /\ Fairness

-----------------------------------------------------------------------------
Messages == [kind : {"confirm"}, tx : Nat, enough : BOOLEAN]
              \cup [kind : {"answer"}, to : {"call", "nobody"}]

BookTypes ==
    /\ templates \in Seq(Nat) /\ Len(templates) <= MaxTemplates
    /\ pendingBlocks \subseteq DOMAIN templates
    /\ pendingShares \in Nat /\ validShares \in Nat /\ invalidShares \in Nat /\ staleShares \in Nat
    /\ pendingLock \in {None, "submitter", "status", "reader"}
    /\ taken \in Nat /\ rejected \in Nat /\ accepted \in Nat /\ failed \in Nat

SubmitterTypes ==
    subPC \in {"idle", "invalid", "get", "lock", "timeout"} /\ subTx \in Nat /\ subReg \in Nat

StatusTypes ==
    /\ statPC \in {"idle", "lock", "scan", "remove", "timeout", "valid", "rejected", "pending", "log"}
    /\ statTodo \subseteq pendingBlocks /\ statV \in Nat /\ statReg \in Nat /\ total \in Nat

ReaderTypes ==
    /\ rdPC \in {"read", "lock", "valid", "invalid"}
    /\ rdTx \in Nat /\ rdEnough \in BOOLEAN /\ rdReg \in Nat

NetTypes ==
    /\ call \in {None, "check", "sent", "complete"} /\ connected \in BOOLEAN
    /\ inbox \in Seq(Messages)

(* The types of the fields of QitmeerRobot and of the goroutines' positions *)
(* (robot.go).                                                              *)
TypeOK == BookTypes /\ SubmitterTypes /\ StatusTypes /\ ReaderTypes /\ NetTypes

(* Every accepted share is accounted for once: it is pending, confirmed, or *)
(* given up by OnTxConfirm or by Status, whichever comes first, and no      *)
(* order of the two counts it twice or drops it (robot.go 267, 332, 405,    *)
(* 411).  InvalidShares itself cannot say so: it loses increments.          *)
Balanced ==
    accepted = pendingShares + validShares + failed + (IF rdPC \in {"valid", "invalid"} THEN 1 ELSE 0)

(* PendingShares never says less than PendingBlocks holds: it may say more, *)
(* for a coinbase entered twice is settled once (robot.go 262-267).         *)
PendingCovers == pendingLock = None => Cardinality(pendingBlocks) <= pendingShares

(* PendingShares, an unsigned counter that Status and OnTxConfirm both      *)
(* decrement, never goes below zero (robot.go 332, 405, 411).               *)
NeverWraps == [][pendingShares' <= pendingShares + 1]_vars

(* The total Status prints is read from four counters without a lock while  *)
(* blocks move between them, and increments are lost; yet it never claims   *)
(* more shares than were taken (robot.go 354-365).                          *)
TotalNotInflated == statPC = "log" => total <= taken

(* The accounting is a ledger in which every open block is judged once.     *)
Ledger == INSTANCE BlockLedger WITH
    open <- pendingBlocks, entered <- accepted, good <- validShares, bad <- failed

ImplementsLedger == Ledger!Spec

(* The reader that waits for PendingLock while its holder waits for an      *)
(* answer that only the reader can deliver goes on all the same: the ticker *)
(* of Timeout breaks the circle (robot.go 280, 400; utils.go 250-266).      *)
ReaderProceeds == rdPC = "lock" ~> rdPC = "read"

(* A block the chain has outgrown does not stay pending, whatever becomes   *)
(* of the connection and of the node's notifications (robot.go 328-333):    *)
(* this is what settles a block whose submission was never answered or      *)
(* whose registration was lost.                                             *)
OutgrownLeaves ==
    \A c \in Coinbases :
        (c \in pendingBlocks /\ Height > templates[c] + NotConfirmHeight) ~> c \notin pendingBlocks
=============================================================================
