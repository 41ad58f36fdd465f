---------------------------- MODULE JobDispatch ----------------------------
(***************************************************************************)
(* How a job travels from the node or the pool to the devices, and how a   *)
(* share a device finds travels back: the goroutines of                    *)
(* symbols/qitmeer/robot.go (ListenWork, SubmitWork, the OnBlockConnected  *)
(* handlers), work.go (Get, PoolGet, CopyNew), core/device.go (SetNewWork, *)
(* SetForceUpdate, SubmitShare) and the CPU miner of pow_meer_cpu.go.      *)
(*                                                                         *)
(*   listener, submitter, handlers  --newWork-->  miner(d)                 *)
(*   miner(d) --submitData--> forwarder(d) --SubmitStr--> submitter        *)
(*                                                                         *)
(* Go's channels of capacity one are slots that hold one value or none;    *)
(* the unbuffered SubmitStr is a joint step of its two ends.  The fields   *)
(* HasNewWork, ForceStop, Ing and ForceUpdate are read and written with no *)
(* lock: every access is a step of its own or lies in a step where it      *)
(* commutes with what the other goroutines can do in between.              *)
(***************************************************************************)
EXTENDS Integers

CONSTANTS
    NumDevices,      \* devices enabled at start, in the order of robot.Devices
    Handlers,        \* slots for running OnBlockConnected goroutines
    Pool,            \* TRUE: stratum pool; FALSE: solo, against a full node
    TaskForceStop,   \* option task_force_stop
    EmptyTemplates,  \* serials of the templates with at most one transaction
    Undecodable,     \* TRUE: a block the node accepted may not decode here
    MaxTip,          \* bound: versions of the chain tip, or of the pool's job
    MaxShares        \* bound: shares one device finds

Listener  == "listener"
Submitter == "submitter"
Free      == "free"

ASSUME DevicesAssumption  == NumDevices \in Nat \ {0}
ASSUME HandlersAssumption == {Listener, Submitter, Free} \cap Handlers = {}
ASSUME OptionsAssumption  == {Pool, TaskForceStop, Undecodable} \subseteq BOOLEAN
ASSUME BoundsAssumption   == MaxTip \in Nat /\ MaxShares \in Nat

Devices == 1 .. NumDevices
Procs   == {Listener, Submitter} \cup Handlers

(* Jobs are numbered in the order they were obtained.  Live is the shared   *)
(* &this.Work that a forced stop sends instead of a copy.                  *)
NoJob == -1
Live  == 0
Jobs  == Nat \ {0}

(* A share names its device, its job, and its rank among the device's finds *)
Shares  == [dev : Devices, job : Jobs, n : Jobs]
NoShare == [dev |-> 0, job |-> 0, n |-> 0]

VARIABLES
    tip,          \* height of the node's tip; in pool mode version of stra.PoolWork
    gbt,          \* serial of this.Work.Block (of this.Work.PoolWork), 0 when nil
    height,       \* this.Work.Block.Height
    ing,          \* this.Work.Ing
    forceUpdate,  \* this.Work.ForceUpdate
    first,        \* ListenWork's local variable of that name
    npc, ndev, ncopy,                    \* per notifier: position, device, copy
    submitLock,                          \* who holds robot.SubmitLock
    newWork, hasNewWork, forceStop,      \* per device: channel and flags
    mpc, mwork, mjob, hasSubmit, mshare, \* per device: Mine and its locals
    submitData, fpc, fshare,             \* per device: channel and SubmitShare
    sshare,       \* the share the submitter holds
    found, judged,\* per device: shares found; shares dropped or submitted
    lastSent,     \* per device: rank of the last share that was submitted
    quit          \* the context is cancelled

workVars   == <<tip, gbt, height, ing, forceUpdate, first>>
notifyVars == <<npc, ndev, ncopy, submitLock>>
jobVars    == <<newWork, hasNewWork, forceStop>>
minerVars  == <<mpc, mwork, mjob, hasSubmit, mshare>>
shareVars  == <<submitData, fpc, fshare, sshare, found, judged, lastSent>>
vars == <<workVars, notifyVars, jobVars, minerVars, shareVars, quit>>

InGet    == {"claim", "ask", "rpc", "got"}
InNotify == {"decide", "announce", "send", "fannounce", "fsend", "fset"}
NotifierStates == {"idle", "lock", "submit", "enter", "done"} \cup InGet \cup InNotify
MinerStates == {"wait", "got", "mine", "hash", "send", "exit", "panicClosed", "panicNil"}
Stopped     == {"exit", "panicClosed", "panicNil"}

(* In pool mode there is nothing to mine before the first mining.notify.    *)
Init ==
    /\ tip = IF Pool THEN 0 ELSE 1
    /\ gbt = 0 /\ height = 0
    /\ ing = FALSE /\ forceUpdate = FALSE /\ first = TRUE
    /\ npc = [p \in Procs |-> "idle"]
    /\ ndev = [p \in Procs |-> 1]
    /\ ncopy = [p \in Procs |-> NoJob]
    /\ submitLock = Free
    /\ newWork = [d \in Devices |-> NoJob]
    /\ hasNewWork = [d \in Devices |-> FALSE]
    /\ forceStop = [d \in Devices |-> FALSE]
    /\ mpc = [d \in Devices |-> "wait"]
    /\ mwork = [d \in Devices |-> NoJob]
    /\ mjob = [d \in Devices |-> NoJob]
    /\ hasSubmit = [d \in Devices |-> FALSE]
    /\ mshare = [d \in Devices |-> NoShare]
    /\ submitData = [d \in Devices |-> NoShare]
    /\ fpc = [d \in Devices |-> "idle"]
    /\ fshare = [d \in Devices |-> NoShare]
    /\ sshare = NoShare
    /\ found = [d \in Devices |-> 0]
    /\ judged = [d \in Devices |-> 0]
    /\ lastSent = [d \in Devices |-> 0]
    /\ quit = FALSE

-----------------------------------------------------------------------------
(* The environment: the chain grows, or the pool changes its job; the user  *)
(* interrupts the program.                                                  *)

(* In solo mode the node's blockConnected notification starts a handler.    *)
NewTip ==
    /\ tip < MaxTip
    /\ tip' = tip + 1
    /\ \/ Pool /\ UNCHANGED npc
       \/ ~Pool /\ \E h \in Handlers : npc[h] = "idle" /\ npc' = [npc EXCEPT ![h] = "lock"]
    /\ UNCHANGED <<gbt, height, ing, forceUpdate, first, ndev, ncopy, submitLock>>
    /\ UNCHANGED <<jobVars, minerVars, shareVars, quit>>

Interrupt ==
    /\ ~quit
    /\ quit' = TRUE
    /\ UNCHANGED <<workVars, notifyVars, jobVars, minerVars, shareVars>>

-----------------------------------------------------------------------------
(* What the notifiers share: moving through the device loop of NotifyWork,  *)
(* and what comes after it.                                                 *)

Goto(p, pc) == npc' = [npc EXCEPT ![p] = pc]

(* The end of a notifier's round.  The submitter and the handlers run       *)
(* their round under SubmitLock, the listener does not.                     *)
FinishLocked(p) ==
    /\ Goto(p, "idle")
    /\ UNCHANGED submitLock

Finish(p) ==
    /\ Goto(p, "idle")
    /\ submitLock' = IF p = Listener THEN submitLock ELSE Free

(* After the device the notifier is at: the next one, or the end.           *)
NextDeviceSkipsLast(p, again) ==
    \/ /\ ndev[p] + 1 < NumDevices
       /\ ndev' = [ndev EXCEPT ![p] = @ + 1]
       /\ Goto(p, again)
       /\ UNCHANGED submitLock
    \/ /\ ndev[p] + 1 >= NumDevices
       /\ ndev' = [ndev EXCEPT ![p] = 1]
       /\ Finish(p)

NextDevicePastEnd(p, again) ==
    \/ /\ ndev[p] <= NumDevices
       /\ ndev' = [ndev EXCEPT ![p] = @ + 1]
       /\ Goto(p, again)
       /\ UNCHANGED submitLock
    \/ /\ ndev[p] > NumDevices
       /\ ndev' = [ndev EXCEPT ![p] = 1]
       /\ Finish(p)

NextDevice(p, again) ==
    \/ /\ ndev[p] < NumDevices
       /\ ndev' = [ndev EXCEPT ![p] = @ + 1]
       /\ Goto(p, again)
       /\ UNCHANGED submitLock
    \/ /\ ndev[p] = NumDevices
       /\ ndev' = [ndev EXCEPT ![p] = 1]
       /\ Finish(p)

(* CopyNew copies the stratum session's job, which may be newer than the    *)
(* one PoolGet took; in solo mode it copies the robot's template.           *)
CopyNew == IF Pool THEN tip ELSE gbt

(* NotifyWork(true), for one device: clear ForceStop, copy the job, raise   *)
(* HasNewWork; then the send, which waits for room in the channel.          *)
Announce(p) ==
    /\ npc[p] = "announce"
    /\ forceStop' = [forceStop EXCEPT ![ndev[p]] = FALSE]
    /\ ncopy' = [ncopy EXCEPT ![p] = CopyNew]
    /\ hasNewWork' = [hasNewWork EXCEPT ![ndev[p]] = TRUE]
    /\ Goto(p, "send")
    /\ UNCHANGED <<workVars, ndev, submitLock, newWork, minerVars, shareVars, quit>>

Deliver(p) ==
    /\ npc[p] = "send"
    /\ newWork[ndev[p]] = NoJob
    /\ newWork' = [newWork EXCEPT ![ndev[p]] = ncopy[p]]
    /\ ncopy' = [ncopy EXCEPT ![p] = NoJob]
    /\ NextDevice(p, "announce")
    /\ UNCHANGED <<workVars, hasNewWork, forceStop, minerVars, shareVars, quit>>

(* NotifyWork(false): when the last template request failed and the option  *)
(* asks for it, every device is handed &this.Work and told to stop.         *)
Decide(p) ==
    /\ npc[p] = "decide"
    /\ \/ forceUpdate /\ Goto(p, "fannounce") /\ UNCHANGED submitLock
       \/ ~forceUpdate /\ Finish(p)
    /\ UNCHANGED <<workVars, ndev, ncopy, jobVars, minerVars, shareVars, quit>>

ForceAnnounce(p) ==
    /\ npc[p] = "fannounce"
    /\ hasNewWork' = [hasNewWork EXCEPT ![ndev[p]] = TRUE]
    /\ Goto(p, "fsend")
    /\ UNCHANGED <<workVars, ndev, ncopy, submitLock, newWork, forceStop>>
    /\ UNCHANGED <<minerVars, shareVars, quit>>

ForceDeliver(p) ==
    /\ npc[p] = "fsend"
    /\ newWork[ndev[p]] = NoJob
    /\ newWork' = [newWork EXCEPT ![ndev[p]] = Live]
    /\ Goto(p, "fset")
    /\ UNCHANGED <<workVars, ndev, ncopy, submitLock, hasNewWork, forceStop>>
    /\ UNCHANGED <<minerVars, shareVars, quit>>

ForceSet(p) ==
    /\ npc[p] = "fset"
    /\ forceStop' = [forceStop EXCEPT ![ndev[p]] = TRUE]
    /\ NextDevice(p, "fannounce")
    /\ UNCHANGED <<workVars, ncopy, newWork, hasNewWork, minerVars, shareVars, quit>>

-----------------------------------------------------------------------------
(* QitmeerWork.Get.  Ing is tested and set with nothing in between to make  *)
(* the two one step; a failed request is retried for ever.                  *)

Enter(p) ==
    /\ npc[p] = "enter"
    /\ Goto(p, IF ing THEN "decide" ELSE "claim")
    /\ UNCHANGED <<workVars, ndev, ncopy, submitLock, jobVars, minerVars, shareVars, quit>>

Claim(p) ==
    /\ npc[p] = "claim"
    /\ ing' = TRUE
    /\ Goto(p, "ask")
    /\ UNCHANGED <<tip, gbt, height, forceUpdate, first, ndev, ncopy, submitLock>>
    /\ UNCHANGED <<jobVars, minerVars, shareVars, quit>>

Ask(p) ==
    /\ npc[p] = "ask"
    /\ forceUpdate' = FALSE
    /\ Goto(p, "rpc")
    /\ UNCHANGED <<tip, gbt, height, ing, first, ndev, ncopy, submitLock>>
    /\ UNCHANGED <<jobVars, minerVars, shareVars, quit>>

(* No answer or an error; only the answer of a node that is still           *)
(* downloading the chain leaves ForceUpdate alone.                          *)
RpcFails(p) ==
    /\ npc[p] = "rpc"
    /\ \/ forceUpdate' = (forceUpdate \/ TaskForceStop)
       \/ UNCHANGED forceUpdate
    /\ Goto(p, "ask")
    /\ UNCHANGED <<tip, gbt, height, ing, first, ndev, ncopy, submitLock>>
    /\ UNCHANGED <<jobVars, minerVars, shareVars, quit>>

(* "not has new work": a template no higher than the one at hand, unless    *)
(* the caller forces it or the one at hand has aged.                        *)
NotNew(p) ==
    /\ npc[p] = "rpc"
    /\ p # Submitter
    /\ gbt # 0 /\ height >= tip
    /\ ing' = FALSE
    /\ Goto(p, "decide")
    /\ UNCHANGED <<tip, gbt, height, forceUpdate, first, ndev, ncopy, submitLock>>
    /\ UNCHANGED <<jobVars, minerVars, shareVars, quit>>

Install(p) ==
    /\ npc[p] = "rpc"
    /\ gbt' = gbt + 1
    /\ height' = tip
    /\ Goto(p, "got")
    /\ UNCHANGED <<tip, ing, forceUpdate, first, ndev, ncopy, submitLock>>
    /\ UNCHANGED <<jobVars, minerVars, shareVars, quit>>

(* Get sleeps TaskInterval with Ing still set before it returns true.       *)
GetReturns(p) ==
    /\ npc[p] = "got"
    /\ ing' = FALSE
    /\ first' = (first /\ p # Listener)
    /\ Goto(p, "announce")
    /\ UNCHANGED <<tip, gbt, height, forceUpdate, ndev, ncopy, submitLock>>
    /\ UNCHANGED <<jobVars, minerVars, shareVars, quit>>

-----------------------------------------------------------------------------
(* ListenWork: every TaskInterval, a look at the pool's job; in solo mode   *)
(* the first template only, and after it the forced stop if one is due.     *)

ListenPool ==
    /\ Pool /\ npc[Listener] = "idle" /\ ~quit
    /\ tip # gbt
    /\ gbt' = tip
    /\ Goto(Listener, "announce")
    /\ UNCHANGED <<tip, height, ing, forceUpdate, first, ndev, ncopy, submitLock>>
    /\ UNCHANGED <<jobVars, minerVars, shareVars, quit>>

ListenSolo ==
    /\ ~Pool /\ npc[Listener] = "idle" /\ ~quit
    /\ \/ first /\ Goto(Listener, "enter")
       \/ ~first /\ forceUpdate /\ Goto(Listener, "fannounce")
    /\ UNCHANGED <<workVars, ndev, ncopy, submitLock, jobVars, minerVars, shareVars, quit>>

ListenExit ==
    /\ npc[Listener] = "idle" /\ quit
    /\ Goto(Listener, "done")
    /\ UNCHANGED <<workVars, ndev, ncopy, submitLock, jobVars, minerVars, shareVars, quit>>

(* A handler of OnBlockConnected takes SubmitLock, then runs Get(false).    *)
HandlerLocks(h) ==
    /\ npc[h] = "lock"
    /\ submitLock = Free
    /\ submitLock' = h
    /\ Goto(h, "enter")
    /\ UNCHANGED <<workVars, ndev, ncopy, jobVars, minerVars, shareVars, quit>>

-----------------------------------------------------------------------------
(* The submitter.  Its exit closes SubmitStr.                               *)

SubmitterLocks ==
    /\ npc[Submitter] = "lock"
    /\ submitLock = Free
    /\ submitLock' = Submitter
    /\ Goto(Submitter, "submit")
    /\ UNCHANGED <<workVars, ndev, ncopy, jobVars, minerVars, shareVars, quit>>

(* The answer of the node or the pool settles the share.                    *)
Judge ==
    /\ npc[Submitter] = "submit"
    /\ judged' = [judged EXCEPT ![sshare.dev] = @ + 1]
    /\ lastSent' = [lastSent EXCEPT ![sshare.dev] = sshare.n]
    /\ sshare' = NoShare

SubmitAccepted ==
    /\ Judge
    /\ Finish(Submitter)
    /\ UNCHANGED <<workVars, ndev, ncopy, jobVars, minerVars>>
    /\ UNCHANGED <<submitData, fpc, fshare, found, quit>>

(* robot.go:253,258: `continue' with SubmitLock still held.                 *)
SubmitUndecodable ==
    /\ Undecodable /\ ~Pool
    /\ Judge
    /\ Goto(Submitter, "idle")
    /\ UNCHANGED <<workVars, ndev, ncopy, submitLock, jobVars, minerVars>>
    /\ UNCHANGED <<submitData, fpc, fshare, found, quit>>

(* Only a solo miner answers a rejection with Get(true) and a notification. *)
RefetchesAlways == TRUE
Refetches == ~Pool

SubmitRejected ==
    /\ Judge
    /\ \/ Refetches /\ Goto(Submitter, "enter") /\ UNCHANGED submitLock
       \/ ~Refetches /\ Finish(Submitter)
    /\ UNCHANGED <<workVars, ndev, ncopy, jobVars, minerVars>>
    /\ UNCHANGED <<submitData, fpc, fshare, found, quit>>

SubmitterExit ==
    /\ npc[Submitter] = "idle" /\ quit
    /\ Goto(Submitter, "done")
    /\ UNCHANGED <<workVars, ndev, ncopy, submitLock, jobVars, minerVars, shareVars, quit>>

-----------------------------------------------------------------------------
(* SubmitShare, the forwarder of a device.                                  *)

SubmitStrClosed == npc[Submitter] = "done"

ForwarderTakes(d) ==
    /\ fpc[d] = "idle"
    /\ submitData[d] # NoShare
    /\ fshare' = [fshare EXCEPT ![d] = submitData[d]]
    /\ submitData' = [submitData EXCEPT ![d] = NoShare]
    /\ fpc' = [fpc EXCEPT ![d] = "check"]
    /\ UNCHANGED <<workVars, notifyVars, jobVars, minerVars, sshare, found, judged, lastSent, quit>>

(* "the stale submit": a share found before the device's newest job.        *)
ForwarderDrops(d) ==
    /\ fpc[d] = "check"
    /\ hasNewWork[d]
    /\ fshare' = [fshare EXCEPT ![d] = NoShare]
    /\ judged' = [judged EXCEPT ![d] = @ + 1]
    /\ fpc' = [fpc EXCEPT ![d] = "idle"]
    /\ UNCHANGED <<workVars, notifyVars, jobVars, minerVars, submitData, sshare, found, lastSent, quit>>

ForwarderPasses(d) ==
    /\ fpc[d] = "check"
    /\ ~hasNewWork[d]
    /\ fpc' = [fpc EXCEPT ![d] = "send"]
    /\ UNCHANGED <<workVars, notifyVars, jobVars, minerVars>>
    /\ UNCHANGED <<submitData, fshare, sshare, found, judged, lastSent, quit>>

(* SubmitStr has no buffer: the send and the submitter's receive are one.   *)
Receive(d) ==
    /\ fpc[d] = "send"
    /\ npc[Submitter] = "idle"
    /\ sshare' = fshare[d]
    /\ fshare' = [fshare EXCEPT ![d] = NoShare]
    /\ fpc' = [fpc EXCEPT ![d] = "idle"]
    /\ Goto(Submitter, "lock")
    /\ UNCHANGED <<workVars, ndev, ncopy, submitLock, jobVars, minerVars>>
    /\ UNCHANGED <<submitData, found, judged, lastSent, quit>>

(* On quit, or by the recovered panic of a send on the closed SubmitStr;    *)
(* either way SubmitData is closed.                                         *)
ForwarderExit(d) ==
    /\ \/ fpc[d] = "idle" /\ quit
       \/ fpc[d] = "send" /\ SubmitStrClosed
    /\ fpc' = [fpc EXCEPT ![d] = "done"]
    /\ UNCHANGED <<workVars, notifyVars, jobVars, minerVars>>
    /\ UNCHANGED <<submitData, fshare, sshare, found, judged, lastSent, quit>>

-----------------------------------------------------------------------------
(* Mine, the CPU miner of a device.                                         *)

SubmitDataLeftOpen(d) == FALSE
SubmitDataClosed(d)   == fpc[d] = "done"

Take(d) ==
    /\ mpc[d] = "wait"
    /\ newWork[d] # NoJob
    /\ mwork' = [mwork EXCEPT ![d] = newWork[d]]
    /\ newWork' = [newWork EXCEPT ![d] = NoJob]
    /\ mpc' = [mpc EXCEPT ![d] = "got"]
    /\ UNCHANGED <<workVars, notifyVars, hasNewWork, forceStop>>
    /\ UNCHANGED <<mjob, hasSubmit, mshare, shareVars, quit>>

(* "continue": stopped by force, or nothing new after all.                  *)
Discard(d) ==
    /\ mpc[d] = "got"
    /\ forceStop[d] \/ ~hasNewWork[d]
    /\ mpc' = [mpc EXCEPT ![d] = "wait"]
    /\ mwork' = [mwork EXCEPT ![d] = NoJob]
    /\ UNCHANGED <<workVars, notifyVars, jobVars, mjob, hasSubmit, mshare, shareVars, quit>>

(* &this.Work is followed when the header is built, not when it is sent.    *)
Begin(d) ==
    /\ mpc[d] = "got"
    /\ ~forceStop[d] /\ hasNewWork[d]
    /\ mwork[d] # Live \/ gbt # 0
    /\ hasNewWork' = [hasNewWork EXCEPT ![d] = FALSE]
    /\ mjob' = [mjob EXCEPT ![d] = IF mwork[d] = Live THEN gbt ELSE mwork[d]]
    /\ mwork' = [mwork EXCEPT ![d] = NoJob]
    /\ hasSubmit' = [hasSubmit EXCEPT ![d] = FALSE]
    /\ mpc' = [mpc EXCEPT ![d] = "mine"]
    /\ UNCHANGED <<workVars, notifyVars, newWork, forceStop, mshare, shareVars, quit>>

(* this.Work.Block is nil until the first template: the test of its height  *)
(* panics, recover() swallows it, and the goroutine is gone.                *)
NilTemplate(d) ==
    /\ mpc[d] = "got"
    /\ ~forceStop[d] /\ hasNewWork[d]
    /\ mwork[d] = Live /\ gbt = 0
    /\ mpc' = [mpc EXCEPT ![d] = "panicNil"]
    /\ UNCHANGED <<workVars, notifyVars, jobVars>>
    /\ UNCHANGED <<mwork, mjob, hasSubmit, mshare, shareVars, quit>>

(* The inner loop first looks at the context, then at the flags: "if has    *)
(* new work ,current calc stop".                                            *)
StopOnForceOnly(d) == forceStop[d]
CalcStops(d)       == hasNewWork[d] \/ forceStop[d]

Stop(d) ==
    /\ mpc[d] = "mine" /\ ~quit
    /\ CalcStops(d)
    /\ mpc' = [mpc EXCEPT ![d] = "wait"]
    /\ UNCHANGED <<workVars, notifyVars, jobVars>>
    /\ UNCHANGED <<mwork, mjob, hasSubmit, mshare, shareVars, quit>>

Hash(d) ==
    /\ mpc[d] = "mine" /\ ~quit
    /\ ~CalcStops(d)
    /\ mpc' = [mpc EXCEPT ![d] = "hash"]
    /\ UNCHANGED <<workVars, notifyVars, jobVars>>
    /\ UNCHANGED <<mwork, mjob, hasSubmit, mshare, shareVars, quit>>

Miss(d) ==
    /\ mpc[d] = "hash"
    /\ mpc' = [mpc EXCEPT ![d] = "mine"]
    /\ UNCHANGED <<workVars, notifyVars, jobVars>>
    /\ UNCHANGED <<mwork, mjob, hasSubmit, mshare, shareVars, quit>>

(* "empty block just can submit once"                                       *)
EmptySpent(d) == ~Pool /\ hasSubmit[d] /\ mjob[d] \in EmptyTemplates

Hit(d) ==
    /\ mpc[d] = "hash"
    /\ ~EmptySpent(d)
    /\ found[d] < MaxShares
    /\ found' = [found EXCEPT ![d] = @ + 1]
    /\ mshare' = [mshare EXCEPT ![d] = [dev |-> d, job |-> mjob[d], n |-> found[d] + 1]]
    /\ mpc' = [mpc EXCEPT ![d] = "send"]
    /\ UNCHANGED <<workVars, notifyVars, jobVars, mwork, mjob, hasSubmit>>
    /\ UNCHANGED <<submitData, fpc, fshare, sshare, judged, lastSent, quit>>

HitEmptyAgain(d) ==
    /\ mpc[d] = "hash"
    /\ EmptySpent(d)
    /\ mpc' = [mpc EXCEPT ![d] = "wait"]
    /\ UNCHANGED <<workVars, notifyVars, jobVars>>
    /\ UNCHANGED <<mwork, mjob, hasSubmit, mshare, shareVars, quit>>

(* SubmitData has room for one share.                                       *)
NoLimit(d) == TRUE
Room(d)    == submitData[d] = NoShare

Push(d) ==
    /\ mpc[d] = "send"
    /\ ~SubmitDataClosed(d) /\ Room(d)
    /\ submitData' = [submitData EXCEPT ![d] = mshare[d]]
    /\ mshare' = [mshare EXCEPT ![d] = NoShare]
    /\ hasSubmit' = [hasSubmit EXCEPT ![d] = TRUE]
    /\ mpc' = [mpc EXCEPT ![d] = "mine"]
    /\ UNCHANGED <<workVars, notifyVars, jobVars, mwork, mjob>>
    /\ UNCHANGED <<fpc, fshare, sshare, found, judged, lastSent, quit>>

(* The send on the closed SubmitData panics, and Mine recovers.             *)
PushPanics(d) ==
    /\ mpc[d] = "send"
    /\ SubmitDataClosed(d)
    /\ mpc' = [mpc EXCEPT ![d] = "panicClosed"]
    /\ UNCHANGED <<workVars, notifyVars, jobVars>>
    /\ UNCHANGED <<mwork, mjob, hasSubmit, mshare, shareVars, quit>>

MinerExit(d) ==
    /\ mpc[d] \in {"wait", "mine"} /\ quit
    /\ mpc' = [mpc EXCEPT ![d] = "exit"]
    /\ UNCHANGED <<workVars, notifyVars, jobVars>>
    /\ UNCHANGED <<mwork, mjob, hasSubmit, mshare, shareVars, quit>>

-----------------------------------------------------------------------------
NotifyStep(p) ==
    \/ Announce(p) \/ Deliver(p)
    \/ Decide(p) \/ ForceAnnounce(p) \/ ForceDeliver(p) \/ ForceSet(p)

GetStep(p) ==
    \/ Enter(p) \/ Claim(p) \/ Ask(p)
    \/ RpcFails(p) \/ NotNew(p) \/ Install(p) \/ GetReturns(p)

ListenerStep == ListenPool \/ ListenSolo \/ ListenExit

SubmitterStep ==
    \/ SubmitterLocks
    \/ SubmitAccepted \/ SubmitUndecodable \/ SubmitRejected
    \/ SubmitterExit

ProcStep(p) ==
    \/ NotifyStep(p) \/ GetStep(p)
    \/ p = Listener /\ ListenerStep
    \/ p = Submitter /\ SubmitterStep
    \/ p \in Handlers /\ HandlerLocks(p)

ForwarderStep(d) ==
    \/ ForwarderTakes(d) \/ ForwarderDrops(d) \/ ForwarderPasses(d)
    \/ Receive(d) \/ ForwarderExit(d)

MinerStep(d) ==
    \/ Take(d) \/ Discard(d) \/ Begin(d) \/ NilTemplate(d)
    \/ Stop(d) \/ Hash(d) \/ Miss(d)
    \/ Hit(d) \/ HitEmptyAgain(d) \/ Push(d) \/ PushPanics(d)
    \/ MinerExit(d)

Next ==
    \/ NewTip \/ Interrupt
    \/ \E p \in Procs : ProcStep(p)
    \/ \E d \in Devices : ForwarderStep(d) \/ MinerStep(d)

Spec == Init /\ [][Next]_vars

(* The scheduler runs every goroutine that can run, and Go serves those     *)
(* that wait on a mutex or a channel in turn, so a wait whose condition     *)
(* comes true again and again ends.  The node and the pool answer a         *)
(* submission (RpcResult has a timeout).  Nothing says that a share is ever *)
(* found, that the tip ever moves or that the user ever interrupts.         *)
Fairness ==
    /\ \A p \in Procs : SF_vars(ProcStep(p))
    /\ \A d \in Devices : SF_vars(ForwarderStep(d)) /\ WF_vars(MinerStep(d))

FairSpec == Spec /\ Fairness

(* A template request that is repeated for ever succeeds in the end.        *)
NodeAnswers == \A p \in Procs : SF_vars(NotNew(p) \/ Install(p))

FairSoloSpec == FairSpec /\ NodeAnswers

-----------------------------------------------------------------------------
TypeOK ==
    /\ tip \in Nat /\ gbt \in Nat /\ height \in Nat
    /\ ing \in BOOLEAN /\ forceUpdate \in BOOLEAN /\ first \in BOOLEAN
    /\ npc \in [Procs -> NotifierStates]
    /\ ndev \in [Procs -> Devices]
    /\ ncopy \in [Procs -> Nat \cup {NoJob}]
    /\ submitLock \in Procs \cup {Free}
    /\ newWork \in [Devices -> Nat \cup {NoJob}]
    /\ hasNewWork \in [Devices -> BOOLEAN]
    /\ forceStop \in [Devices -> BOOLEAN]
    /\ mpc \in [Devices -> MinerStates]
    /\ mwork \in [Devices -> Nat \cup {NoJob}]
    /\ mjob \in [Devices -> Nat \cup {NoJob}]
    /\ hasSubmit \in [Devices -> BOOLEAN]
    /\ mshare \in [Devices -> Shares \cup {NoShare}]
    /\ submitData \in [Devices -> Shares \cup {NoShare}]
    /\ fpc \in [Devices -> {"idle", "check", "send", "done"}]
    /\ fshare \in [Devices -> Shares \cup {NoShare}]
    /\ sshare \in Shares \cup {NoShare}
    /\ found \in [Devices -> Nat]
    /\ judged \in [Devices -> Nat]
    /\ lastSent \in [Devices -> Nat]
    /\ quit \in BOOLEAN

(* Shares of d in one place of the pipeline: none or one.                   *)
Held(share, d) == IF share.dev = d THEN 1 ELSE 0

Before(x, y, d) == x.dev = d /\ y.dev = d => x.n < y.n

Between(x, d) == x.dev = d => lastSent[d] < x.n /\ x.n <= found[d]

(* From the last share of d submitted to the one its miner holds the ranks  *)
(* rise, and what is in the pipeline is what was found and not yet settled. *)
InOrder(d) ==
    /\ found[d] = judged[d] + Held(sshare, d) + Held(fshare[d], d)
                            + Held(submitData[d], d) + Held(mshare[d], d)
    /\ lastSent[d] <= found[d]
    /\ Between(sshare, d) /\ Between(fshare[d], d)
    /\ Between(submitData[d], d) /\ Between(mshare[d], d)
    /\ Before(sshare, fshare[d], d)
    /\ Before(sshare, submitData[d], d)
    /\ Before(sshare, mshare[d], d)
    /\ Before(fshare[d], submitData[d], d)
    /\ Before(fshare[d], mshare[d], d)
    /\ Before(submitData[d], mshare[d], d)

(* No share is lost, sent twice or overtaken, whatever is dropped as stale, *)
(* whoever exits and whichever panic is recovered (device.go:195-220,       *)
(* robot.go:207-223, pow_meer_cpu.go:151).                                  *)
ShareOrder == \A d \in Devices : InOrder(d)

InRound(p) == npc[p] \notin {"idle", "lock", "done"}

(* Submissions, the template request that follows a rejection and those of  *)
(* the OnBlockConnected handlers, with their notifications, exclude each    *)
(* other, and SubmitLock is held by no one who is not in such a round,      *)
(* unless a block did not decode (robot.go:220-247,301,420-426).            *)
SubmitLockGuards ==
    \A p \in Procs \ {Listener} :
        /\ InRound(p) => submitLock = p
        /\ submitLock = p => InRound(p) \/ (Undecodable /\ p = Submitter)

(* The newest job on its way to a device's miner, or with it.               *)
NewestJob(d) ==
    IF newWork[d] # NoJob THEN newWork[d]
    ELSE IF mwork[d] # NoJob THEN mwork[d]
    ELSE mjob[d]

(* In pool mode, once the listener is through its devices, every one of     *)
(* them has the job it took, or a later one, in its channel, in its miner's *)
(* hands or under its hash loop: NotifyWork misses no device and no miner   *)
(* throws the job away (robot.go:176-188, pow_meer_cpu.go:74-95).           *)
EveryDeviceGetsTheJob ==
    npc[Listener] \in {"idle", "done"} /\ gbt # 0 =>
        \A d \in Devices : NewestJob(d) >= gbt

(* In pool mode no device ever returns to an older job: the channel keeps   *)
(* the order in which the only notifier copied them.                        *)
JobsMoveForward ==
    [][\A d \in Devices : mjob'[d] >= mjob[d]]_vars

OnTheWay(d, n) ==
    \E share \in {sshare, fshare[d], submitData[d], mshare[d]} : share.dev = d /\ share.n = n

(* A share that was found is dropped as stale or judged by the node or the  *)
(* pool in the end, unless the program is interrupted.                      *)
SharesSettled ==
    \A d \in Devices : \A n \in 1 .. MaxShares :
        OnTheWay(d, n) ~> ~OnTheWay(d, n) \/ quit

(* pow_meer_cpu.go:114, "if has new work ,current calc stop": a miner that  *)
(* hashes, or waits to hand over a share, while HasNewWork is raised leaves *)
(* its job in the end.                                                      *)
NewWorkStopsCalc ==
    \A d \in Devices :
        hasNewWork[d] /\ mpc[d] \in {"mine", "hash", "send"}
            ~> mpc[d] \in {"wait"} \cup Stopped

(* Once the context is cancelled the submitter and the two goroutines of    *)
(* every device end, those blocked on a channel by its being closed         *)
(* (robot.go:210-213, device.go:199-211, pow_meer_cpu.go:58-65).            *)
QuitStopsDevices ==
    quit ~> /\ npc[Submitter] = "done"
            /\ \A d \in Devices : mpc[d] \in Stopped /\ fpc[d] = "done"
=============================================================================
