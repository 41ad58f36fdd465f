------------------------- MODULE JobDispatchProofs -------------------------
(***************************************************************************)
(* Theorems about JobDispatch, for any number of devices and handlers, any *)
(* options and any bounds: the types, the order of the shares and          *)
(* SubmitLock in both modes; in pool mode the fan-out of the jobs and      *)
(* their order, and that neither a share nor a miner waits for nothing.    *)
(***************************************************************************)
EXTENDS JobDispatch, TLAPS

(* Where a share can be, and which job a miner can be on: what the type     *)
(* invariant needs to be inductive, and what ShareOrder rests on.           *)
Places ==
    /\ npc[Submitter] \in {"lock", "submit"} => sshare \in Shares
    /\ npc[Submitter] \notin {"lock", "submit"} => sshare = NoShare
    /\ \A d \in Devices :
        /\ fpc[d] = "idle" => fshare[d] = NoShare
        /\ fpc[d] \in {"check", "send"} => fshare[d].dev = d
        /\ fshare[d].dev \in {0, d}
        /\ submitData[d].dev \in {0, d}
        /\ mshare[d].dev \in {0, d}
        /\ mpc[d] = "send" => mshare[d].dev = d
        /\ mpc[d] \in {"wait", "got", "mine", "hash"} => mshare[d] = NoShare

RealJobs ==
    \A d \in Devices :
        /\ mpc[d] = "got" => mwork[d] # NoJob
        /\ mpc[d] \in {"mine", "hash", "send"} => mjob[d] \in Jobs

TypeInv == TypeOK /\ Places /\ RealJobs

-----------------------------------------------------------------------------
(* A share names an enabled device and has a positive rank; NoShare does    *)
(* neither.  With these two facts the proofs leave the records folded.      *)
LEMMA NoShareFact == NoShare.dev = 0 /\ NoShare.n = 0 /\ NoShare \notin Shares
BY DevicesAssumption DEF NoShare, Shares, Devices, Jobs

LEMMA ShareFact ==
    ASSUME NEW s \in Shares
    PROVE  s.dev \in Devices /\ s.n \in Jobs /\ s # NoShare
BY DevicesAssumption DEF NoShare, Shares, Devices, Jobs

LEMMA ProcsFact ==
    /\ Listener \in Procs /\ Submitter \in Procs /\ Listener # Submitter
    /\ Free \notin Procs
    /\ Handlers \subseteq Procs /\ Listener \notin Handlers /\ Submitter \notin Handlers
BY HandlersAssumption DEF Procs, Listener, Submitter, Free

LEMMA DevicesFact ==
    /\ 1 \in Devices
    /\ \A d \in Devices : d \in Nat /\ d # 0 /\ d <= NumDevices
    /\ \A d \in Devices : d < NumDevices => d + 1 \in Devices
BY DevicesAssumption DEF Devices

LEMMA TypeInit == Init => TypeInv
<1> SUFFICES ASSUME Init PROVE TypeInv
  OBVIOUS
<1> USE ProcsFact, DevicesFact DEF Init
<1>1. TypeOK
  <2>1. /\ npc \in [Procs -> NotifierStates] /\ ndev \in [Procs -> Devices]
        /\ ncopy \in [Procs -> Nat \cup {NoJob}]
    BY DEF NotifierStates, NoJob
  <2>2. /\ mpc \in [Devices -> MinerStates] /\ mwork \in [Devices -> Nat \cup {NoJob}]
        /\ mjob \in [Devices -> Nat \cup {NoJob}] /\ newWork \in [Devices -> Nat \cup {NoJob}]
    BY DEF MinerStates
  <2>3. /\ mshare \in [Devices -> Shares \cup {NoShare}]
        /\ submitData \in [Devices -> Shares \cup {NoShare}]
        /\ fshare \in [Devices -> Shares \cup {NoShare}]
        /\ sshare \in Shares \cup {NoShare}
    OBVIOUS
  <2>4. tip \in Nat /\ submitLock \in Procs \cup {Free}
    OBVIOUS
  <2> QED
    BY <2>1, <2>2, <2>3, <2>4 DEF TypeOK
<1>2. Places
  BY NoShareFact DEF Places
<1>3. RealJobs
  BY DEF RealJobs
<1> QED
  BY <1>1, <1>2, <1>3 DEF TypeInv

LEMMA NextDeviceType ==
    ASSUME npc \in [Procs -> NotifierStates], ndev \in [Procs -> Devices],
           submitLock \in Procs \cup {Free},
           NEW p \in Procs, NEW again \in NotifierStates \ {"lock", "submit"},
           NextDevice(p, again)
    PROVE  /\ npc' \in [Procs -> NotifierStates]
           /\ ndev' \in [Procs -> Devices]
           /\ submitLock' \in Procs \cup {Free}
           /\ npc'[p] \notin {"lock", "submit"}
           /\ \A q \in Procs \ {p} : npc'[q] = npc[q]
<1>1. "idle" \in NotifierStates
  BY DEF NotifierStates
<1>2. CASE ndev[p] < NumDevices
  <2>2. ndev[p] # NumDevices
    BY <1>2, DevicesFact
  <2>1. ndev[p] + 1 \in Devices
    BY <1>2, DevicesFact
  <2> QED
    BY <2>1, <2>2 DEF NextDevice, Goto
<1>3. CASE ndev[p] = NumDevices
  <2>1. ~(ndev[p] < NumDevices)
    BY <1>3, DevicesFact
  <2> QED
    BY <1>1, <2>1, DevicesFact DEF NextDevice, Goto, Finish
<1> QED
  BY <1>2, <1>3 DEF NextDevice

(* A step that leaves the shares alone, and the submitter where it is or    *)
(* away from "lock" and "submit", leaves Places true.                       *)
LEMMA PlacesFrame ==
    ASSUME Places,
           UNCHANGED <<fpc, fshare, submitData, sshare, mpc, mshare>>,
           \/ npc'[Submitter] = npc[Submitter]
           \/ {npc[Submitter], npc'[Submitter]} \cap {"lock", "submit"} = {}
    PROVE  Places'
BY DEF Places

LEMMA RealJobsFrame ==
    ASSUME RealJobs, UNCHANGED <<mpc, mwork, mjob>>
    PROVE  RealJobs'
BY DEF RealJobs

LEMMA TypeNotify ==
    ASSUME TypeInv, NEW p \in Procs, NotifyStep(p)
    PROVE  TypeInv'
<1> USE DEF TypeInv, jobVars, minerVars, shareVars, workVars
<1>0. /\ {"announce", "send", "fannounce", "fsend", "fset", "decide", "idle"}
             \subseteq NotifierStates \ {"lock", "submit"}
      /\ npc[p] \in NotifierStates /\ ndev[p] \in Devices
  BY DEF NotifierStates, InNotify, TypeOK
<1>1. CASE Announce(p)
  <2>1. CopyNew \in Nat
    BY DEF CopyNew, TypeOK
  <2>2. TypeOK'
    BY <1>0, <1>1, <2>1 DEF TypeOK, Announce, Goto
  <2> QED
    BY <1>1, <2>2, PlacesFrame, RealJobsFrame DEF Announce, Goto, TypeOK
<1>2. CASE Deliver(p)
  <2>1. TypeOK'
    BY <1>0, <1>2, NextDeviceType DEF TypeOK, Deliver
  <2> QED
    BY <1>0, <1>2, <2>1, NextDeviceType, PlacesFrame, RealJobsFrame DEF Deliver, TypeOK
<1>3. CASE Decide(p)
  <2>1. TypeOK'
    BY <1>0, <1>3 DEF TypeOK, Decide, Goto, Finish
  <2> QED
    BY <1>3, <2>1, PlacesFrame, RealJobsFrame DEF Decide, Goto, Finish, TypeOK
<1>4. CASE ForceAnnounce(p)
  <2>1. TypeOK'
    BY <1>0, <1>4 DEF TypeOK, ForceAnnounce, Goto
  <2> QED
    BY <1>4, <2>1, PlacesFrame, RealJobsFrame DEF ForceAnnounce, Goto, TypeOK
<1>5. CASE ForceDeliver(p)
  <2>1. TypeOK'
    BY <1>0, <1>5 DEF TypeOK, ForceDeliver, Goto, Live
  <2> QED
    BY <1>5, <2>1, PlacesFrame, RealJobsFrame DEF ForceDeliver, Goto, TypeOK
<1>6. CASE ForceSet(p)
  <2>1. TypeOK'
    BY <1>0, <1>6, NextDeviceType DEF TypeOK, ForceSet
  <2>2. Places'
    BY <1>0, <1>6, NextDeviceType, PlacesFrame, ProcsFact DEF ForceSet, TypeOK
  <2> QED
    BY <1>6, <2>1, <2>2, RealJobsFrame DEF ForceSet
<1> QED
  BY <1>1, <1>2, <1>3, <1>4, <1>5, <1>6 DEF NotifyStep
LEMMA TypeGet ==
    ASSUME TypeInv, NEW p \in Procs, GetStep(p)
    PROVE  TypeInv'
<1> USE DEF TypeInv, jobVars, minerVars, shareVars
<1>0. {"enter", "claim", "ask", "rpc", "got", "decide", "announce"}
          \subseteq NotifierStates \ {"lock", "submit"}
  BY DEF NotifierStates, InGet, InNotify
<1>1. TypeOK'
  <2>1. CASE Enter(p)
    BY <1>0, <2>1 DEF TypeOK, Enter, Goto, workVars
  <2>2. CASE Claim(p)
    BY <1>0, <2>2 DEF TypeOK, Claim, Goto
  <2>3. CASE Ask(p)
    BY <1>0, <2>3 DEF TypeOK, Ask, Goto
  <2>4. CASE RpcFails(p)
    <3>1. forceUpdate' \in BOOLEAN
      BY <2>4, OptionsAssumption DEF TypeOK, RpcFails
    <3> QED
      BY <1>0, <2>4, <3>1 DEF TypeOK, RpcFails, Goto
  <2>5. CASE NotNew(p)
    BY <1>0, <2>5 DEF TypeOK, NotNew, Goto
  <2>6. CASE Install(p)
    BY <1>0, <2>6 DEF TypeOK, Install, Goto
  <2>7. CASE GetReturns(p)
    BY <1>0, <2>7 DEF TypeOK, GetReturns, Goto
  <2> QED
    BY <2>1, <2>2, <2>3, <2>4, <2>5, <2>6, <2>7 DEF GetStep
<1>2. /\ UNCHANGED <<minerVars, shareVars>>
      /\ \E pc \in {"claim", "ask", "rpc", "got", "decide", "announce"} : Goto(p, pc)
      /\ npc[p] \in {"enter", "claim", "ask", "rpc", "got"}
  BY DEF GetStep, Enter, Claim, Ask, RpcFails, NotNew, Install, GetReturns
<1>3. Places'
  BY <1>2, PlacesFrame, ProcsFact DEF Goto, TypeOK
<1>4. RealJobs'
  BY <1>2, RealJobsFrame
<1> QED
  BY <1>1, <1>3, <1>4

LEMMA TypeListener ==
    ASSUME TypeInv, ListenerStep
    PROVE  TypeInv'
<1> USE DEF TypeInv, jobVars, minerVars, shareVars
<1>0. {"enter", "done", "fannounce", "announce"} \subseteq NotifierStates
  BY DEF NotifierStates, InGet, InNotify
<1>1. CASE ListenPool
  <2>1. TypeOK'
    BY <1>0, <1>1 DEF TypeOK, ListenPool, Goto
  <2> QED
    BY <1>1, <2>1, PlacesFrame, RealJobsFrame, ProcsFact DEF ListenPool, Goto, TypeOK
<1>2. CASE ListenSolo
  <2>1. TypeOK'
    BY <1>0, <1>2 DEF TypeOK, ListenSolo, Goto, workVars
  <2> QED
    BY <1>2, <2>1, PlacesFrame, RealJobsFrame, ProcsFact DEF ListenSolo, Goto, TypeOK
<1>3. CASE ListenExit
  <2>1. TypeOK'
    BY <1>0, <1>3 DEF TypeOK, ListenExit, Goto, workVars
  <2> QED
    BY <1>3, <2>1, PlacesFrame, RealJobsFrame, ProcsFact DEF ListenExit, Goto, TypeOK
<1> QED
  BY <1>1, <1>2, <1>3 DEF ListenerStep

LEMMA TypeHandler ==
    ASSUME TypeInv, NEW h \in Handlers, HandlerLocks(h)
    PROVE  TypeInv'
<1> USE DEF TypeInv, jobVars, minerVars, shareVars
<1>0. "enter" \in NotifierStates /\ h \in Procs /\ h # Submitter
  BY ProcsFact DEF NotifierStates
<1>1. TypeOK'
  BY <1>0 DEF TypeOK, HandlerLocks, Goto, workVars
<1> QED
  BY <1>0, <1>1, PlacesFrame, RealJobsFrame, ProcsFact DEF HandlerLocks, Goto, TypeOK

LEMMA TypeSubmitter ==
    ASSUME TypeInv, SubmitterStep
    PROVE  TypeInv'
<1> USE DEF TypeInv, jobVars, minerVars, shareVars, workVars
<1>0. /\ {"submit", "enter", "idle", "done"} \subseteq NotifierStates
      /\ Submitter \in Procs /\ Submitter # Listener
  BY ProcsFact DEF NotifierStates
<1>1. CASE SubmitterLocks
  <2>1. TypeOK'
    BY <1>0, <1>1 DEF TypeOK, SubmitterLocks, Goto
  <2>2. Places'
    BY <1>0, <1>1 DEF Places, SubmitterLocks, Goto, TypeOK
  <2> QED
    BY <1>1, <2>1, <2>2, RealJobsFrame DEF SubmitterLocks
<1>2. ASSUME Judge,
             npc' = [npc EXCEPT ![Submitter] = "idle"]
                 \/ npc' = [npc EXCEPT ![Submitter] = "enter"],
             submitLock' \in {submitLock, Free},
             UNCHANGED <<workVars, ndev, ncopy, jobVars, minerVars>>,
             UNCHANGED <<submitData, fpc, fshare, found, quit>>
      PROVE  TypeInv'
  <2>1. sshare \in Shares /\ sshare.dev \in Devices /\ sshare.n \in Nat
    BY <1>2, ShareFact DEF Places, Judge, Jobs
  <2>2. judged' \in [Devices -> Nat] /\ lastSent' \in [Devices -> Nat]
    BY <1>2, <2>1 DEF Judge, TypeOK
  <2>3. TypeOK'
    BY <1>0, <1>2, <2>2 DEF TypeOK, Judge
  <2>4. Places'
    BY <1>0, <1>2 DEF Places, Judge, TypeOK
  <2> QED
    BY <1>2, <2>3, <2>4, RealJobsFrame
<1>3. CASE SubmitAccepted \/ SubmitUndecodable \/ SubmitRejected
  BY <1>0, <1>2, <1>3
     DEF SubmitAccepted, SubmitUndecodable, SubmitRejected, Finish, Goto
<1>4. CASE SubmitterExit
  <2>1. TypeOK'
    BY <1>0, <1>4 DEF TypeOK, SubmitterExit, Goto
  <2> QED
    BY <1>0, <1>4, <2>1, PlacesFrame, RealJobsFrame DEF SubmitterExit, Goto, TypeOK
<1> QED
  BY <1>1, <1>3, <1>4 DEF SubmitterStep
LEMMA TypeForwarder ==
    ASSUME TypeInv, NEW d \in Devices, ForwarderStep(d)
    PROVE  TypeInv'
<1> USE DEF TypeInv, jobVars, minerVars, notifyVars, workVars
<1>0. {"lock"} \subseteq NotifierStates /\ Submitter \in Procs
  BY ProcsFact DEF NotifierStates
<1>1. RealJobs'
  BY RealJobsFrame
     DEF ForwarderStep, ForwarderTakes, ForwarderDrops, ForwarderPasses, Receive, ForwarderExit
<1>2. CASE ForwarderTakes(d)
  <2>1. TypeOK'
    BY <1>2 DEF TypeOK, ForwarderTakes
  <2>2. submitData[d] \in Shares /\ submitData[d].dev = d
    BY <1>2, ShareFact, DevicesFact DEF TypeOK, Places, ForwarderTakes
  <2>3. Places'
    BY <1>2, <2>2, NoShareFact DEF Places, ForwarderTakes, TypeOK
  <2> QED
    BY <1>1, <2>1, <2>3
<1>3. CASE ForwarderDrops(d)
  <2>1. TypeOK'
    BY <1>3 DEF TypeOK, ForwarderDrops
  <2>2. Places'
    BY <1>3, NoShareFact DEF Places, ForwarderDrops, TypeOK
  <2> QED
    BY <1>1, <2>1, <2>2
<1>4. CASE ForwarderPasses(d)
  <2>1. TypeOK'
    BY <1>4 DEF TypeOK, ForwarderPasses
  <2>2. Places'
    BY <1>4 DEF Places, ForwarderPasses, TypeOK
  <2> QED
    BY <1>1, <2>1, <2>2
<1>5. CASE Receive(d)
  <2>1. TypeOK'
    BY <1>0, <1>5 DEF TypeOK, Receive, Goto
  <2>2. fshare[d] \in Shares
    BY <1>5, NoShareFact, DevicesFact DEF TypeOK, Places, Receive
  <2>3. Places'
    BY <1>0, <1>5, <2>2, NoShareFact DEF Places, Receive, Goto, TypeOK
  <2> QED
    BY <1>1, <2>1, <2>3
<1>6. CASE ForwarderExit(d)
  <2>1. TypeOK'
    BY <1>6 DEF TypeOK, ForwarderExit
  <2>2. Places'
    BY <1>6 DEF Places, ForwarderExit, TypeOK
  <2> QED
    BY <1>1, <2>1, <2>2
<1> QED
  BY <1>2, <1>3, <1>4, <1>5, <1>6 DEF ForwarderStep

LEMMA TypeMiner ==
    ASSUME TypeInv, NEW d \in Devices, MinerStep(d)
    PROVE  TypeInv'
<1> USE DEF TypeInv, jobVars, shareVars, notifyVars, workVars
<1>0. {"wait", "got", "mine", "hash", "send", "exit", "panicClosed", "panicNil"} = MinerStates
  BY DEF MinerStates
<1>1. CASE Take(d)
  <2>1. TypeOK'
    BY <1>0, <1>1 DEF TypeOK, Take
  <2> QED
    BY <1>1, <2>1 DEF Places, RealJobs, Take, TypeOK
<1>2. CASE Discard(d)
  <2>1. TypeOK'
    BY <1>0, <1>2 DEF TypeOK, Discard
  <2> QED
    BY <1>2, <2>1 DEF Places, RealJobs, Discard, TypeOK
<1>3. CASE Begin(d)
  <2>1. (IF mwork[d] = Live THEN gbt ELSE mwork[d]) \in Jobs
    BY <1>3 DEF TypeOK, RealJobs, Begin, Jobs, Live
  <2>2. TypeOK'
    BY <1>0, <1>3, <2>1 DEF TypeOK, Begin, Jobs
  <2>3. Places'
    BY <1>3 DEF Places, Begin, TypeOK
  <2>4. RealJobs'
    BY <1>3, <2>1 DEF RealJobs, Begin, TypeOK
  <2> QED
    BY <2>2, <2>3, <2>4
<1>4. CASE NilTemplate(d) \/ Stop(d) \/ Hash(d) \/ Miss(d) \/ HitEmptyAgain(d)
           \/ PushPanics(d) \/ MinerExit(d)
  <2> USE DEF NilTemplate, Stop, Hash, Miss, HitEmptyAgain, PushPanics, MinerExit
  <2>1. TypeOK'
    BY <1>0, <1>4 DEF TypeOK
  <2>2. Places'
    BY <1>4 DEF Places, TypeOK
  <2>3. RealJobs'
    BY <1>4 DEF RealJobs, TypeOK
  <2> QED
    BY <2>1, <2>2, <2>3
<1>5. CASE Hit(d)
  <2> DEFINE share == [dev |-> d, job |-> mjob[d], n |-> found[d] + 1]
  <2>1. share \in Shares /\ share.dev = d
    BY <1>5 DEF Hit, Shares, Jobs, RealJobs, TypeOK
  <2>2. mshare' = [mshare EXCEPT ![d] = share]
    BY <1>5 DEF Hit
  <2> HIDE DEF share
  <2>3. TypeOK'
    BY <1>0, <1>5, <2>1, <2>2 DEF TypeOK, Hit
  <2>4. Places'
    BY <1>5, <2>1, <2>2 DEF Places, Hit, TypeOK
  <2>5. RealJobs'
    BY <1>5 DEF RealJobs, Hit, TypeOK
  <2> QED
    BY <2>3, <2>4, <2>5
<1>6. CASE Push(d)
  <2>1. TypeOK'
    BY <1>0, <1>6 DEF TypeOK, Push
  <2>2. Places'
    BY <1>6, NoShareFact DEF Places, Push, TypeOK
  <2>3. RealJobs'
    BY <1>6 DEF RealJobs, Push, TypeOK
  <2> QED
    BY <2>1, <2>2, <2>3
<1> QED
  BY <1>1, <1>2, <1>3, <1>4, <1>5, <1>6 DEF MinerStep

LEMMA TypeEnvironment ==
    ASSUME TypeInv, NewTip \/ Interrupt \/ UNCHANGED vars
    PROVE  TypeInv'
<1> USE DEF TypeInv, jobVars, minerVars, shareVars, notifyVars, workVars
<1>0. "lock" \in NotifierStates
  BY DEF NotifierStates
<1>1. CASE NewTip
  <2>1. TypeOK'
    BY <1>0, <1>1 DEF TypeOK, NewTip
  <2> QED
    BY <1>1, <2>1, PlacesFrame, RealJobsFrame, ProcsFact DEF NewTip, TypeOK
<1>2. CASE Interrupt \/ UNCHANGED vars
  <2>1. TypeOK'
    BY <1>2 DEF TypeOK, Interrupt, vars
  <2> QED
    BY <1>2, <2>1, PlacesFrame, RealJobsFrame DEF Interrupt, vars
<1> QED
  BY <1>1, <1>2

LEMMA TypeStep == TypeInv /\ [Next]_vars => TypeInv'
<1> SUFFICES ASSUME TypeInv, [Next]_vars PROVE TypeInv'
  OBVIOUS
<1>1. ASSUME NEW p \in Procs, ProcStep(p) PROVE TypeInv'
  BY <1>1, TypeNotify, TypeGet, TypeListener, TypeSubmitter, TypeHandler DEF ProcStep
<1> QED
  BY <1>1, TypeForwarder, TypeMiner, TypeEnvironment DEF Next

(* Every state has its type, whatever the number of devices and handlers.   *)
THEOREM TypeCorrect == Spec => []TypeOK
<1>1. TypeInv => TypeOK
  BY DEF TypeInv
<1> QED
  BY <1>1, TypeInit, TypeStep, PTL DEF Spec
-----------------------------------------------------------------------------
(* ShareOrder.  Only the steps that move a share, count one or give one     *)
(* back matter; each moves a share from one place to the next, which was    *)
(* empty.                                                                   *)

LEMMA OrderFrame ==
    ASSUME ShareOrder, UNCHANGED <<submitData, fshare, sshare, mshare, found, judged, lastSent>>
    PROVE  ShareOrder'
BY DEF ShareOrder, InOrder, Held, Before, Between

LEMMA OrderJudge ==
    ASSUME TypeInv, ShareOrder, Judge,
           UNCHANGED <<submitData, fshare, mshare, found>>
    PROVE  ShareOrder'
<1>1. sshare \in Shares /\ sshare.dev \in Devices /\ sshare.n \in Nat
  BY ShareFact DEF TypeInv, Places, Judge, Jobs
<1>2. SUFFICES ASSUME NEW d \in Devices PROVE InOrder(d)'
  BY DEF ShareOrder
<1>3. /\ judged[d] \in Nat /\ found[d] \in Nat /\ lastSent[d] \in Nat
      /\ d # 0 /\ NoShare.dev = 0
  BY DevicesFact, NoShareFact DEF TypeInv, TypeOK
<1>4. CASE sshare.dev = d
  <2>1. judged'[d] = judged[d] + 1 /\ lastSent'[d] = sshare.n /\ sshare' = NoShare
    BY <1>1, <1>4 DEF Judge, TypeInv, TypeOK
  <2> QED
    BY <1>1, <1>3, <1>4, <2>1 DEF ShareOrder, InOrder, Held, Before, Between
<1>5. CASE sshare.dev # d
  <2>1. judged'[d] = judged[d] /\ lastSent'[d] = lastSent[d] /\ sshare' = NoShare
    BY <1>1, <1>5 DEF Judge, TypeInv, TypeOK
  <2> QED
    BY <1>1, <1>3, <1>5, <2>1 DEF ShareOrder, InOrder, Held, Before, Between
<1> QED
  BY <1>4, <1>5

(* A device's own step changes only that device's part of the pipeline, and *)
(* the submitter's place when it hands a share over.                        *)
LEMMA OrderForwarder ==
    ASSUME TypeInv, ShareOrder, NEW d \in Devices, ForwarderStep(d)
    PROVE  ShareOrder'
<1>1. SUFFICES ASSUME NEW e \in Devices PROVE InOrder(e)'
  BY DEF ShareOrder
<1> USE ShareFact, NoShareFact
<1>2. /\ InOrder(e) /\ judged[e] \in Nat /\ found[e] \in Nat /\ lastSent[e] \in Nat
      /\ d # 0 /\ e # 0
  BY DevicesFact DEF ShareOrder, TypeInv, TypeOK
<1>3. CASE ForwarderTakes(d)
  <2>1. /\ fshare[d] = NoShare /\ fshare'[d] = submitData[d] /\ submitData'[d] = NoShare
        /\ e # d => fshare'[e] = fshare[e] /\ submitData'[e] = submitData[e]
    BY <1>3 DEF ForwarderTakes, TypeInv, TypeOK, Places
  <2> QED
    BY <1>2, <1>3, <2>1 DEF ForwarderTakes, minerVars, InOrder, Held, Before, Between
<1>4. CASE ForwarderDrops(d)
  <2>1. /\ fshare[d].dev = d /\ fshare'[d] = NoShare /\ judged'[d] = judged[d] + 1
        /\ e # d => fshare'[e] = fshare[e] /\ judged'[e] = judged[e]
    BY <1>4 DEF ForwarderDrops, TypeInv, TypeOK, Places
  <2> QED
    BY <1>2, <1>4, <2>1 DEF ForwarderDrops, minerVars, InOrder, Held, Before, Between
<1>5. CASE Receive(d)
  <2>1. /\ fshare[d].dev = d /\ fshare'[d] = NoShare /\ sshare = NoShare /\ sshare' = fshare[d]
        /\ e # d => fshare'[e] = fshare[e]
    BY <1>5 DEF Receive, TypeInv, TypeOK, Places
  <2>2. fshare[e].dev \in {0, e} /\ submitData[e].dev \in {0, e} /\ mshare[e].dev \in {0, e}
    BY DEF TypeInv, Places
  <2> QED
    BY <1>2, <1>5, <2>1, <2>2 DEF Receive, minerVars, InOrder, Held, Before, Between
<1>6. CASE ForwarderPasses(d) \/ ForwarderExit(d)
  BY <1>6, OrderFrame DEF ForwarderPasses, ForwarderExit, minerVars, ShareOrder
<1> QED
  BY <1>3, <1>4, <1>5, <1>6 DEF ForwarderStep

LEMMA OrderMiner ==
    ASSUME TypeInv, ShareOrder, NEW d \in Devices, MinerStep(d)
    PROVE  ShareOrder'
<1>1. CASE Hit(d) \/ Push(d)
  <2>1. SUFFICES ASSUME NEW e \in Devices PROVE InOrder(e)'
    BY DEF ShareOrder
  <2> USE ShareFact, NoShareFact
  <2>2. /\ InOrder(e) /\ judged[e] \in Nat /\ found[e] \in Nat /\ lastSent[e] \in Nat
        /\ d # 0 /\ e # 0
    BY DevicesFact DEF ShareOrder, TypeInv, TypeOK
  <2>3. CASE Hit(d)
    <3>1. /\ mshare[d] = NoShare /\ found'[d] = found[d] + 1
          /\ mshare'[d].dev = d /\ mshare'[d].n = found[d] + 1
          /\ e # d => mshare'[e] = mshare[e] /\ found'[e] = found[e]
      BY <2>3 DEF Hit, TypeInv, TypeOK, Places
    <3>2. /\ sshare.dev \in Devices => sshare.n \in Nat
          /\ fshare[e].dev = e => fshare[e].n \in Nat
          /\ submitData[e].dev = e => submitData[e].n \in Nat
      BY DEF TypeInv, TypeOK, Jobs
    <3>3. UNCHANGED <<submitData, fshare, sshare, judged, lastSent>>
      BY <2>3 DEF Hit
    <3>4. CASE e = d
      <4>1. /\ Held(mshare[d], d) = 0 /\ Held(mshare'[d], d) = 1
            /\ Between(mshare[d], d)'
        BY <2>2, <3>1, <3>3, <3>4 DEF Held, Between, InOrder
      <4>2. /\ Before(sshare, mshare[d], d)' /\ Before(fshare[d], mshare[d], d)'
            /\ Before(submitData[d], mshare[d], d)'
        BY <2>2, <3>1, <3>2, <3>3, <3>4 DEF Between, Before, InOrder
      <4>3. Between(sshare, d)' /\ Between(fshare[d], d)' /\ Between(submitData[d], d)'
        BY <2>2, <3>1, <3>2, <3>3, <3>4 DEF Between, InOrder
      <4>4. found'[d] = judged'[d] + Held(sshare', d) + Held(fshare'[d], d)
                          + Held(submitData'[d], d) + Held(mshare'[d], d)
        BY <2>2, <3>1, <3>3, <3>4, <4>1 DEF InOrder, Held
      <4>5. (lastSent[d] <= found[d])'
        BY <2>2, <3>1, <3>3, <3>4 DEF InOrder
      <4> QED
        BY <2>2, <3>1, <3>3, <3>4, <4>1, <4>2, <4>3, <4>4, <4>5 DEF InOrder, Before
    <3>5. CASE e # d
      BY <2>2, <3>1, <3>3, <3>5 DEF InOrder, Held, Before, Between
    <3> QED
      BY <3>4, <3>5
  <2>4. CASE Push(d)
    <3>1. /\ submitData[d] = NoShare /\ submitData'[d] = mshare[d] /\ mshare'[d] = NoShare
          /\ mshare[d].dev = d
          /\ e # d => mshare'[e] = mshare[e] /\ submitData'[e] = submitData[e]
      BY <2>4 DEF Push, Room, TypeInv, TypeOK, Places
    <3> QED
      BY <2>2, <2>4, <3>1 DEF Push, InOrder, Held, Before, Between
  <2> QED
    BY <1>1, <2>3, <2>4
<1>2. CASE ~(Hit(d) \/ Push(d))
  BY <1>2, OrderFrame
     DEF MinerStep, Take, Discard, Begin, NilTemplate, Stop, Hash, Miss, HitEmptyAgain,
         PushPanics, MinerExit, shareVars
<1> QED
  BY <1>1, <1>2

LEMMA OrderStep == TypeInv /\ ShareOrder /\ [Next]_vars => ShareOrder'
<1> SUFFICES ASSUME TypeInv, ShareOrder, [Next]_vars PROVE ShareOrder'
  OBVIOUS
<1>1. ASSUME NEW p \in Procs, ProcStep(p) PROVE ShareOrder'
  <2>1. CASE SubmitAccepted \/ SubmitUndecodable \/ SubmitRejected
    BY <2>1, OrderJudge DEF SubmitAccepted, SubmitUndecodable, SubmitRejected, minerVars
  <2>2. CASE UNCHANGED <<minerVars, shareVars>>
    BY <2>2, OrderFrame DEF minerVars, shareVars
  <2> QED
    BY <1>1, <2>1, <2>2
       DEF ProcStep, NotifyStep, GetStep, ListenerStep, SubmitterStep, Announce, Deliver, Decide,
           ForceAnnounce, ForceDeliver, ForceSet, Enter, Claim, Ask, RpcFails, NotNew, Install,
           GetReturns, ListenPool, ListenSolo, ListenExit, SubmitterLocks, SubmitterExit,
           HandlerLocks
<1>2. CASE NewTip \/ Interrupt \/ UNCHANGED vars
  BY <1>2, OrderFrame DEF NewTip, Interrupt, vars, minerVars, shareVars
<1> QED
  BY <1>1, <1>2, OrderForwarder, OrderMiner DEF Next

(* No share is lost, sent twice or overtaken on its way to the node or the  *)
(* pool, for any number of devices, jobs and shares, in both modes.         *)
THEOREM SharesKeepOrder == Spec => []ShareOrder
<1>1. Init => ShareOrder
  BY DevicesFact, NoShareFact DEF Init, ShareOrder, InOrder, Held, Before, Between
<1> QED
  BY <1>1, TypeInit, TypeStep, OrderStep, PTL DEF Spec
-----------------------------------------------------------------------------
(* SubmitLockGuards is inductive.  A step of p moves only p, and does one   *)
(* of five things to the lock.                                              *)

LEMMA LockStep ==
    ASSUME TypeOK, SubmitLockGuards, NEW p \in Procs, NEW pc \in NotifierStates,
           Goto(p, pc),
           \/ submitLock' = submitLock /\ p = Listener
           \/ submitLock' = submitLock /\ InRound(p)' = InRound(p)
           \/ InRound(p) /\ ~InRound(p)' /\ p # Listener /\ submitLock' = Free
           \/ submitLock = Free /\ submitLock' = p /\ InRound(p)'
           \/ submitLock' = submitLock /\ p = Submitter /\ Undecodable /\ ~InRound(p)'
    PROVE  SubmitLockGuards'
<1>1. npc'[p] = pc /\ \A q \in Procs \ {p} : npc'[q] = npc[q]
  BY DEF Goto, TypeOK
<1>2. \A q \in Procs \ {p} : InRound(q)' = InRound(q)
  BY <1>1 DEF InRound
<1> QED
  BY <1>1, <1>2, ProcsFact DEF SubmitLockGuards

LEMMA LockNotify ==
    ASSUME TypeInv, SubmitLockGuards, NEW p \in Procs, NotifyStep(p)
    PROVE  SubmitLockGuards'
<1>0. TypeOK /\ {"announce", "send", "decide", "fannounce", "fsend", "fset", "idle"}
                     \subseteq NotifierStates
  BY DEF TypeInv, NotifierStates, InNotify
<1>1. InRound(p)
  BY DEF NotifyStep, Announce, Deliver, Decide, ForceAnnounce, ForceDeliver, ForceSet, InRound
<1>2. ASSUME NEW pc \in {"send", "fannounce", "fsend", "fset", "announce"}, Goto(p, pc),
             UNCHANGED submitLock
      PROVE  SubmitLockGuards'
  <2>1. InRound(p)'
    BY <1>2, <1>0 DEF InRound, Goto, TypeOK
  <2>2. submitLock' = submitLock /\ InRound(p)' = InRound(p) /\ pc \in NotifierStates
    BY <1>0, <1>1, <1>2, <2>1
  <2> QED
    BY <1>0, <1>2, <2>2, LockStep
<1>3. CASE Finish(p)
  <2>1. ~InRound(p)'
    BY <1>0, <1>3 DEF InRound, Goto, Finish, TypeOK
  <2> QED
    BY <1>0, <1>1, <1>3, <2>1, LockStep DEF Finish
<1>4. ASSUME NEW again \in {"announce", "fannounce"}, NextDevice(p, again)
      PROVE  SubmitLockGuards'
  BY <1>2, <1>3, <1>4 DEF NextDevice
<1> QED
  BY <1>2, <1>3, <1>4
     DEF NotifyStep, Announce, Deliver, Decide, ForceAnnounce, ForceDeliver, ForceSet

LEMMA LockGet ==
    ASSUME TypeInv, SubmitLockGuards, NEW p \in Procs, GetStep(p)
    PROVE  SubmitLockGuards'
<1>1. /\ UNCHANGED submitLock
      /\ \E pc \in {"claim", "ask", "rpc", "got", "decide", "announce"} : Goto(p, pc)
      /\ npc[p] \in {"enter", "claim", "ask", "rpc", "got"}
  BY DEF GetStep, Enter, Claim, Ask, RpcFails, NotNew, Install, GetReturns
<1>2. PICK pc \in {"claim", "ask", "rpc", "got", "decide", "announce"} : Goto(p, pc)
  BY <1>1
<1>3. pc \in NotifierStates /\ TypeOK
  BY DEF NotifierStates, InGet, InNotify, TypeInv
<1>4. InRound(p) /\ InRound(p)'
  BY <1>1, <1>2, <1>3 DEF InRound, Goto, TypeOK
<1> QED
  BY <1>1, <1>2, <1>3, <1>4, LockStep

LEMMA LockListener ==
    ASSUME TypeInv, SubmitLockGuards, ListenerStep
    PROVE  SubmitLockGuards'
<1>1. /\ UNCHANGED submitLock
      /\ \E pc \in {"announce", "enter", "fannounce", "done"} : Goto(Listener, pc)
  BY DEF ListenerStep, ListenPool, ListenSolo, ListenExit
<1>2. PICK pc \in {"announce", "enter", "fannounce", "done"} : Goto(Listener, pc)
  BY <1>1
<1>3. pc \in NotifierStates /\ TypeOK
  BY DEF NotifierStates, InNotify, TypeInv
<1> QED
  BY <1>1, <1>2, <1>3, ProcsFact, LockStep

LEMMA LockSubmitter ==
    ASSUME TypeInv, SubmitLockGuards, SubmitterStep
    PROVE  SubmitLockGuards'
<1>0. TypeOK /\ {"submit", "idle", "enter", "done"} \subseteq NotifierStates
      /\ Submitter \in Procs /\ Submitter # Listener
  BY ProcsFact DEF TypeInv, NotifierStates
<1>1. CASE SubmitterLocks
  <2>1. InRound(Submitter)'
    BY <1>0, <1>1 DEF SubmitterLocks, InRound, Goto, TypeOK
  <2> QED
    BY <1>0, <1>1, <2>1, LockStep DEF SubmitterLocks
<1>2. CASE SubmitAccepted \/ SubmitRejected
  <2>1. InRound(Submitter)
    BY <1>2 DEF SubmitAccepted, SubmitRejected, Judge, InRound
  <2>2. CASE Finish(Submitter)
    <3>1. ~InRound(Submitter)'
      BY <1>0, <2>2 DEF Finish, Goto, InRound, TypeOK
    <3> QED
      BY <1>0, <2>1, <2>2, <3>1, LockStep DEF Finish
  <2>3. CASE Goto(Submitter, "enter") /\ UNCHANGED submitLock
    <3>1. InRound(Submitter)'
      BY <1>0, <2>3 DEF Goto, InRound, TypeOK
    <3>2. InRound(Submitter)' = InRound(Submitter) /\ submitLock' = submitLock
      BY <2>1, <2>3, <3>1
    <3> QED
      BY <1>0, <2>3, <3>2, LockStep
  <2> QED
    BY <1>2, <2>2, <2>3 DEF SubmitAccepted, SubmitRejected
<1>3. CASE SubmitUndecodable
  <2>1. ~InRound(Submitter)'
    BY <1>0, <1>3 DEF SubmitUndecodable, InRound, Goto, TypeOK
  <2>2. submitLock' = submitLock /\ Undecodable /\ Goto(Submitter, "idle")
    BY <1>3 DEF SubmitUndecodable
  <2> QED
    BY <1>0, <2>1, <2>2, LockStep
<1>4. CASE SubmitterExit
  <2>1. ~InRound(Submitter) /\ ~InRound(Submitter)'
    BY <1>0, <1>4 DEF SubmitterExit, InRound, Goto, TypeOK
  <2>2. (InRound(Submitter)' = InRound(Submitter)) /\ submitLock' = submitLock
    BY <1>4, <2>1 DEF SubmitterExit, InRound
  <2> QED
    BY <1>0, <1>4, <2>2, LockStep DEF SubmitterExit
<1> QED
  BY <1>1, <1>2, <1>3, <1>4 DEF SubmitterStep

LEMMA LockOthers ==
    ASSUME TypeInv, SubmitLockGuards,
           \/ \E h \in Handlers : HandlerLocks(h)
           \/ NewTip \/ Interrupt \/ UNCHANGED vars
           \/ \E d \in Devices : ForwarderStep(d) \/ MinerStep(d)
    PROVE  SubmitLockGuards'
<1>0. TypeOK /\ {"enter", "lock"} \subseteq NotifierStates
  BY DEF TypeInv, NotifierStates
<1>1. ASSUME NEW h \in Handlers, HandlerLocks(h) PROVE SubmitLockGuards'
  <2>1. InRound(h)'
    BY <1>0, <1>1, ProcsFact DEF HandlerLocks, InRound, Goto, TypeOK
  <2>2. h \in Procs /\ submitLock = Free /\ submitLock' = h /\ Goto(h, "enter")
    BY <1>1, ProcsFact DEF HandlerLocks
  <2> QED
    BY <1>0, <2>1, <2>2, LockStep
<1>2. ASSUME NEW p \in Procs, npc[p] = "idle", Goto(p, "lock"), UNCHANGED submitLock
      PROVE  SubmitLockGuards'
  <2>1. ~InRound(p) /\ ~InRound(p)'
    BY <1>0, <1>2 DEF InRound, Goto, TypeOK
  <2>2. (InRound(p)' = InRound(p)) /\ submitLock' = submitLock
    BY <1>2, <2>1 DEF InRound
  <2> QED
    BY <1>0, <1>2, <2>2, LockStep
<1>3. CASE UNCHANGED <<npc, submitLock>>
  BY <1>3 DEF SubmitLockGuards, InRound
<1>4. CASE NewTip
  BY <1>2, <1>3, <1>4, ProcsFact DEF NewTip, Goto
<1>5. ASSUME NEW d \in Devices, ForwarderStep(d) \/ MinerStep(d) PROVE SubmitLockGuards'
  <2>1. CASE Receive(d)
    <3>1. npc[Submitter] = "idle" /\ Goto(Submitter, "lock") /\ UNCHANGED submitLock
      BY <2>1 DEF Receive
    <3> QED
      BY <1>2, <3>1, ProcsFact
  <2>2. CASE ~Receive(d)
    BY <1>3, <1>5, <2>2
       DEF ForwarderStep, ForwarderTakes, ForwarderDrops, ForwarderPasses, ForwarderExit,
           MinerStep, Take, Discard, Begin, NilTemplate, Stop, Hash, Miss, Hit, HitEmptyAgain,
           Push, PushPanics, MinerExit, notifyVars
  <2> QED
    BY <2>1, <2>2
<1> QED
  BY <1>1, <1>3, <1>4, <1>5 DEF Interrupt, vars, notifyVars

(* A submission and what follows it, and the round of an OnBlockConnected   *)
(* handler, exclude each other, and SubmitLock is not left behind unless a  *)
(* block did not decode; for any number of handlers.                        *)
THEOREM SubmissionsExclude == Spec => []SubmitLockGuards
<1>1. Init => SubmitLockGuards
  BY ProcsFact DEF Init, SubmitLockGuards, InRound
<1>2. TypeInv /\ SubmitLockGuards /\ [Next]_vars => SubmitLockGuards'
  BY LockNotify, LockGet, LockListener, LockSubmitter, LockOthers DEF Next, ProcStep
<1> QED
  BY <1>1, <1>2, TypeInit, TypeStep, PTL DEF Spec
-----------------------------------------------------------------------------
(* Pool mode.  The listener is the only notifier, so a job is at least as   *)
(* new as those that went before it through the channel, and a miner that   *)
(* leaves its loop does so because HasNewWork is up: it will find the flag  *)
(* up when it takes the job.                                                *)

PoolCalm ==
    /\ \A h \in Handlers : npc[h] = "idle"
    /\ npc[Submitter] \in {"idle", "lock", "submit", "done"}
    /\ npc[Listener] \in {"idle", "done", "announce", "send"}
    /\ npc[Listener] \in {"idle", "done"} => ndev[Listener] = 1
    /\ npc[Listener] \in {"announce", "send"} => gbt >= 1
    /\ ~forceUpdate /\ \A d \in Devices : ~forceStop[d]
    /\ gbt <= tip

UpTo(d, job) == newWork[d] <= job /\ mwork[d] <= job /\ mjob[d] <= job

PoolOrder ==
    /\ npc[Listener] = "send" =>
           /\ gbt <= ncopy[Listener] /\ ncopy[Listener] <= tip
           /\ \A d \in Devices : UpTo(d, ncopy[Listener])
    /\ \A d \in Devices :
        /\ UpTo(d, tip)
        /\ newWork[d] # Live /\ mwork[d] # Live
        /\ newWork[d] # NoJob => mwork[d] <= newWork[d] /\ mjob[d] <= newWork[d]
        /\ mwork[d] # NoJob => mjob[d] <= mwork[d]

PoolFlag ==
    \A d \in Devices :
        /\ mpc[d] = "got" => hasNewWork[d]
        /\ mpc[d] # "got" => mwork[d] = NoJob
        /\ mpc[d] = "wait" /\ newWork[d] # NoJob => hasNewWork[d]
        /\ mpc[d] = "wait" /\ npc[Listener] = "send" /\ ndev[Listener] = d => hasNewWork[d]

(* The devices the listener has dealt with since it took its job.           *)
Served(d) ==
    \/ npc[Listener] \in {"idle", "done"} /\ gbt # 0
    \/ npc[Listener] \in {"announce", "send"} /\ d < ndev[Listener]

PoolFan == \A d \in Devices : Served(d) => NewestJob(d) >= gbt

PoolInv == PoolCalm /\ PoolOrder /\ PoolFlag /\ PoolFan

LEMMA PoolInit == ASSUME Pool, Init PROVE PoolInv
<1>1. PoolCalm
  BY ProcsFact DEF Init, PoolCalm
<1>2. PoolOrder
  BY ProcsFact DEF Init, PoolOrder, UpTo, NoJob, Live
<1>3. PoolFlag
  BY ProcsFact DEF Init, PoolFlag
<1>4. PoolFan
  BY ProcsFact DEF Init, PoolFan, Served
<1> QED
  BY <1>1, <1>2, <1>3, <1>4 DEF PoolInv

LEMMA JobTypes ==
    ASSUME TypeInv, NEW d \in Devices
    PROVE  /\ newWork[d] \in Int /\ mwork[d] \in Int /\ mjob[d] \in Int
           /\ newWork[d] >= -1 /\ mwork[d] >= -1 /\ mjob[d] >= -1
           /\ tip \in Nat /\ gbt \in Nat /\ ncopy[Listener] \in Int
           /\ ndev[Listener] \in Devices /\ d \in Nat /\ ndev[Listener] \in Nat
BY ProcsFact, DevicesFact DEF TypeInv, TypeOK, NoJob

LEMMA PoolAnnounce ==
    ASSUME Pool, TypeInv, PoolInv, Announce(Listener)
    PROVE  PoolInv'
<1> USE DEF PoolInv, workVars, minerVars, shareVars
<1>1. /\ npc'[Listener] = "send"
      /\ \A p \in Procs : p # Listener => npc'[p] = npc[p]
      /\ ncopy'[Listener] = tip
      /\ \A d \in Devices : hasNewWork'[d] = (hasNewWork[d] \/ d = ndev[Listener])
      /\ \A d \in Devices : ~forceStop'[d]
  BY ProcsFact DEF Announce, Goto, CopyNew, TypeInv, TypeOK, PoolCalm
<1>2. PoolCalm'
  BY <1>1, ProcsFact DEF Announce, PoolCalm
<1>3. PoolOrder'
  <2>1. UNCHANGED <<newWork, mwork, mjob, tip, gbt>>
    BY DEF Announce
  <2>2. \A d \in Devices : UpTo(d, tip)'
    BY <2>1 DEF PoolOrder, UpTo
  <2>3. /\ gbt' <= ncopy'[Listener] /\ ncopy'[Listener] <= tip'
        /\ \A d \in Devices : UpTo(d, ncopy[Listener])'
    BY <1>1, <2>1, <2>2, DevicesFact, JobTypes DEF UpTo, PoolCalm, TypeInv, TypeOK
  <2> QED
    BY <2>1, <2>2, <2>3 DEF PoolOrder
<1>4. PoolFlag'
  BY <1>1 DEF Announce, PoolFlag
<1>5. PoolFan'
  BY <1>1 DEF Announce, PoolFan, Served, NewestJob
<1> QED
  BY <1>2, <1>3, <1>4, <1>5

LEMMA PoolDeliver ==
    ASSUME Pool, TypeInv, PoolInv, Deliver(Listener)
    PROVE  PoolInv'
<1> USE DEF PoolInv, workVars, minerVars, shareVars
<1> DEFINE l == ndev[Listener]
<1>1. /\ npc[Listener] = "send" /\ newWork[l] = NoJob /\ l \in Devices
      /\ \A p \in Procs : p # Listener => npc'[p] = npc[p]
      /\ \A d \in Devices : newWork'[d] = IF d = l THEN ncopy[Listener] ELSE newWork[d]
      /\ \/ npc'[Listener] = "announce" /\ ndev'[Listener] = l + 1
         \/ npc'[Listener] = "idle" /\ ndev'[Listener] = 1 /\ l = NumDevices
  BY ProcsFact DEF Deliver, NextDevice, Finish, Goto, TypeInv, TypeOK
<1>2. PoolCalm'
  BY <1>1, ProcsFact DEF Deliver, PoolCalm
<1>3. PoolOrder'
  BY <1>1, JobTypes DEF Deliver, PoolCalm, PoolOrder, UpTo, NoJob, Live
<1>4. PoolFlag'
  BY <1>1 DEF Deliver, PoolFlag
<1>5. PoolFan'
  <2>1. SUFFICES ASSUME NEW d \in Devices, Served(d)' PROVE (NewestJob(d) >= gbt)'
    BY DEF PoolFan
  <2>2. CASE d = l
    BY <1>1, <2>2, JobTypes DEF Deliver, NewestJob, PoolOrder, PoolCalm, NoJob
  <2>3. CASE d # l
    <3>1. d < l
      BY <1>1, <2>1, <2>3, JobTypes, DevicesFact DEF Served
    <3>2. NewestJob(d) >= gbt
      BY <1>1, <3>1 DEF PoolFan, Served
    <3> QED
      BY <1>1, <2>3, <3>2 DEF Deliver, NewestJob
  <2> QED
    BY <2>2, <2>3
<1> QED
  BY <1>2, <1>3, <1>4, <1>5

LEMMA PoolListener ==
    ASSUME Pool, TypeInv, PoolInv, ListenerStep
    PROVE  PoolInv'
<1> USE DEF PoolInv, workVars, minerVars, shareVars, jobVars
<1>1. CASE ListenPool
  <2>1. /\ npc'[Listener] = "announce" /\ ndev[Listener] = 1 /\ gbt' = tip /\ tip >= 1
        /\ \A p \in Procs : p # Listener => npc'[p] = npc[p]
    BY <1>1, ProcsFact DEF ListenPool, Goto, TypeInv, TypeOK, PoolCalm
  <2>2. PoolCalm'
    BY <1>1, <2>1, ProcsFact DEF ListenPool, PoolCalm, TypeInv, TypeOK
  <2>3. PoolOrder' /\ PoolFlag'
    BY <1>1, <2>1 DEF ListenPool, PoolOrder, PoolFlag, UpTo
  <2>4. PoolFan'
    BY <1>1, <2>1, DevicesFact DEF ListenPool, PoolFan, Served
  <2> QED
    BY <2>2, <2>3, <2>4
<1>2. CASE ListenExit
  <2>1. /\ npc[Listener] = "idle" /\ npc'[Listener] = "done"
        /\ \A p \in Procs : p # Listener => npc'[p] = npc[p]
    BY <1>2, ProcsFact DEF ListenExit, Goto, TypeInv, TypeOK
  <2>2. PoolCalm'
    BY <1>2, <2>1, ProcsFact DEF ListenExit, PoolCalm
  <2>3. PoolOrder' /\ PoolFlag'
    BY <1>2, <2>1 DEF ListenExit, PoolOrder, PoolFlag, UpTo
  <2>4. PoolFan'
    BY <1>2, <2>1 DEF ListenExit, PoolFan, Served, NewestJob
  <2> QED
    BY <2>2, <2>3, <2>4
<1> QED
  BY <1>1, <1>2 DEF ListenerStep, ListenSolo

LEMMA PoolMiner ==
    ASSUME Pool, TypeInv, PoolInv, NEW d \in Devices, MinerStep(d)
    PROVE  PoolInv' /\ mjob'[d] >= mjob[d] /\ \A e \in Devices \ {d} : mjob'[e] = mjob[e]
<1> USE DEF PoolInv, workVars, notifyVars, shareVars, jobVars
<1>0. PoolCalm' <=> PoolCalm
  <2>1. UNCHANGED <<npc, ndev, gbt, tip, forceUpdate, forceStop>>
    BY DEF MinerStep, Take, Discard, Begin, NilTemplate, Stop, Hash, Miss, Hit, HitEmptyAgain,
           Push, PushPanics, MinerExit
  <2> QED
    BY <2>1 DEF PoolCalm
<1>1. CASE Take(d)
  <2>1. /\ mpc[d] = "wait" /\ newWork[d] # NoJob /\ mwork[d] = NoJob /\ hasNewWork[d]
        /\ mpc'[d] = "got" /\ newWork'[d] = NoJob /\ mwork'[d] = newWork[d]
        /\ \A e \in Devices \ {d} : /\ mpc'[e] = mpc[e] /\ newWork'[e] = newWork[e]
                                   /\ mwork'[e] = mwork[e]
        /\ UNCHANGED <<tip, gbt, npc, ndev, ncopy, mjob, hasNewWork>>
    BY <1>1 DEF Take, TypeInv, TypeOK, PoolFlag
  <2>2. PoolOrder'
    BY <2>1, JobTypes DEF PoolOrder, UpTo, NoJob, Live
  <2>3. PoolFlag'
    BY <2>1 DEF PoolFlag
  <2>4. PoolFan'
    BY <2>1 DEF PoolFan, Served, NewestJob
  <2> QED
    BY <1>0, <2>1, <2>2, <2>3, <2>4, JobTypes
<1>2. CASE Discard(d)
  BY <1>2 DEF Discard, PoolFlag, PoolCalm
<1>3. CASE Begin(d)
  <2>1. /\ mpc[d] = "got" /\ mwork[d] # NoJob /\ mwork[d] # Live
        /\ mpc'[d] = "mine" /\ mwork'[d] = NoJob /\ mjob'[d] = mwork[d]
        /\ \A e \in Devices \ {d} : /\ mpc'[e] = mpc[e] /\ mwork'[e] = mwork[e]
                                   /\ mjob'[e] = mjob[e] /\ hasNewWork'[e] = hasNewWork[e]
        /\ UNCHANGED <<tip, gbt, npc, ndev, ncopy, newWork>>
    BY <1>3 DEF Begin, TypeInv, TypeOK, RealJobs, PoolOrder
  <2>2. PoolOrder'
    BY <2>1, JobTypes DEF PoolOrder, UpTo, NoJob, Live
  <2>3. PoolFlag'
    BY <2>1 DEF PoolFlag
  <2>4. PoolFan'
    BY <2>1 DEF PoolFan, Served, NewestJob
  <2>5. mjob'[d] >= mjob[d]
    BY <2>1, JobTypes DEF PoolOrder
  <2> QED
    BY <1>0, <2>1, <2>2, <2>3, <2>4, <2>5
<1>4. CASE NilTemplate(d) \/ HitEmptyAgain(d)
  BY <1>4 DEF NilTemplate, HitEmptyAgain, EmptySpent, PoolOrder
<1>5. CASE Stop(d) \/ Hash(d) \/ Miss(d) \/ Hit(d) \/ Push(d) \/ PushPanics(d) \/ MinerExit(d)
  <2>1. /\ UNCHANGED <<tip, gbt, npc, ndev, ncopy, newWork, mwork, mjob, hasNewWork>>
        /\ \A e \in Devices \ {d} : mpc'[e] = mpc[e]
        /\ mpc'[d] # "got" /\ mwork'[d] = NoJob
        /\ mpc'[d] = "wait" => hasNewWork[d]
    BY <1>5 DEF Stop, CalcStops, Hash, Miss, Hit, Push, PushPanics, MinerExit,
                TypeInv, TypeOK, PoolFlag, PoolCalm
  <2>2. PoolOrder'
    BY <2>1 DEF PoolOrder, UpTo
  <2>3. PoolFlag'
    BY <2>1 DEF PoolFlag
  <2>4. PoolFan'
    BY <2>1 DEF PoolFan, Served, NewestJob
  <2> QED
    BY <1>0, <2>1, <2>2, <2>3, <2>4, JobTypes
<1> QED
  BY <1>1, <1>2, <1>3, <1>4, <1>5 DEF MinerStep

LEMMA PoolOthers ==
    ASSUME Pool, TypeInv, PoolInv,
           \/ SubmitterStep \/ NewTip \/ Interrupt \/ UNCHANGED vars
           \/ \E d \in Devices : ForwarderStep(d)
    PROVE  PoolInv' /\ UNCHANGED mjob
<1> USE DEF PoolInv, workVars, notifyVars, minerVars, jobVars, shareVars
<1>1. /\ UNCHANGED <<gbt, ndev, ncopy, newWork, mwork, mjob, mpc, hasNewWork, forceStop, forceUpdate>>
      /\ tip' \in {tip, tip + 1}
  BY DEF SubmitterStep, SubmitterLocks, SubmitAccepted, SubmitUndecodable, SubmitRejected,
         SubmitterExit, NewTip, Interrupt, vars, ForwarderStep, ForwarderTakes, ForwarderDrops,
         ForwarderPasses, Receive, ForwarderExit
<1>2. \/ UNCHANGED npc
      \/ \E pc \in {"idle", "lock", "submit", "done"} : Goto(Submitter, pc)
  BY DEF SubmitterStep, SubmitterLocks, SubmitAccepted, SubmitUndecodable, SubmitRejected,
         SubmitterExit, NewTip, Interrupt, vars, ForwarderStep, ForwarderTakes, ForwarderDrops,
         ForwarderPasses, Receive, ForwarderExit, Finish, Goto, Refetches
<1>3. /\ \A p \in Procs \ {Submitter} : npc'[p] = npc[p]
      /\ npc'[Submitter] \in {"idle", "lock", "submit", "done"}
  BY <1>2, ProcsFact DEF Goto, TypeInv, TypeOK, PoolCalm
<1>4. PoolCalm'
  BY <1>1, <1>3, ProcsFact DEF PoolCalm, TypeInv, TypeOK
<1>5. PoolOrder'
  <2>1. \A d \in Devices : UpTo(d, tip)'
    BY <1>1, JobTypes DEF PoolOrder, UpTo
  <2>2. npc'[Listener] = npc[Listener]
    BY <1>3, ProcsFact
  <2>3. npc'[Listener] = "send" =>
            /\ gbt' <= ncopy'[Listener] /\ ncopy'[Listener] <= tip'
            /\ \A d \in Devices : UpTo(d, ncopy[Listener])'
    BY <1>1, <2>2, DevicesFact, JobTypes DEF PoolOrder, UpTo, TypeInv, TypeOK
  <2> QED
    BY <1>1, <2>1, <2>3 DEF PoolOrder
<1>6. PoolFlag'
  BY <1>1, <1>3, ProcsFact DEF PoolFlag
<1>7. PoolFan'
  BY <1>1, <1>3, ProcsFact DEF PoolFan, Served, NewestJob
<1> QED
  BY <1>1, <1>4, <1>5, <1>6, <1>7

LEMMA PoolProc ==
    ASSUME Pool, TypeInv, PoolInv, NEW p \in Procs, ProcStep(p)
    PROVE  PoolInv' /\ UNCHANGED mjob
<1>1. CASE Announce(p) \/ Deliver(p)
  <2>1. p = Listener
    BY <1>1 DEF Announce, Deliver, PoolInv, PoolCalm, Procs
  <2> QED
    BY <1>1, <2>1, PoolAnnounce, PoolDeliver DEF Announce, Deliver, minerVars
<1>2. CASE ListenerStep
  BY <1>2, PoolListener DEF ListenerStep, ListenPool, ListenSolo, ListenExit, minerVars
<1>3. CASE SubmitterStep
  BY <1>3, PoolOthers
<1>4. npc[p] \notin {"decide", "fannounce", "fsend", "fset", "enter", "claim", "ask", "rpc", "got"}
  BY DEF PoolInv, PoolCalm, Procs
<1>5. p \in Handlers => npc[p] # "lock"
  BY DEF PoolInv, PoolCalm
<1> QED
  BY <1>1, <1>2, <1>3, <1>4, <1>5
     DEF ProcStep, NotifyStep, GetStep, Decide, ForceAnnounce, ForceDeliver, ForceSet,
         Enter, Claim, Ask, RpcFails, NotNew, Install, GetReturns, HandlerLocks

LEMMA PoolStep ==
    ASSUME Pool, TypeInv, PoolInv, [Next]_vars
    PROVE  PoolInv' /\ \A d \in Devices : mjob'[d] >= mjob[d]
<1>1. ASSUME UNCHANGED mjob PROVE \A d \in Devices : mjob'[d] >= mjob[d]
  BY <1>1, JobTypes
<1>2. ASSUME NEW d \in Devices, MinerStep(d)
      PROVE  PoolInv' /\ \A e \in Devices : mjob'[e] >= mjob[e]
  BY <1>2, PoolMiner, JobTypes
<1> QED
  BY <1>1, <1>2, PoolProc, PoolOthers DEF Next

(* In pool mode the listener misses no device and no miner throws away the  *)
(* job it was handed, for any number of devices.                            *)
THEOREM PoolReachesEveryDevice == ASSUME Pool PROVE Spec => []EveryDeviceGetsTheJob
<1>1. ASSUME PoolInv PROVE EveryDeviceGetsTheJob
  BY <1>1 DEF PoolInv, PoolFan, Served, EveryDeviceGetsTheJob
<1>2. Init => TypeInv /\ PoolInv
  BY TypeInit, PoolInit
<1>3. (TypeInv /\ PoolInv) /\ [Next]_vars => (TypeInv /\ PoolInv)'
  BY TypeStep, PoolStep
<1> QED
  BY <1>1, <1>2, <1>3, PTL DEF Spec

(* In pool mode no device returns to an older job.                          *)
THEOREM PoolNeverGoesBack == ASSUME Pool PROVE Spec => JobsMoveForward
<1>1. Init => TypeInv /\ PoolInv
  BY TypeInit, PoolInit
<1>2. (TypeInv /\ PoolInv) /\ [Next]_vars => (TypeInv /\ PoolInv)'
  BY TypeStep, PoolStep
<1>3. (TypeInv /\ PoolInv) /\ [Next]_vars => [\A d \in Devices : mjob'[d] >= mjob[d]]_vars
  BY PoolStep
<1> QED
  BY <1>1, <1>2, <1>3, PTL DEF Spec, JobsMoveForward
-----------------------------------------------------------------------------
(* Pool mode: nobody waits for nothing.                                     *)

(* The submitter is in submit or free to take SubmitLock.                   *)
PoolLock == submitLock = IF npc[Submitter] = "submit" THEN Submitter ELSE Free

(* A job is in the channel of d, or the listener is about to put one there. *)
Coming(d) == newWork[d] # NoJob \/ (npc[Listener] = "send" /\ ndev[Listener] = d)

(* HasNewWork is up because of a job that d has yet to begin.  While it is  *)
(* up the miner leaves its loop and the forwarder drops what was found.     *)
FlagMeansWork(d) == hasNewWork[d] => Coming(d) \/ mpc[d] = "got"

(* A miner that has left a job has another one coming.                      *)
NoDeviceIdles(d) == mpc[d] = "wait" /\ mjob[d] # NoJob => Coming(d)

NobodyIdles == \A d \in Devices : FlagMeansWork(d) /\ NoDeviceIdles(d)

(* A share waits for the one answer of the pool that the submitter waits    *)
(* for, and for nothing else: SubmitLock is free when the submitter wants it*)
(* and the submitter is never a notifier.                                   *)
SharesNeverJam ==
    \A d \in Devices : fpc[d] = "send" =>
        \/ npc[Submitter] \in {"idle", "submit", "done"}
        \/ npc[Submitter] = "lock" /\ submitLock = Free

LEMMA PoolLockStep ==
    ASSUME Pool, TypeInv, PoolInv, PoolLock, [Next]_vars
    PROVE  PoolLock'
<1>0. /\ npc \in [Procs -> NotifierStates] /\ Submitter \in Procs /\ Submitter # Listener
      /\ Submitter \notin Handlers
      /\ npc[Submitter] \in {"idle", "lock", "submit", "done"}
      /\ npc[Listener] \in {"idle", "done", "announce", "send"}
      /\ \A h \in Handlers : npc[h] = "idle"
  BY ProcsFact DEF TypeInv, TypeOK, PoolInv, PoolCalm
<1>1. ASSUME UNCHANGED submitLock, npc'[Submitter] = npc[Submitter] PROVE PoolLock'
  BY <1>1 DEF PoolLock
<1>2. ASSUME NEW p \in Procs, ProcStep(p) PROVE PoolLock'
  <2>1. CASE SubmitterLocks
    BY <1>0, <2>1 DEF SubmitterLocks, Goto, PoolLock
  <2>2. CASE SubmitAccepted \/ SubmitRejected
    BY <1>0, <2>2 DEF SubmitAccepted, SubmitRejected, Refetches, Finish, Goto, PoolLock
  <2>3. CASE SubmitterExit
    BY <1>0, <2>3 DEF SubmitterExit, Goto, PoolLock
  <2>4. CASE ListenerStep
    BY <1>0, <1>1, <2>4 DEF ListenerStep, ListenPool, ListenSolo, ListenExit, Goto
  <2>5. CASE Announce(p) \/ Deliver(p)
    <3>1. p = Listener
      BY <1>0, <2>5 DEF Announce, Deliver, Procs
    <3> QED
      BY <1>0, <1>1, <2>5, <3>1 DEF Announce, Deliver, NextDevice, Finish, Goto
  <2>6. npc[p] \notin {"decide", "fannounce", "fsend", "fset", "enter", "claim", "ask", "rpc", "got"}
    BY <1>0 DEF Procs
  <2> QED
    BY <1>0, <1>2, <2>1, <2>2, <2>3, <2>4, <2>5, <2>6
       DEF ProcStep, NotifyStep, GetStep, Decide, ForceAnnounce, ForceDeliver, ForceSet,
           Enter, Claim, Ask, RpcFails, NotNew, Install, GetReturns, HandlerLocks,
           SubmitterStep, SubmitUndecodable
<1>3. ASSUME NEW d \in Devices, ForwarderStep(d) \/ MinerStep(d) PROVE PoolLock'
  <2>1. CASE Receive(d)
    BY <1>0, <2>1 DEF Receive, Goto, PoolLock
  <2>2. CASE ~Receive(d)
    BY <1>1, <1>3, <2>2
       DEF ForwarderStep, ForwarderTakes, ForwarderDrops, ForwarderPasses, ForwarderExit,
           MinerStep, Take, Discard, Begin, NilTemplate, Stop, Hash, Miss, Hit, HitEmptyAgain,
           Push, PushPanics, MinerExit, notifyVars
  <2> QED
    BY <2>1, <2>2
<1>4. CASE NewTip \/ Interrupt \/ UNCHANGED vars
  BY <1>1, <1>4 DEF NewTip, Interrupt, vars, notifyVars
<1> QED
  BY <1>2, <1>3, <1>4 DEF Next

(* A share that was found waits for no one but the pool.                    *)
THEOREM PoolNeverJams == ASSUME Pool PROVE Spec => []SharesNeverJam
<1>1. ASSUME TypeInv, PoolInv, PoolLock PROVE SharesNeverJam
  BY <1>1 DEF PoolInv, PoolCalm, PoolLock, SharesNeverJam
<1>2. Init => TypeInv /\ PoolInv /\ PoolLock
  BY TypeInit, PoolInit, ProcsFact DEF Init, PoolLock
<1>3. (TypeInv /\ PoolInv /\ PoolLock) /\ [Next]_vars => (TypeInv /\ PoolInv /\ PoolLock)'
  BY TypeStep, PoolStep, PoolLockStep
<1> QED
  BY <1>1, <1>2, <1>3, PTL DEF Spec

LEMMA IdleMiner ==
    ASSUME Pool, TypeInv, PoolInv, NobodyIdles, NEW d \in Devices, MinerStep(d)
    PROVE  NobodyIdles'
<1>0. /\ UNCHANGED <<npc, ndev>>
      /\ \A e \in Devices \ {d} : /\ mpc'[e] = mpc[e] /\ mjob'[e] = mjob[e]
                                 /\ newWork'[e] = newWork[e] /\ hasNewWork'[e] = hasNewWork[e]
  BY DEF MinerStep, Take, Discard, Begin, NilTemplate, Stop, Hash, Miss, Hit, HitEmptyAgain,
         Push, PushPanics, MinerExit, notifyVars, jobVars, TypeInv, TypeOK
<1>1. \A e \in Devices \ {d} : FlagMeansWork(e)' /\ NoDeviceIdles(e)'
  BY <1>0 DEF NobodyIdles, FlagMeansWork, NoDeviceIdles, Coming
<1>2. FlagMeansWork(d)' /\ NoDeviceIdles(d)'
  <2>1. CASE Take(d)
    BY <2>1 DEF Take, TypeInv, TypeOK, FlagMeansWork, NoDeviceIdles
  <2>2. CASE Discard(d) \/ NilTemplate(d) \/ HitEmptyAgain(d)
    BY <2>2 DEF Discard, NilTemplate, HitEmptyAgain, EmptySpent, PoolInv, PoolFlag, PoolCalm, PoolOrder
  <2>3. CASE Begin(d)
    BY <2>3 DEF Begin, TypeInv, TypeOK, FlagMeansWork, NoDeviceIdles
  <2>4. CASE Stop(d)
    BY <1>0, <2>4 DEF Stop, CalcStops, PoolInv, PoolCalm, jobVars, TypeInv, TypeOK, NobodyIdles,
                      FlagMeansWork, NoDeviceIdles, Coming
  <2>5. CASE Hash(d) \/ Miss(d) \/ Hit(d) \/ Push(d) \/ PushPanics(d) \/ MinerExit(d)
    <3>1. mpc[d] # "got" /\ mpc'[d] # "wait" /\ UNCHANGED jobVars
      BY <2>5 DEF Hash, Miss, Hit, Push, PushPanics, MinerExit, TypeInv, TypeOK
    <3> QED
      BY <1>0, <3>1 DEF jobVars, NobodyIdles, FlagMeansWork, NoDeviceIdles, Coming
  <2> QED
    BY <2>1, <2>2, <2>3, <2>4, <2>5 DEF MinerStep
<1> QED
  BY <1>1, <1>2 DEF NobodyIdles

LEMMA IdleListener ==
    ASSUME Pool, TypeInv, PoolInv, NobodyIdles,
           Announce(Listener) \/ Deliver(Listener) \/ ListenerStep
    PROVE  NobodyIdles'
<1>0. /\ UNCHANGED <<mpc, mjob>> /\ npc \in [Procs -> NotifierStates] /\ Listener \in Procs
      /\ newWork \in [Devices -> Nat \cup {NoJob}] /\ hasNewWork \in [Devices -> BOOLEAN]
      /\ ndev \in [Procs -> Devices]
  BY ProcsFact DEF Announce, Deliver, ListenerStep, ListenPool, ListenSolo, ListenExit, minerVars,
                   TypeInv, TypeOK
<1> USE DEF NobodyIdles, FlagMeansWork, NoDeviceIdles, Coming
<1>1. CASE Announce(Listener)
  BY <1>0, <1>1 DEF Announce, Goto
<1>2. CASE Deliver(Listener)
  <2>1. ncopy[Listener] # NoJob
    BY <1>2, JobTypes, DevicesFact DEF Deliver, PoolInv, PoolOrder, PoolCalm, NoJob
  <2>2. /\ npc[Listener] = "send" /\ newWork'[ndev[Listener]] # NoJob /\ UNCHANGED hasNewWork
        /\ \A d \in Devices : d # ndev[Listener] => newWork'[d] = newWork[d]
    BY <1>0, <1>2, <2>1 DEF Deliver
  <2> QED
    BY <1>0, <2>2
<1>3. CASE ListenerStep
  <2>1. npc[Listener] = "idle" /\ UNCHANGED jobVars
    BY <1>3 DEF ListenerStep, ListenPool, ListenSolo, ListenExit
  <2> QED
    BY <1>0, <2>1 DEF jobVars
<1> QED
  BY <1>1, <1>2, <1>3

LEMMA IdleStep ==
    ASSUME Pool, TypeInv, PoolInv, NobodyIdles, [Next]_vars
    PROVE  NobodyIdles'
<1>1. ASSUME \/ SubmitterStep \/ NewTip \/ Interrupt \/ UNCHANGED vars
             \/ \E d \in Devices : ForwarderStep(d)
      PROVE  NobodyIdles'
  <2>1. /\ UNCHANGED <<ndev, mpc, mjob, newWork, hasNewWork>>
        /\ UNCHANGED npc \/ \E pc \in NotifierStates : Goto(Submitter, pc)
    BY <1>1 DEF SubmitterStep, SubmitterLocks, SubmitAccepted, SubmitUndecodable, SubmitRejected,
         SubmitterExit, NewTip, Interrupt, vars, ForwarderStep, ForwarderTakes, ForwarderDrops,
         ForwarderPasses, Receive, ForwarderExit, Finish, Goto, Refetches, minerVars, jobVars,
         notifyVars, NotifierStates
  <2>2. npc'[Listener] = npc[Listener]
    BY <2>1, ProcsFact DEF Goto, TypeInv, TypeOK
  <2> QED
    BY <2>1, <2>2 DEF NobodyIdles, FlagMeansWork, NoDeviceIdles, Coming
<1>2. ASSUME NEW p \in Procs, ProcStep(p) PROVE NobodyIdles'
  <2>1. CASE Announce(p) \/ Deliver(p)
    <3>1. p = Listener
      BY <2>1 DEF Announce, Deliver, PoolInv, PoolCalm, Procs
    <3> QED
      BY <2>1, <3>1, IdleListener
  <2>2. CASE ListenerStep
    BY <2>2, IdleListener
  <2>3. CASE SubmitterStep
    BY <1>1, <2>3
  <2>4. npc[p] \notin {"decide", "fannounce", "fsend", "fset", "enter", "claim", "ask", "rpc", "got"}
    BY DEF PoolInv, PoolCalm, Procs
  <2>5. p \in Handlers => npc[p] # "lock"
    BY DEF PoolInv, PoolCalm
  <2> QED
    BY <1>2, <2>1, <2>2, <2>3, <2>4, <2>5
       DEF ProcStep, NotifyStep, GetStep, Decide, ForceAnnounce, ForceDeliver, ForceSet,
           Enter, Claim, Ask, RpcFails, NotNew, Install, GetReturns, HandlerLocks
<1> QED
  BY <1>1, <1>2, IdleMiner DEF Next

(* A device that was given work once is never left without: HasNewWork,     *)
(* which stops its miner and has its shares dropped, stands for a job that  *)
(* is at hand or in the listener's hands.                                   *)
THEOREM PoolNeverIdles == ASSUME Pool PROVE Spec => []NobodyIdles
<1>1. Init => TypeInv /\ PoolInv /\ NobodyIdles
  BY TypeInit, PoolInit DEF Init, NobodyIdles, FlagMeansWork, NoDeviceIdles
<1>2. (TypeInv /\ PoolInv /\ NobodyIdles) /\ [Next]_vars => (TypeInv /\ PoolInv /\ NobodyIdles)'
  BY TypeStep, PoolStep, IdleStep
<1> QED
  BY <1>1, <1>2, PTL DEF Spec
=============================================================================
