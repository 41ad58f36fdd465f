--------------------------- MODULE AsicMinerProofs ---------------------------
(***************************************************************************)
(* Proofs about AsicMiner, for any number of chips, jobs and results: the  *)
(* types; that the port is opened and closed in turn and used only while   *)
(* it is open; that only solutions are submitted, none twice and of an     *)
(* empty template only one; that a miner that ended is invalid; and that a *)
(* raised HasNewWork has its job.                                          *)
(***************************************************************************)
EXTENDS AsicMiner, TLAPS, SequenceTheorems

USE DEF Chips, Heights

(* The port follows fd, which follows start.                                *)
PortInv ==
    /\ start = (fd = "open")
    /\ PortPaired
    /\ pc \in {"freqs", "chips", "listen", "submit"} => start

TypeInv == TypeOK /\ PortInv

-----------------------------------------------------------------------------
(* What an action leaves alone keeps its type.                              *)
LEMMA Frame ==
    ASSUME TypeInv
    PROVE  /\ UNCHANGED jobVars => JobTypes'
           /\ UNCHANGED deviceVars => DeviceTypes'
           /\ UNCHANGED mineVars => MineTypes'
           /\ UNCHANGED <<submitVars, history>> => ShareTypes'
           /\ UNCHANGED boardVars => BoardTypes'
           /\ UNCHANGED <<pc, start, fd, port>> => PortInv'
<1> USE DEF TypeInv, TypeOK
<1>1. UNCHANGED jobVars => JobTypes'
  BY DEF JobTypes, jobVars
<1>2. UNCHANGED deviceVars => DeviceTypes'
  BY DEF DeviceTypes, deviceVars
<1>3. UNCHANGED mineVars => MineTypes'
  BY DEF MineTypes, mineVars
<1>4. UNCHANGED <<submitVars, history>> => ShareTypes'
  BY DEF ShareTypes, submitVars, history
<1>5. UNCHANGED boardVars => BoardTypes'
  BY DEF BoardTypes, boardVars
<1>6. UNCHANGED <<pc, start, fd, port>> => PortInv'
  BY DEF PortInv, PortPaired
<1> QED BY <1>1, <1>2, <1>3, <1>4, <1>5, <1>6

LEMMA TypeInit == Init => TypeInv
<1> SUFFICES ASSUME Init PROVE TypeInv
  OBVIOUS
<1> USE BoundsAssumption DEF Init
<1>1. JobTypes /\ DeviceTypes
  <2>1. JobTypes
    BY DEF JobTypes
  <2>2. newWork \in {<<>>} \cup {<<j>> : j \in Heights}
    BY Zenon
  <2> QED BY <2>1, <2>2 DEF DeviceTypes
<1>2. MineTypes
  <2>1. nonces \subseteq Nonces
    OBVIOUS
  <2>2. pc \in {"wait", "check", "ended", "crashed"} /\ pc # "submit"
    OBVIOUS
  <2>3. start \in BOOLEAN /\ hasSubmit \in BOOLEAN /\ fd \in {"none", "open"}
    BY Zenon
  <2>4. Work \in Heights /\ reject \in 0 .. RejectLimit /\ chip \in Chips
    BY SMT
  <2> QED BY <2>1, <2>2, <2>3, <2>4 DEF MineTypes
<1>3. ShareTypes
  <2>1. sent \subseteq Chips \X Nonces
    OBVIOUS
  <2>2. forwarder \in BOOLEAN /\ quit \in BOOLEAN
    BY Zenon
  <2>3. SubmitData \in {0, 1} /\ shares \in 0 .. 2
    BY SMT
  <2> QED BY <2>1, <2>2, <2>3 DEF ShareTypes
<1>4. BoardTypes
  BY DEF BoardTypes
<1>5. PortInv
  BY DEF PortInv, PortPaired
<1> QED BY <1>1, <1>2, <1>3, <1>4, <1>5 DEF TypeInv, TypeOK

-----------------------------------------------------------------------------
LEMMA NotifierTypes == ASSUME TypeInv, Notifier PROVE TypeInv'
<1> USE BoundsAssumption DEF TypeInv, TypeOK
<1>1. JobTypes' /\ DeviceTypes'
  <2> USE DEF JobTypes, DeviceTypes, deviceVars
  <2>1. CASE GetTemplate
    BY <2>1 DEF GetTemplate
  <2>2. CASE TemplateFails
    BY <2>2 DEF TemplateFails
  <2>3. CASE SetForceUpdate("clear", FALSE, "raise") \/ SetForceUpdate("stop", TRUE, "idle")
    BY <2>3 DEF SetForceUpdate
  <2>4. CASE RaiseFlag("raise", "send", "idle") \/ RaiseFlag("raiseForced", "sendForced", "stop")
    BY <2>4 DEF RaiseFlag
  <2>5. CASE SendWork("send", "idle") \/ SendWork("sendForced", "stop")
    BY <2>5 DEF SendWork
  <2> QED BY <2>1, <2>2, <2>3, <2>4, <2>5 DEF Notifier, NotifyWork
<1>2. UNCHANGED <<mineVars, submitVars, boardVars, history>>
  BY DEF Notifier
<1>3. UNCHANGED <<pc, start, fd, port>>
  BY <1>2 DEF mineVars, boardVars
<1> QED BY <1>1, <1>2, <1>3, Frame

LEMMA OutsideTypes == ASSUME TypeInv, Outside PROVE TypeInv'
<1> USE DEF TypeInv, TypeOK
<1>1. UNCHANGED <<jobVars, deviceVars, mineVars, history>>
  BY DEF Outside
<1>2. CASE (Forward \/ ForwarderEnds \/ QuitDone) /\ UNCHANGED boardVars
  <2>1. ShareTypes'
    BY <1>1, <1>2 DEF Forward, ForwarderEnds, QuitDone, ShareTypes, history
  <2>2. UNCHANGED <<pc, start, fd, port>>
    BY <1>1, <1>2 DEF mineVars, boardVars
  <2> QED BY <1>1, <1>2, <2>1, <2>2, Frame
<1>3. CASE Board /\ UNCHANGED submitVars
  <2>1. PICK c \in working \cup {0}, n \in Nonces, solves \in BOOLEAN : Report(c, n, solves)
    BY <1>3 DEF Board
  <2>2. [chip |-> c, nonce |-> n, solves |-> solves] \in Results
    BY BoundsAssumption DEF BoardTypes, Results
  <2>3. results' \in Seq(Results) /\ Len(results') <= MaxResults
    BY <2>1, <2>2, BoundsAssumption DEF Report, BoardTypes
  <2>4. BoardTypes' /\ UNCHANGED port
    BY <2>1, <2>3 DEF Report, BoardTypes
  <2>5. UNCHANGED <<pc, start, fd, port>>
    BY <1>1, <2>4 DEF mineVars
  <2> QED BY <1>1, <1>3, <2>4, <2>5, Frame
<1> QED BY <1>2, <1>3 DEF Outside

-----------------------------------------------------------------------------
(* Mine leaves the jobs, the forwarder and the request to quit alone; each  *)
(* lemma below is about one of its actions.                                 *)
MineTyped == DeviceTypes /\ MineTypes /\ ShareTypes /\ BoardTypes /\ PortInv

(* Results come from a report and leave at the front.                       *)
LEMMA ResultsTyped ==
    ASSUME NEW s \in Seq(Results), Len(s) <= MaxResults, s # <<>>
    PROVE  Head(s) \in Results /\ Tail(s) \in Seq(Results) /\ Len(Tail(s)) <= MaxResults
BY BoundsAssumption

LEMMA QuitsTypes == ASSUME TypeInv, Quits, UNCHANGED <<jobVars, forwarder, quit>> PROVE MineTyped'
<1> USE BoundsAssumption DEF TypeInv, TypeOK, MineTyped, Quits, QuitSeen, Leave, PortClosed, deviceVars, mineVars, boardVars, history
<1>1. DeviceTypes'
  BY DEF DeviceTypes
<1>2. MineTypes'
  BY DEF MineTypes, Mining
<1>3. ShareTypes'
  BY DEF ShareTypes
<1>4. BoardTypes'
  BY DEF BoardTypes, PortInv, PortPaired
<1>5. PortInv'
  BY DEF PortInv, PortPaired, MineTypes, BoardTypes
<1> QED BY <1>1, <1>2, <1>3, <1>4, <1>5

LEMMA TakeWorkTypes == ASSUME TypeInv, TakeWork, UNCHANGED <<jobVars, forwarder, quit>> PROVE MineTyped'
<1> USE BoundsAssumption DEF TypeInv, TypeOK, MineTyped, TakeWork, deviceVars, mineVars, boardVars, history
<1>1. DeviceTypes'
  BY DEF DeviceTypes
<1>2. MineTypes'
  <2>1. Head(newWork) \in Heights
    BY DEF DeviceTypes
  <2> QED BY <2>1 DEF MineTypes, Mining
<1>3. ShareTypes'
  BY DEF ShareTypes
<1>4. BoardTypes'
  BY DEF BoardTypes, PortInv, PortPaired
<1>5. PortInv'
  BY DEF PortInv, PortPaired, MineTypes, BoardTypes
<1> QED BY <1>1, <1>2, <1>3, <1>4, <1>5

LEMMA DropWorkTypes == ASSUME TypeInv, DropWork, UNCHANGED <<jobVars, forwarder, quit>> PROVE MineTyped'
<1> USE BoundsAssumption DEF TypeInv, TypeOK, MineTyped, DropWork, deviceVars, mineVars, boardVars, history
<1>1. DeviceTypes'
  BY DEF DeviceTypes
<1>2. MineTypes'
  BY DEF MineTypes, Mining
<1>3. ShareTypes'
  BY DEF ShareTypes
<1>4. BoardTypes'
  BY DEF BoardTypes, PortInv, PortPaired
<1>5. PortInv'
  BY DEF PortInv, PortPaired, MineTypes, BoardTypes
<1> QED BY <1>1, <1>2, <1>3, <1>4, <1>5

LEMMA BeginWorkTypes == ASSUME TypeInv, BeginWork, UNCHANGED <<jobVars, forwarder, quit>> PROVE MineTyped'
<1> USE BoundsAssumption DEF TypeInv, TypeOK, MineTyped, BeginWork, deviceVars, mineVars, boardVars, history
<1>1. DeviceTypes'
  BY DEF DeviceTypes
<1>2. MineTypes'
  BY DEF MineTypes, Mining
<1>3. ShareTypes'
  BY DEF ShareTypes
<1>4. BoardTypes'
  BY DEF BoardTypes, PortInv, PortPaired
<1>5. PortInv'
  BY DEF PortInv, PortPaired, MineTypes, BoardTypes
<1> QED BY <1>1, <1>2, <1>3, <1>4, <1>5

LEMMA LeaveJobTypes ==
    ASSUME TypeInv, NEW at \in {"round", "chips", "listen"}, LeaveJob(at),
           UNCHANGED <<jobVars, forwarder, quit>>
    PROVE  MineTyped'
<1> USE BoundsAssumption DEF TypeInv, TypeOK, MineTyped, LeaveJob, deviceVars, boardVars
<1>1. DeviceTypes'
  BY DEF DeviceTypes
<1>2. MineTypes'
  <2>1. pc' = "wait" /\ reject' \in 0 .. RejectLimit /\ chip' \in Chips
    BY SMT
  <2>2. nonces' \subseteq Nonces /\ hasSubmit' \in BOOLEAN
    BY Zenon
  <2>3. UNCHANGED <<Work, start, fd>>
    OBVIOUS
  <2> QED BY <2>1, <2>2, <2>3 DEF MineTypes
<1>3. ShareTypes'
  BY DEF ShareTypes
<1>4. BoardTypes'
  BY DEF BoardTypes
<1>5. PortInv'
  BY DEF PortInv, PortPaired
<1> QED BY <1>1, <1>2, <1>3, <1>4, <1>5

LEMMA InitDrvTypes == ASSUME TypeInv, InitDrv, UNCHANGED <<jobVars, forwarder, quit>> PROVE MineTyped'
<1> USE BoundsAssumption DEF TypeInv, TypeOK, MineTyped, InitDrv, deviceVars, mineVars, boardVars, history
<1>1. DeviceTypes'
  BY DEF DeviceTypes
<1>2. MineTypes'
  BY DEF MineTypes, Mining
<1>3. ShareTypes'
  BY DEF ShareTypes
<1>4. BoardTypes'
  BY DEF BoardTypes, PortInv, PortPaired
<1>5. PortInv'
  <2>1. start' = TRUE /\ fd' = "open" /\ port' = 1 /\ pc' = "freqs"
    BY DEF PortInv, PortPaired
  <2> QED BY <2>1 DEF PortInv, PortPaired, MineTypes, BoardTypes
<1> QED BY <1>1, <1>2, <1>3, <1>4, <1>5

LEMMA InitDrvFailsTypes == ASSUME TypeInv, InitDrvFails, UNCHANGED <<jobVars, forwarder, quit>> PROVE MineTyped'
<1> USE BoundsAssumption DEF TypeInv, TypeOK, MineTyped, InitDrvFails, EndsInvalid, Leave, PortClosed, deviceVars, mineVars, boardVars, history
<1>1. DeviceTypes'
  BY DEF DeviceTypes
<1>2. MineTypes'
  BY DEF MineTypes, Mining
<1>3. ShareTypes'
  BY DEF ShareTypes
<1>4. BoardTypes'
  BY DEF BoardTypes, PortInv, PortPaired
<1>5. PortInv'
  BY DEF PortInv, PortPaired, MineTypes, BoardTypes
<1> QED BY <1>1, <1>2, <1>3, <1>4, <1>5

LEMMA SetFreqsTypes == ASSUME TypeInv, SetFreqs, UNCHANGED <<jobVars, forwarder, quit>> PROVE MineTyped'
<1> USE BoundsAssumption DEF TypeInv, TypeOK, MineTyped, SetFreqs, PortClosed, deviceVars, mineVars, boardVars, history
<1>1. DeviceTypes'
  BY DEF DeviceTypes
<1>2. MineTypes'
  BY DEF MineTypes, Mining
<1>3. ShareTypes'
  BY DEF ShareTypes
<1>4. BoardTypes'
  BY DEF BoardTypes, PortInv, PortPaired
<1>5. PortInv'
  BY DEF PortInv, PortPaired, MineTypes, BoardTypes
<1> QED BY <1>1, <1>2, <1>3, <1>4, <1>5

LEMMA NextRoundTypes == ASSUME TypeInv, NextRound, UNCHANGED <<jobVars, forwarder, quit>> PROVE MineTyped'
<1> USE BoundsAssumption DEF TypeInv, TypeOK, MineTyped, NextRound, deviceVars, mineVars, boardVars, history
<1>1. DeviceTypes'
  BY DEF DeviceTypes
<1>2. MineTypes'
  BY DEF MineTypes, Mining
<1>3. ShareTypes'
  BY DEF ShareTypes
<1>4. BoardTypes'
  BY DEF BoardTypes, PortInv, PortPaired
<1>5. PortInv'
  BY DEF PortInv, PortPaired, MineTypes, BoardTypes
<1> QED BY <1>1, <1>2, <1>3, <1>4, <1>5

LEMMA SetWorkTypes == ASSUME TypeInv, SetWork, UNCHANGED <<jobVars, forwarder, quit>> PROVE MineTyped'
<1> USE BoundsAssumption DEF TypeInv, TypeOK, MineTyped, SetWork, LastChip, deviceVars, mineVars, boardVars, history
<1>0. results' \in Seq(Results) /\ Len(results') = Len(results)
  <2>1. \A i \in DOMAIN results : results[i] \in Results
    BY DEF BoardTypes
  <2>2. \A r \in Results : [r EXCEPT !.solves = FALSE] \in Results
    BY DEF Results
  <2> QED BY <2>1, <2>2 DEF BoardTypes
<1>1. DeviceTypes'
  BY <1>0 DEF DeviceTypes
<1>2. MineTypes'
  BY <1>0 DEF MineTypes, Mining
<1>3. ShareTypes'
  BY <1>0 DEF ShareTypes
<1>4. BoardTypes'
  BY <1>0 DEF BoardTypes, PortInv, PortPaired, MineTypes
<1>5. PortInv'
  BY <1>0 DEF PortInv, PortPaired, MineTypes, BoardTypes
<1> QED BY <1>1, <1>2, <1>3, <1>4, <1>5

LEMMA LeaveListenTypes == ASSUME TypeInv, LeaveListen, UNCHANGED <<jobVars, forwarder, quit>> PROVE MineTyped'
<1> USE BoundsAssumption DEF TypeInv, TypeOK, MineTyped, LeaveListen, deviceVars, mineVars, boardVars, history
<1>1. DeviceTypes'
  BY DEF DeviceTypes
<1>2. MineTypes'
  BY DEF MineTypes, Mining
<1>3. ShareTypes'
  BY DEF ShareTypes
<1>4. BoardTypes'
  BY DEF BoardTypes, PortInv, PortPaired
<1>5. PortInv'
  BY DEF PortInv, PortPaired, MineTypes, BoardTypes
<1> QED BY <1>1, <1>2, <1>3, <1>4, <1>5

LEMMA SkipResultTypes == ASSUME TypeInv, SkipResult, UNCHANGED <<jobVars, forwarder, quit>> PROVE MineTyped'
<1> USE BoundsAssumption DEF TypeInv, TypeOK, MineTyped, SkipResult, Listens, deviceVars, mineVars, boardVars, history
<1>0. Head(results) \in Results /\ results' \in Seq(Results) /\ Len(results') <= MaxResults
  BY ResultsTyped DEF BoardTypes
<1>1. DeviceTypes'
  BY <1>0 DEF DeviceTypes
<1>2. MineTypes'
  BY <1>0 DEF MineTypes, Mining
<1>3. ShareTypes'
  BY <1>0 DEF ShareTypes
<1>4. BoardTypes'
  BY <1>0 DEF BoardTypes, PortInv, PortPaired
<1>5. PortInv'
  BY <1>0 DEF PortInv, PortPaired, MineTypes, BoardTypes
<1> QED BY <1>1, <1>2, <1>3, <1>4, <1>5

LEMMA FoundTypes == ASSUME TypeInv, Found, UNCHANGED <<jobVars, forwarder, quit>> PROVE MineTyped'
<1> USE BoundsAssumption DEF TypeInv, TypeOK, MineTyped, Found, NewResult, Listens, Remember, deviceVars, mineVars, boardVars, history
<1>0. Head(results) \in Results /\ results' \in Seq(Results) /\ Len(results') <= MaxResults
  BY ResultsTyped DEF BoardTypes
<1>a. nonces' \subseteq Nonces
  BY <1>0 DEF MineTypes, Results
<1>1. DeviceTypes'
  BY <1>0 DEF DeviceTypes
<1>2. MineTypes'
  BY <1>0, <1>a DEF MineTypes, Mining
<1>3. ShareTypes'
  BY <1>0 DEF ShareTypes
<1>4. BoardTypes'
  BY <1>0 DEF BoardTypes, PortInv, PortPaired
<1>5. PortInv'
  BY <1>0 DEF PortInv, PortPaired, MineTypes, BoardTypes
<1> QED BY <1>1, <1>2, <1>3, <1>4, <1>5

LEMMA CountRejectTypes == ASSUME TypeInv, CountReject, UNCHANGED <<jobVars, forwarder, quit>> PROVE MineTyped'
<1> USE BoundsAssumption DEF TypeInv, TypeOK, MineTyped, CountReject, NewResult, Listens, Remember, deviceVars, mineVars, boardVars, history
<1>0. Head(results) \in Results /\ results' \in Seq(Results) /\ Len(results') <= MaxResults
  BY ResultsTyped DEF BoardTypes
<1>a. nonces' \subseteq Nonces
  BY <1>0 DEF MineTypes, Results
<1>1. DeviceTypes'
  BY <1>0 DEF DeviceTypes
<1>2. MineTypes'
  BY <1>0, <1>a DEF MineTypes, Mining
<1>3. ShareTypes'
  BY <1>0 DEF ShareTypes
<1>4. BoardTypes'
  BY <1>0 DEF BoardTypes, PortInv, PortPaired
<1>5. PortInv'
  BY <1>0 DEF PortInv, PortPaired, MineTypes, BoardTypes
<1> QED BY <1>1, <1>2, <1>3, <1>4, <1>5

LEMMA CloseBoardTypes == ASSUME TypeInv, CloseBoard, UNCHANGED <<jobVars, forwarder, quit>> PROVE MineTyped'
<1> USE BoundsAssumption DEF TypeInv, TypeOK, MineTyped, CloseBoard, NewResult, Listens, Uninitialised, deviceVars, mineVars, boardVars, history
<1>0. Head(results) \in Results /\ results' \in Seq(Results) /\ Len(results') <= MaxResults
  BY ResultsTyped DEF BoardTypes
<1>a. port' = 0 /\ start' = FALSE /\ fd' = "none" /\ pc' = "wait"
  <2>1. pc = "listen" /\ fd = "open"
    BY DEF PortInv
  <2>2. port = 1
    BY <2>1 DEF PortInv, PortPaired
  <2>3. port' = 0
    BY <2>2
  <2> QED BY <2>3
<1>1. DeviceTypes'
  BY <1>0 DEF DeviceTypes
<1>2. MineTypes'
  <2>1. reject' \in 0 .. RejectLimit
    BY SMT
  <2>2. nonces' \subseteq Nonces /\ hasSubmit' \in BOOLEAN /\ start' \in BOOLEAN
    BY Zenon
  <2>3. UNCHANGED <<Work, chip>>
    OBVIOUS
  <2> QED BY <1>a, <2>1, <2>2, <2>3 DEF MineTypes
<1>3. ShareTypes'
  BY <1>0 DEF ShareTypes
<1>4. BoardTypes'
  BY <1>0, <1>a DEF BoardTypes
<1>5. PortInv'
  BY <1>a DEF PortInv, PortPaired
<1> QED BY <1>1, <1>2, <1>3, <1>4, <1>5

LEMMA SendShareTypes == ASSUME TypeInv, SendShare, UNCHANGED <<jobVars, forwarder, quit>> PROVE MineTyped'
<1> USE BoundsAssumption DEF TypeInv, TypeOK, MineTyped, SendShare, Submits, deviceVars, mineVars, boardVars, history
<1>1. DeviceTypes'
  BY DEF DeviceTypes
<1>2. MineTypes'
  BY DEF MineTypes, Mining
<1>3. ShareTypes'
  <2>1. sent' \subseteq Chips \X Nonces
    BY DEF ShareTypes, MineTypes, Results
  <2> QED BY <2>1 DEF ShareTypes, MineTypes, Results
<1>4. BoardTypes'
  BY DEF BoardTypes, PortInv, PortPaired
<1>5. PortInv'
  BY DEF PortInv, PortPaired, MineTypes, BoardTypes
<1> QED BY <1>1, <1>2, <1>3, <1>4, <1>5

LEMMA PanicsTypes == ASSUME TypeInv, Panics, UNCHANGED <<jobVars, forwarder, quit>> PROVE MineTyped'
<1> USE BoundsAssumption DEF TypeInv, TypeOK, MineTyped, Panics, Leave, PortClosed, deviceVars, mineVars, boardVars, history
<1>1. DeviceTypes'
  BY DEF DeviceTypes
<1>2. MineTypes'
  BY DEF MineTypes, Mining
<1>3. ShareTypes'
  BY DEF ShareTypes
<1>4. BoardTypes'
  BY DEF BoardTypes, PortInv, PortPaired
<1>5. PortInv'
  BY DEF PortInv, PortPaired, MineTypes, BoardTypes
<1> QED BY <1>1, <1>2, <1>3, <1>4, <1>5

LEMMA MineKeepsTypes == ASSUME TypeInv, Mine PROVE TypeInv'
<1>1. UNCHANGED <<jobVars, forwarder, quit>>
  BY DEF Mine
<1>2. MineTyped'
  <2>1. CASE Quits \/ TakeWork \/ DropWork \/ BeginWork \/ InitDrv \/ InitDrvFails \/ SetFreqs
    BY <1>1, <2>1, QuitsTypes, TakeWorkTypes, DropWorkTypes, BeginWorkTypes, InitDrvTypes,
       InitDrvFailsTypes, SetFreqsTypes
  <2>2. CASE LeaveRound \/ LeaveStale \/ LeaveEmpty
    BY <1>1, <2>2, LeaveJobTypes DEF LeaveRound, LeaveStale, LeaveEmpty
  <2>3. CASE NextRound \/ SetWork \/ LeaveListen \/ SkipResult
    BY <1>1, <2>3, NextRoundTypes, SetWorkTypes, LeaveListenTypes, SkipResultTypes
  <2>4. CASE Found \/ CountReject \/ CloseBoard \/ SendShare \/ Panics
    BY <1>1, <2>4, FoundTypes, CountRejectTypes, CloseBoardTypes, SendShareTypes, PanicsTypes
  <2> QED BY <2>1, <2>2, <2>3, <2>4 DEF Mine
<1>3. JobTypes'
  BY <1>1, Frame
<1> QED BY <1>2, <1>3 DEF TypeInv, TypeOK, MineTyped

LEMMA TypeInvariant == Spec => []TypeInv
<1>1. ASSUME TypeInv, UNCHANGED vars PROVE TypeInv'
  <2>1. UNCHANGED <<jobVars, deviceVars, mineVars, submitVars, boardVars, history>>
    BY <1>1 DEF vars
  <2>2. UNCHANGED <<pc, start, fd, port>>
    BY <2>1 DEF mineVars, boardVars
  <2> QED BY <1>1, <2>1, <2>2, Frame DEF TypeInv, TypeOK
<1>2. TypeInv /\ [Next]_vars => TypeInv'
  BY <1>1, NotifierTypes, MineKeepsTypes, OutsideTypes DEF Next
<1> QED BY <1>2, TypeInit, PTL DEF Spec

(* Every variable of the device, of Mine and of the board keeps its type:   *)
(* the count of rejects never passes its limit, and the number of   *)
(* the chip stays one of a chip (pow_meer_asic.go:186, 269).                *)
THEOREM TypeCorrect == Spec => []TypeOK
<1>1. TypeInv => TypeOK
  BY DEF TypeInv
<1> QED BY <1>1, TypeInvariant, PTL

(* However Mine ends, by a return or by a panic, and however often it gives *)
(* the board up, the port is open exactly while Mine has it                 *)
(* (pow_meer_asic.go:96-107, 271-273).                                      *)
THEOREM PortAlwaysPaired == Spec => []PortPaired
<1>1. TypeInv => PortPaired
  BY DEF TypeInv, PortInv
<1> QED BY <1>1, TypeInvariant, PTL

(* The driver is called only with a port that is open, also after a board   *)
(* was given up (pow_meer_asic.go:152-159, 208, 235).                       *)
THEOREM BoardAlwaysReady == Spec => []BoardReady
<1>1. TypeInv => BoardReady
  <2> SUFFICES ASSUME TypeInv, pc \in {"freqs", "chips", "listen", "submit"}
               PROVE  start /\ port = 1
    BY DEF BoardReady
  <2>1. start /\ fd = "open"
    BY DEF TypeInv, PortInv
  <2>2. port = 1
    BY <2>1 DEF TypeInv, PortInv, PortPaired
  <2> QED BY <2>1, <2>2
<1> QED BY <1>1, TypeInvariant, PTL

-----------------------------------------------------------------------------
(* What the notifier, the forwarder and the user do leaves Mine alone, and  *)
(* the board only adds results.                                             *)
LEMMA Others ==
    ASSUME TypeInv, Notifier \/ Outside \/ UNCHANGED vars
    PROVE  /\ UNCHANGED <<mineVars, history, working, IsValid>>
           /\ quit => quit'
<1>1. CASE Notifier
  <2>1. UNCHANGED <<mineVars, history, working, quit>>
    BY <1>1 DEF Notifier, boardVars, submitVars
  <2>2. UNCHANGED IsValid
    BY <1>1 DEF Notifier, GetTemplate, TemplateFails, NotifyWork, SetForceUpdate, RaiseFlag,
                SendWork, deviceVars
  <2> QED BY <2>1, <2>2
<1>2. CASE Outside
  <2>1. UNCHANGED <<mineVars, history, IsValid>>
    BY <1>2 DEF Outside, deviceVars
  <2>2. CASE (Forward \/ ForwarderEnds \/ QuitDone) /\ UNCHANGED boardVars
    BY <2>1, <2>2 DEF Forward, ForwarderEnds, QuitDone, boardVars
  <2>3. CASE Board /\ UNCHANGED submitVars
    BY <2>1, <2>3 DEF Board, Report, submitVars
  <2> QED BY <1>2, <2>2, <2>3 DEF Outside
<1>3. CASE UNCHANGED vars
  BY <1>3 DEF vars, mineVars, history, boardVars, submitVars, deviceVars
<1> QED BY <1>1, <1>2, <1>3

-----------------------------------------------------------------------------
(* A miner that ended: only a request to quit leaves it valid.              *)
LEMMA EndedStep == TypeInv /\ EndedInvalid /\ [Next]_vars => EndedInvalid'
<1> SUFFICES ASSUME TypeInv, EndedInvalid, [Next]_vars PROVE EndedInvalid'
  OBVIOUS
<1>1. CASE Notifier \/ Outside \/ UNCHANGED vars
  BY <1>1, Others DEF EndedInvalid, mineVars
<1>2. CASE Mine
  <2> USE <1>2 DEF EndedInvalid
  <2>1. UNCHANGED quit
    BY DEF Mine
  <2>2. CASE pc' = "ended"
    <3>1. Quits \/ InitDrvFails \/ (SetFreqs /\ ~FreqsParse)
      BY <2>2 DEF Mine, TakeWork, DropWork, BeginWork, LeaveRound, LeaveJob, InitDrv, SetFreqs,
                  NextRound, LeaveStale, SetWork, LeaveListen, LeaveEmpty, SkipResult, Listens,
                  Found, CountReject, CloseBoard, NewResult, SendShare, Panics, Leave
    <3> QED BY <2>1, <3>1 DEF Quits, InitDrvFails, EndsInvalid
  <2> QED BY <2>2
<1> QED BY <1>1, <1>2 DEF Next

(* A board that cannot be opened takes its device out of the distribution   *)
(* of jobs (pow_meer_asic.go:155-158, device.go:86).                        *)
THEOREM EndedAlwaysInvalid == Spec => []EndedInvalid
<1>1. Init => EndedInvalid
  BY DEF Init, EndedInvalid
<1> QED BY <1>1, EndedStep, TypeInvariant, PTL DEF Spec

-----------------------------------------------------------------------------
(* An empty template: a share goes out only while hasSubmit is FALSE.       *)
EmptyInv ==
    /\ pc \in {"wait", "check"} \/ ~hasSubmit => shares = 0
    /\ pc \in {"wait", "check"} => ~hasSubmit
    /\ pc = "submit" /\ ~Pool /\ Work \in EmptyAt => ~hasSubmit
    /\ EmptyOnce

LEMMA EmptyStep == TypeInv /\ EmptyInv /\ [Next]_vars => EmptyInv'
<1> SUFFICES ASSUME TypeInv, EmptyInv, [Next]_vars PROVE EmptyInv'
  OBVIOUS
<1> USE DEF EmptyInv, EmptyOnce
<1>1. CASE Notifier \/ Outside \/ UNCHANGED vars
  BY <1>1, Others DEF mineVars, history
<1>2. CASE Quits \/ InitDrvFails \/ Panics
  BY <1>2 DEF Quits, InitDrvFails, Panics, Leave, history, Mining
<1>3. CASE TakeWork \/ DropWork \/ BeginWork
  BY <1>3 DEF TakeWork, DropWork, BeginWork, history, Mining
<1>4. CASE LeaveRound \/ LeaveStale \/ LeaveEmpty \/ CloseBoard
  BY <1>4 DEF LeaveRound, LeaveStale, LeaveEmpty, CloseBoard, LeaveJob, Mining
<1>5. CASE InitDrv \/ SetFreqs \/ NextRound \/ SetWork \/ LeaveListen
  BY <1>5 DEF InitDrv, SetFreqs, NextRound, SetWork, LeaveListen, history, Mining
<1>6. CASE SkipResult \/ CountReject
  BY <1>6 DEF SkipResult, CountReject, NewResult, Listens, Mining
<1>7. CASE Found
  BY <1>7 DEF Found, NewResult, Listens, SubmittedOnce, Mining
<1>8. CASE SendShare
  <2>1. pc = "submit" /\ pc' = "listen" /\ hasSubmit' = TRUE /\ Work' = Work
    BY <1>8 DEF SendShare, Submits
  <2>2. ~Pool /\ Work \in EmptyAt => shares' = 1
    BY <1>8, <2>1 DEF SendShare
  <2> QED BY <2>1, <2>2
<1> QED BY <1>1, <1>2, <1>3, <1>4, <1>5, <1>6, <1>7, <1>8 DEF Next, Mine

(* pow_meer_asic.go:229: "empty block just can submit once".                *)
THEOREM EmptySubmittedOnce == Spec => []EmptyOnce
<1>1. Init => EmptyInv
  BY DEF Init, EmptyInv, EmptyOnce
<1>2. EmptyInv => EmptyOnce
  BY DEF EmptyInv
<1> QED BY <1>1, <1>2, EmptyStep, TypeInvariant, PTL DEF Spec

-----------------------------------------------------------------------------
(* A result that solves is of a chip at work: it was reported by one, and   *)
(* what is called a solution ceases to be one with the chip's next header.  *)
SolveInv ==
    /\ \A i \in DOMAIN results : results[i].solves => results[i].chip \in working
    /\ OnlySolutions

LEMMA SolvePop ==
    ASSUME TypeInv, SolveInv, results # <<>>, results' = Tail(results), UNCHANGED working
    PROVE  /\ Head(results).solves => Head(results).chip \in working
           /\ \A i \in DOMAIN results' : results'[i].solves => results'[i].chip \in working'
<1>1. results \in Seq(Results)
  BY DEF TypeInv, TypeOK, BoardTypes
<1>2. Head(results) = results[1] /\ 1 \in DOMAIN results
  BY <1>1
<1>3. \A i \in DOMAIN Tail(results) : i + 1 \in DOMAIN results /\ Tail(results)[i] = results[i + 1]
  BY <1>1
<1> QED BY <1>2, <1>3 DEF SolveInv

LEMMA SolveStep == TypeInv /\ SolveInv /\ [Next]_vars => SolveInv'
<1> SUFFICES ASSUME TypeInv, SolveInv, [Next]_vars PROVE SolveInv'
  OBVIOUS
<1> USE DEF SolveInv, OnlySolutions
<1>1. CASE Notifier \/ UNCHANGED vars
  <2>1. UNCHANGED <<pc, found, working, results>>
    BY <1>1 DEF Notifier, vars, mineVars, boardVars
  <2> QED BY <2>1
<1>2. CASE Outside
  <2>1. UNCHANGED <<pc, found, working>>
    BY <1>2, Others DEF mineVars
  <2>2. CASE UNCHANGED results
    BY <2>1, <2>2
  <2>3. CASE ~UNCHANGED results
    <3>1. PICK c \in working \cup {0}, n \in Nonces, solves \in BOOLEAN :
              Report(c, n, solves) /\ (solves => c \in working)
      BY <1>2, <2>3 DEF Outside, Board, boardVars
    <3>2. results \in Seq(Results)
      BY DEF TypeInv, TypeOK, BoardTypes
    <3>3. results' = Append(results, [chip |-> c, nonce |-> n, solves |-> solves])
      BY <3>1 DEF Report
    <3>4. \A i \in DOMAIN results' :
              \/ i \in DOMAIN results /\ results'[i] = results[i]
              \/ results'[i] = [chip |-> c, nonce |-> n, solves |-> solves]
      BY <3>2, <3>3
    <3> QED BY <2>1, <3>1, <3>4
  <2> QED BY <2>2, <2>3
<1>3. CASE Quits \/ InitDrvFails \/ Panics
  BY <1>3 DEF Quits, InitDrvFails, Panics, Leave
<1>4. CASE TakeWork \/ DropWork \/ BeginWork \/ NextRound \/ LeaveListen \/ SetFreqs
  BY <1>4 DEF TakeWork, DropWork, BeginWork, NextRound, LeaveListen, SetFreqs, boardVars
<1>5. CASE LeaveRound \/ LeaveStale \/ LeaveEmpty
  BY <1>5 DEF LeaveRound, LeaveStale, LeaveEmpty, LeaveJob, boardVars
<1>6. CASE InitDrv
  BY <1>6 DEF InitDrv
<1>7. CASE SetWork
  <2>1. pc' # "submit" /\ working \subseteq working' /\ chip \in working'
    BY <1>7 DEF SetWork
  <2>2. /\ DOMAIN results' = DOMAIN results
        /\ \A i \in DOMAIN results : results'[i].solves =>
               results[i].solves /\ results'[i].chip = results[i].chip
    <3>1. \A i \in DOMAIN results : results[i] \in Results
      BY DEF TypeInv, TypeOK, BoardTypes
    <3>2. \A r \in Results : [r EXCEPT !.solves = FALSE].solves = FALSE
      BY DEF Results
    <3> QED BY <1>7, <3>1, <3>2 DEF SetWork
  <2> QED BY <2>1, <2>2
<1>8. CASE SkipResult \/ CountReject \/ CloseBoard
  <2>1. Listens /\ pc' # "submit"
    BY <1>8 DEF SkipResult, CountReject, CloseBoard, NewResult, Listens
  <2> QED BY <2>1, SolvePop DEF Listens
<1>9. CASE Found
  <2>1. Listens /\ found' = Head(results) /\ Head(results).solves
    BY <1>9 DEF Found, NewResult, Solves
  <2> QED BY <2>1, SolvePop DEF Listens
<1>10. CASE SendShare
  BY <1>10 DEF SendShare, boardVars
<1> QED BY <1>1, <1>2, <1>3, <1>4, <1>5, <1>6, <1>7, <1>8, <1>9, <1>10 DEF Next, Mine

(* Whatever the chips report, and however late, only what solves the header *)
(* its chip has is submitted (pow_meer_asic.go:240-263).                    *)
THEOREM OnlySolutionsSubmitted == Spec => []OnlySolutions
<1>1. Init => SolveInv
  BY DEF Init, SolveInv, OnlySolutions
<1>2. SolveInv => OnlySolutions
  BY DEF SolveInv
<1> QED BY <1>1, <1>2, SolveStep, TypeInvariant, PTL DEF Spec

-----------------------------------------------------------------------------
(* The shares of the headers given out are among the nonces of the round;   *)
(* while the chips get their headers, those of the chips before are gone.   *)
TwiceInv ==
    /\ pc \in {"wait", "check", "round", "freqs", "listen", "submit"} => chip = 1
    /\ pc \in {"wait", "check", "round", "freqs", "chips"} => nonces = {}
    /\ pc = "chips" => \A x \in sent : x[1] >= chip
    /\ pc \in {"listen", "submit"} => \A x \in sent : x[2] \in nonces
    /\ pc = "submit" => found.nonce \in nonces
    /\ NoShareTwice

LEMMA TwiceStep == TypeInv /\ TwiceInv /\ [Next]_vars => TwiceInv'
<1> SUFFICES ASSUME TypeInv, TwiceInv, [Next]_vars PROVE TwiceInv'
  OBVIOUS
<1> USE DEF TwiceInv, NoShareTwice
<1>t. /\ \A x \in sent : x[1] \in Chips
      /\ NumOfChips \in Nat /\ chip \in Chips
  BY BoundsAssumption DEF TypeInv, TypeOK, ShareTypes, MineTypes
<1>1. CASE Notifier \/ Outside \/ UNCHANGED vars
  BY <1>1, Others DEF mineVars, history
<1>2. CASE Quits \/ InitDrvFails \/ Panics
  BY <1>2 DEF Quits, InitDrvFails, Panics, Leave
<1>3. CASE TakeWork \/ DropWork \/ BeginWork \/ InitDrv
  BY <1>3 DEF TakeWork, DropWork, BeginWork, InitDrv, history
<1>4. CASE SetFreqs \/ NextRound
  BY <1>t, <1>4 DEF SetFreqs, NextRound, history
<1>5. CASE LeaveRound \/ LeaveStale \/ LeaveEmpty \/ LeaveListen
  BY <1>5 DEF LeaveRound, LeaveStale, LeaveEmpty, LeaveJob, LeaveListen
<1>6. CASE SetWork
  <2>1. pc = "chips" /\ UNCHANGED nonces /\ sent' = {x \in sent : x[1] # chip}
    BY <1>6 DEF SetWork
  <2>2. CASE LastChip
    <3>1. sent' = {}
      BY <1>t, <2>1, <2>2 DEF LastChip
    <3> QED BY <1>6, <2>1, <2>2, <3>1 DEF SetWork
  <2>3. CASE ~LastChip
    <3>1. \A x \in sent' : x[1] >= chip + 1
      BY <1>t, <2>1
    <3> QED BY <1>6, <2>1, <2>3, <3>1 DEF SetWork
  <2> QED BY <2>2, <2>3
<1>7. CASE SkipResult \/ CountReject
  BY <1>7 DEF SkipResult, CountReject, NewResult, Listens, Remember
<1>8. CASE CloseBoard
  BY <1>8 DEF CloseBoard, NewResult, Listens
<1>9. CASE Found
  BY <1>9 DEF Found, NewResult, Listens, Remember
<1>10. CASE SendShare
  BY <1>10 DEF SendShare
<1> QED BY <1>1, <1>2, <1>3, <1>4, <1>5, <1>6, <1>7, <1>8, <1>9, <1>10 DEF Next, Mine

(* A nonce that comes again while its chip has the same header is no second *)
(* share (pow_meer_asic.go:246, 279).                                       *)
THEOREM NoShareSentTwice == Spec => []NoShareTwice
<1>1. Init => TwiceInv
  BY DEF Init, TwiceInv, NoShareTwice
<1>2. TwiceInv => NoShareTwice
  BY DEF TwiceInv
<1> QED BY <1>1, <1>2, TwiceStep, TypeInvariant, PTL DEF Spec
-----------------------------------------------------------------------------
(* The flag is raised before the job is there and put down when one is      *)
(* begun, by two goroutines without a lock, and a forced stop makes Mine    *)
(* drop a job with its flag up.  Yet what the flag announces is at hand, or *)
(* in the notifier's hands, or the device is stopped by force.              *)
WorkComing == newWork # <<>> \/ notifier \in {"raise", "send", "sendForced"}

FlagMeansWork ==
    /\ HasNewWork /\ pc \in Mining => newWork # <<>> \/ notifier \in {"send", "sendForced"}
    /\ HasNewWork /\ pc = "wait" => WorkComing \/ ForceStop

FlagInv ==
    /\ ~IsValid => pc = "ended"
    /\ FlagMeansWork

LEMMA FlagStep == TypeInv /\ FlagInv /\ [Next]_vars => FlagInv'
<1> SUFFICES ASSUME TypeInv, FlagInv, [Next]_vars PROVE FlagInv'
  OBVIOUS
<1> USE DEF FlagInv, FlagMeansWork, WorkComing, Mining
<1>t. ForceStop \in BOOLEAN /\ HasNewWork \in BOOLEAN /\ IsValid \in BOOLEAN
  BY DEF TypeInv, TypeOK, DeviceTypes
<1>1. CASE Outside \/ UNCHANGED vars
  BY <1>1 DEF Outside, vars, jobVars, deviceVars, mineVars
<1>2. CASE Notifier
  <2>a. UNCHANGED pc
    BY <1>2 DEF Notifier, mineVars
  <2>1. CASE GetTemplate \/ TemplateFails
    BY <2>1, <2>a DEF GetTemplate, TemplateFails, deviceVars
  <2>2. CASE SetForceUpdate("clear", FALSE, "raise") \/ SetForceUpdate("stop", TRUE, "idle")
    <3>1. UNCHANGED <<newWork, HasNewWork, IsValid, pc>>
      BY <2>2, <2>a DEF SetForceUpdate
    <3>2. pc \in Mining => notifier \notin {"send", "sendForced"} /\ (HasNewWork => newWork # <<>>)
      BY <2>2 DEF SetForceUpdate
    <3>3. pc = "wait" => notifier' = "raise" \/ ForceStop' = TRUE
      BY <2>2 DEF SetForceUpdate
    <3> QED BY <3>1, <3>2, <3>3
  <2>3. CASE RaiseFlag("raise", "send", "idle") \/ RaiseFlag("raiseForced", "sendForced", "stop")
    BY <1>t, <2>3, <2>a DEF RaiseFlag
  <2>4. CASE SendWork("send", "idle") \/ SendWork("sendForced", "stop")
    <3>1. newWork' = <<job>> /\ UNCHANGED <<HasNewWork, ForceStop, IsValid>>
      BY <2>4 DEF SendWork
    <3>2. newWork' # <<>>
      BY <3>1
    <3> QED BY <3>1, <3>2, <2>a
  <2> QED BY <1>2, <2>1, <2>2, <2>3, <2>4 DEF Notifier, NotifyWork
<1>3. CASE Mine
  <2>a. UNCHANGED notifier
    BY <1>3 DEF Mine, jobVars
  <2>1. CASE Quits \/ InitDrvFails \/ Panics
    BY <2>1, <2>a DEF Quits, QuitSeen, InitDrvFails, EndsInvalid, Panics, Leave
  <2>2. CASE TakeWork \/ DropWork \/ BeginWork
    BY <2>2, <2>a DEF TakeWork, DropWork, BeginWork, deviceVars
  <2>3. CASE LeaveRound \/ LeaveStale \/ LeaveEmpty
    BY <2>3, <2>a DEF LeaveRound, LeaveStale, LeaveEmpty, LeaveJob, deviceVars
  <2>4. CASE InitDrv \/ SetFreqs \/ NextRound \/ SetWork \/ LeaveListen
    BY <2>4, <2>a DEF InitDrv, SetFreqs, NextRound, SetWork, LeaveListen, deviceVars
  <2>5. CASE SkipResult \/ Found \/ CountReject \/ CloseBoard
    BY <2>5, <2>a DEF SkipResult, Found, CountReject, CloseBoard, NewResult, Listens, deviceVars
  <2>6. CASE SendShare
    BY <2>6, <2>a DEF SendShare, deviceVars
  <2> QED BY <1>3, <2>1, <2>2, <2>3, <2>4, <2>5, <2>6 DEF Mine
<1> QED BY <1>1, <1>2, <1>3 DEF Next

(* A job is given up for the flag of another only when that other job is    *)
(* there or on its way, and a miner that waits with its flag up is served   *)
(* unless the devices are stopped by force (pow_meer_asic.go:126-146,       *)
(* device.go:85-95).                                                        *)
THEOREM FlagAlwaysMeansWork == Spec => []FlagMeansWork
<1>1. Init => FlagInv
  BY DEF Init, FlagInv, FlagMeansWork, Mining
<1>2. FlagInv => FlagMeansWork
  BY DEF FlagInv
<1> QED BY <1>1, <1>2, FlagStep, TypeInvariant, PTL DEF Spec
=============================================================================
