---------------------- MODULE JobDispatchStreamProofs ----------------------
(***************************************************************************)
(* The refinement, for any number of devices and any bounds: every step of *)
(* JobDispatch is a step of ShareStream or leaves the path of the shares   *)
(* as it is.  What follows from it: the shares on their way have no gap.   *)
(***************************************************************************)
EXTENDS JobDispatchStream, JobDispatchProofs, SequenceTheorems

(* The sequences of a pipeline, whatever its three places hold.             *)
LEMMA RankFact ==
    ASSUME NEW s \in Shares \cup {NoShare}
    PROVE  /\ Rank(s) \in Seq(Nat) /\ Len(Rank(s)) \in {0, 1}
           /\ s = NoShare => Rank(s) = << >>
           /\ s # NoShare => Rank(s) = <<s.n>> /\ s.n \in Nat
BY ShareFact, EmptySeq DEF Rank, Jobs

LEMMA PlacesTyped ==
    ASSUME TypeInv, NEW d \in Devices
    PROVE  /\ fshare[d] \in Shares \cup {NoShare} /\ submitData[d] \in Shares \cup {NoShare}
           /\ mshare[d] \in Shares \cup {NoShare} /\ found[d] \in Nat
BY DEF TypeInv, TypeOK

LEMMA NoFirst ==
    ASSUME NEW q \in Seq(Nat), NEW r \in Seq(Nat)
    PROVE  << >> \o q \o r = q \o r /\ q \o << >> \o r = q \o r /\ q \o r \o << >> = q \o r
BY ConcatEmptySeq, ConcatProperties

LEMMA TakeFirst ==
    ASSUME NEW n \in Nat, NEW q \in Seq(Nat), NEW r \in Seq(Nat)
    PROVE  <<n>> \o q \o r # << >> /\ Tail(<<n>> \o q \o r) = << >> \o q \o r
OBVIOUS

LEMMA AddLast ==
    ASSUME NEW n \in Nat, NEW q \in Seq(Nat), NEW r \in Seq(Nat),
           Len(q) \in {0, 1}, Len(r) \in {0, 1}
    PROVE  /\ q \o r \o <<n>> = Append(q \o r \o << >>, n)
           /\ Len(q \o r \o << >>) < 3
<1>1. q \o r \in Seq(Nat) /\ Len(q \o r) = Len(q) + Len(r) /\ q \o r \o << >> = q \o r
  BY ConcatProperties, ConcatEmptySeq
<1>2. Append(q \o r, n) = q \o r \o <<n>>
  BY <1>1, AppendIsConcat
<1>3. q \o r \o <<n>> = Append(q \o r \o << >>, n)
  BY <1>1, <1>2, Zenon
<1>4. Len(q) + Len(r) < 3
  <2> DEFINE i == Len(q)
             j == Len(r)
  <2>1. i \in {0, 1} /\ j \in {0, 1}
    OBVIOUS
  <2> HIDE DEF i, j
  <2>2. i + j < 3
    BY <2>1
  <2> QED
    BY <2>2 DEF i, j
<1>5. Len(q \o r \o << >>) = Len(q) + Len(r)
  BY <1>1, Zenon
<1> QED
  BY <1>3, <1>4, <1>5, Zenon

-----------------------------------------------------------------------------
Queue == [d \in Devices |-> Pipeline(d)]

(* A device's own step leaves the queues of the others alone.               *)
LEMMA OtherQueues ==
    ASSUME NEW d \in Devices,
           \A e \in Devices \ {d} :
               fshare'[e] = fshare[e] /\ submitData'[e] = submitData[e] /\ mshare'[e] = mshare[e]
    PROVE  Queue' = [Queue EXCEPT ![d] = Pipeline(d)']
<1>1. \A e \in Devices \ {d} : Pipeline(e)' = Pipeline(e)
  BY DEF Pipeline, Rank
<1> QED
  BY <1>1 DEF Queue

LEMMA StreamKeeps ==
    ASSUME UNCHANGED <<fshare, submitData, mshare, found, judged, sshare>>
    PROVE  UNCHANGED <<found, Queue, sshare.dev, judged>>
BY DEF Queue, Pipeline, Rank

LEMMA StreamInit == Init => Stream!Init
<1> SUFFICES ASSUME Init PROVE Stream!Init
  OBVIOUS
<1>1. \A d \in Devices : Pipeline(d) = << >>
  <2> SUFFICES ASSUME NEW d \in Devices PROVE Pipeline(d) = << >>
    OBVIOUS
  <2>1. fshare[d] = NoShare /\ submitData[d] = NoShare /\ mshare[d] = NoShare
    BY DEF Init
  <2>2. Rank(NoShare) = << >>
    BY DEF Rank
  <2>3. Pipeline(d) = << >> \o << >> \o << >>
    BY <2>1, <2>2 DEF Pipeline
  <2> QED
    BY <2>3
<1>2. sshare.dev = 0 /\ found = [d \in Devices |-> 0] /\ judged = [d \in Devices |-> 0]
  BY NoShareFact DEF Init
<1> QED
  BY <1>1, <1>2 DEF Stream!Init

LEMMA StreamJudge ==
    ASSUME TypeInv, Judge, UNCHANGED <<fshare, submitData, mshare, found>>
    PROVE  Stream!Next
<1>1. sshare \in Shares
  BY DEF TypeInv, Places, Judge
<1>2. sshare.dev \in Devices
  BY <1>1, ShareFact
<1>3. sshare'.dev = 0 /\ judged' = [judged EXCEPT ![sshare.dev] = @ + 1]
  BY NoShareFact DEF Judge
<1>4. [d \in Devices |-> Pipeline(d)]' = [d \in Devices |-> Pipeline(d)]
  BY DEF Pipeline, Rank
<1>5. Stream!Answer(sshare.dev)
  BY <1>3, <1>4 DEF Stream!Answer
<1> QED
  BY <1>2, <1>5 DEF Stream!Next

LEMMA StreamForwarder ==
    ASSUME TypeInv, NEW d \in Devices, ForwarderStep(d)
    PROVE  Stream!Next \/ UNCHANGED <<found, Queue, sshare.dev, judged>>
<1> USE PlacesTyped, RankFact
<1>1. CASE ForwarderTakes(d)
  <2>1. /\ fshare[d] = NoShare /\ fshare'[d] = submitData[d] /\ submitData'[d] = NoShare
        /\ mshare' = mshare /\ UNCHANGED <<found, judged, sshare>>
        /\ \A e \in Devices \ {d} : fshare'[e] = fshare[e] /\ submitData'[e] = submitData[e]
    BY <1>1 DEF ForwarderTakes, TypeInv, TypeOK, Places, minerVars
  <2>2. Pipeline(d)' = Pipeline(d)
    <3>1. Pipeline(d) = << >> \o Rank(submitData[d]) \o Rank(mshare[d])
      BY <2>1 DEF Pipeline
    <3>2. Pipeline(d)' = Rank(submitData[d]) \o << >> \o Rank(mshare[d])
      BY <2>1 DEF Pipeline, Rank
    <3> QED
      BY <3>1, <3>2, NoFirst
  <2>3. Queue' = Queue
    BY <2>1, <2>2, OtherQueues DEF Queue
  <2> QED
    BY <2>1, <2>3
<1>2. CASE ForwarderDrops(d) \/ Receive(d)
  <2>1. /\ fshare[d].dev = d /\ fshare'[d] = NoShare /\ UNCHANGED <<submitData, mshare, found>>
        /\ \A e \in Devices \ {d} : fshare'[e] = fshare[e]
    BY <1>2 DEF ForwarderDrops, Receive, TypeInv, TypeOK, Places, minerVars
  <2>2. fshare[d] # NoShare
    BY <2>1, NoShareFact, DevicesFact
  <2>3. Pipeline(d) # << >> /\ Pipeline(d)' = Tail(Pipeline(d))
    <3>1. Pipeline(d) = <<fshare[d].n>> \o Rank(submitData[d]) \o Rank(mshare[d])
      BY <2>2 DEF Pipeline
    <3>2. Pipeline(d)' = << >> \o Rank(submitData[d]) \o Rank(mshare[d])
      BY <2>1 DEF Pipeline, Rank
    <3>3. fshare[d].n \in Nat
      BY <2>2
    <3> QED
      BY <3>1, <3>2, <3>3, TakeFirst
  <2>4. Queue' = [Queue EXCEPT ![d] = Tail(@)] /\ Queue[d] # << >>
    BY <2>1, <2>3, OtherQueues DEF Queue
  <2>5. CASE ForwarderDrops(d)
    <3>1. judged' = [judged EXCEPT ![d] = @ + 1] /\ sshare' = sshare
      BY <2>5 DEF ForwarderDrops
    <3>2. Stream!Drop(d)
      BY <2>1, <2>4, <3>1 DEF Stream!Drop, Queue
    <3> QED
      BY <3>2 DEF Stream!Next
  <2>6. CASE Receive(d)
    <3>1. judged' = judged /\ sshare' = fshare[d] /\ sshare = NoShare
      BY <2>6 DEF Receive, TypeInv, Places
    <3>2. sshare.dev = 0 /\ sshare'.dev = d
      BY <2>1, <3>1, NoShareFact
    <3>3. Stream!Submit(d)
      BY <2>1, <2>4, <3>1, <3>2 DEF Stream!Submit, Queue
    <3> QED
      BY <3>3 DEF Stream!Next
  <2> QED
    BY <1>2, <2>5, <2>6
<1>3. CASE ForwarderPasses(d) \/ ForwarderExit(d)
  BY <1>3, StreamKeeps DEF ForwarderPasses, ForwarderExit, minerVars
<1> QED
  BY <1>1, <1>2, <1>3 DEF ForwarderStep

LEMMA StreamMiner ==
    ASSUME TypeInv, NEW d \in Devices, MinerStep(d)
    PROVE  Stream!Next \/ UNCHANGED <<found, Queue, sshare.dev, judged>>
<1> USE PlacesTyped, RankFact
<1>1. CASE Hit(d)
  <2>1. /\ mshare[d] = NoShare /\ found' = [found EXCEPT ![d] = @ + 1]
        /\ mshare'[d].dev = d /\ mshare'[d].n = found[d] + 1
        /\ UNCHANGED <<submitData, fshare, sshare, judged>>
        /\ \A e \in Devices \ {d} : mshare'[e] = mshare[e]
    BY <1>1 DEF Hit, TypeInv, TypeOK, Places
  <2>2. mshare'[d] # NoShare
    BY <2>1, NoShareFact, DevicesFact
  <2> DEFINE q == Rank(fshare[d])
             r == Rank(submitData[d])
  <2>3. q \in Seq(Nat) /\ r \in Seq(Nat) /\ Len(q) \in {0, 1} /\ Len(r) \in {0, 1}
        /\ found[d] + 1 \in Nat
    OBVIOUS
  <2>4. Pipeline(d) = q \o r \o << >>
    BY <2>1 DEF Pipeline
  <2>5. Pipeline(d)' = q \o r \o <<found[d] + 1>>
    BY <2>1, <2>2 DEF Pipeline, Rank
  <2> HIDE DEF q, r
  <2>6. Pipeline(d)' = Append(Pipeline(d), found[d] + 1) /\ Len(Pipeline(d)) < 3
    BY <2>3, <2>4, <2>5, AddLast
  <2>7. Queue' = [Queue EXCEPT ![d] = Append(@, found[d] + 1)] /\ Len(Queue[d]) < 3
    BY <2>1, <2>6, OtherQueues DEF Queue
  <2>8. Stream!Find(d)
    BY <2>1, <2>7 DEF Stream!Find, Queue
  <2> QED
    BY <2>8 DEF Stream!Next
<1>2. CASE Push(d)
  <2>1. /\ submitData[d] = NoShare /\ submitData'[d] = mshare[d] /\ mshare'[d] = NoShare
        /\ UNCHANGED <<fshare, found, judged, sshare>>
        /\ \A e \in Devices \ {d} : mshare'[e] = mshare[e] /\ submitData'[e] = submitData[e]
    BY <1>2 DEF Push, Room, TypeInv, TypeOK
  <2>2. Pipeline(d)' = Pipeline(d)
    <3>1. Pipeline(d) = Rank(fshare[d]) \o << >> \o Rank(mshare[d])
      BY <2>1 DEF Pipeline
    <3>2. Pipeline(d)' = Rank(fshare[d]) \o Rank(mshare[d]) \o << >>
      BY <2>1 DEF Pipeline, Rank
    <3> QED
      BY <3>1, <3>2, NoFirst
  <2>3. Queue' = Queue
    BY <2>1, <2>2, OtherQueues DEF Queue
  <2> QED
    BY <2>1, <2>3
<1>3. CASE ~(Hit(d) \/ Push(d))
  BY <1>3, StreamKeeps
     DEF MinerStep, Take, Discard, Begin, NilTemplate, Stop, Hash, Miss, HitEmptyAgain,
         PushPanics, MinerExit, shareVars
<1> QED
  BY <1>1, <1>2, <1>3

LEMMA StreamStep ==
    TypeInv /\ [Next]_vars => Stream!Next \/ UNCHANGED <<found, Queue, sshare.dev, judged>>
<1> SUFFICES ASSUME TypeInv, [Next]_vars
             PROVE  Stream!Next \/ UNCHANGED <<found, Queue, sshare.dev, judged>>
  OBVIOUS
<1>1. ASSUME NEW p \in Procs, ProcStep(p)
      PROVE  Stream!Next \/ UNCHANGED <<found, Queue, sshare.dev, judged>>
  <2>1. CASE SubmitAccepted \/ SubmitUndecodable \/ SubmitRejected
    BY <2>1, StreamJudge DEF SubmitAccepted, SubmitUndecodable, SubmitRejected, minerVars
  <2>2. CASE UNCHANGED <<minerVars, shareVars>>
    BY <2>2, StreamKeeps DEF minerVars, shareVars
  <2> QED
    BY <1>1, <2>1, <2>2
       DEF ProcStep, NotifyStep, GetStep, ListenerStep, SubmitterStep, Announce, Deliver, Decide,
           ForceAnnounce, ForceDeliver, ForceSet, Enter, Claim, Ask, RpcFails, NotNew, Install,
           GetReturns, ListenPool, ListenSolo, ListenExit, SubmitterLocks, SubmitterExit,
           HandlerLocks
<1>2. CASE NewTip \/ Interrupt \/ UNCHANGED vars
  BY <1>2, StreamKeeps DEF NewTip, Interrupt, vars, minerVars, shareVars
<1> QED
  BY <1>1, <1>2, StreamForwarder, StreamMiner DEF Next

(* The path of the shares implements ShareStream: for any number of devices *)
(* and shares they leave in the order they were found, at most three of a   *)
(* device wait, and each is settled once.                                   *)
THEOREM StreamImplemented == Spec => ImplementsStream
<1>1. TypeInv /\ [Next]_vars => [Stream!Next]_(Stream!vars)
  BY StreamStep DEF Queue, Stream!vars
<1> QED
  BY <1>1, TypeInit, TypeStep, StreamInit, PTL DEF Spec, ImplementsStream, Stream!Spec
-----------------------------------------------------------------------------
(* What follows from ShareStream: the ranks in a queue have no gap.         *)
Unbroken(q, last) ==
    q \in Seq(Nat) /\ \A i \in 1 .. Len(q) : q[i] = last - Len(q) + i

PipelinesUnbroken == \A d \in Devices : Unbroken(Pipeline(d), found[d])

LEMMA UnbrokenFind ==
    ASSUME NEW n \in Nat, NEW q, Unbroken(q, n)
    PROVE  Unbroken(Append(q, n + 1), n + 1)
<1> DEFINE r == Append(q, n + 1)
<1>1. /\ q \in Seq(Nat) /\ Len(q) \in Nat /\ r \in Seq(Nat) /\ Len(r) = Len(q) + 1
      /\ r[Len(q) + 1] = n + 1 /\ \A i \in 1 .. Len(q) : r[i] = q[i]
  BY DEF Unbroken
<1> HIDE DEF r
<1>2. ASSUME NEW i \in 1 .. Len(r) PROVE r[i] = (n + 1) - Len(r) + i
  <2>1. CASE i = Len(q) + 1
    BY <1>1, <2>1
  <2>2. CASE i \in 1 .. Len(q)
    BY <1>1, <2>2 DEF Unbroken
  <2> QED
    BY <1>1, <2>1, <2>2
<1> QED
  BY <1>1, <1>2 DEF Unbroken, r

LEMMA UnbrokenTail ==
    ASSUME NEW n \in Nat, NEW q, Unbroken(q, n), q # << >>
    PROVE  Unbroken(Tail(q), n)
<1>1. /\ q \in Seq(Nat) /\ Len(q) \in Nat \ {0} /\ Tail(q) \in Seq(Nat) /\ Len(Tail(q)) = Len(q) - 1
      /\ \A i \in 1 .. Len(q) - 1 : Tail(q)[i] = q[i + 1] /\ i + 1 \in 1 .. Len(q)
  BY DEF Unbroken
<1> QED
  BY <1>1 DEF Unbroken

LEMMA OneChanges ==
    ASSUME NEW f, DOMAIN f = Devices, NEW d \in Devices, NEW x, NEW g, g = [f EXCEPT ![d] = x]
    PROVE  g[d] = x /\ \A e \in Devices \ {d} : g[e] = f[e]
OBVIOUS

LEMMA UnbrokenStep ==
    ASSUME TypeInv, PipelinesUnbroken, Stream!Next \/ UNCHANGED <<found, Queue, sshare.dev, judged>>
    PROVE  PipelinesUnbroken'
<1>0. \A d \in Devices : Queue[d] = Pipeline(d) /\ Queue'[d] = Pipeline(d)' /\ found[d] \in Nat
  BY PlacesTyped DEF Queue
<1> SUFFICES \A d \in Devices : Unbroken(Queue'[d], found'[d])
  BY <1>0 DEF PipelinesUnbroken, Unbroken
<1>1. CASE UNCHANGED <<found, Queue>>
  BY <1>0, <1>1 DEF PipelinesUnbroken
<1>2. ASSUME NEW d \in Devices, Stream!Find(d)
      PROVE  \A e \in Devices : Unbroken(Queue'[e], found'[e])
  <2>1. /\ found' = [found EXCEPT ![d] = found[d] + 1]
        /\ Queue' = [Queue EXCEPT ![d] = Append(Queue[d], found[d] + 1)]
    BY <1>2 DEF Stream!Find, Queue
  <2>2. /\ found'[d] = found[d] + 1 /\ Queue'[d] = Append(Queue[d], found[d] + 1)
        /\ \A e \in Devices \ {d} : found'[e] = found[e] /\ Queue'[e] = Queue[e]
    <3>1. DOMAIN Queue = Devices /\ DOMAIN found = Devices
      BY DEF Queue, TypeInv, TypeOK
    <3> QED
      BY <2>1, <3>1, OneChanges
  <2>3. Unbroken(Append(Queue[d], found[d] + 1), found[d] + 1)
    <3>1. Unbroken(Queue[d], found[d]) /\ found[d] \in Nat
      BY <1>0 DEF PipelinesUnbroken
    <3> QED
      BY <3>1, UnbrokenFind
  <2> QED
    BY <1>0, <2>2, <2>3 DEF PipelinesUnbroken
<1>3. ASSUME NEW d \in Devices, Stream!Drop(d) \/ Stream!Submit(d)
      PROVE  \A e \in Devices : Unbroken(Queue'[e], found'[e])
  <2>1. /\ found' = found /\ Queue[d] # << >>
        /\ Queue' = [Queue EXCEPT ![d] = Tail(Queue[d])]
    BY <1>3 DEF Stream!Drop, Stream!Submit, Queue
  <2>2. Queue'[d] = Tail(Queue[d]) /\ \A e \in Devices \ {d} : Queue'[e] = Queue[e]
    <3>1. DOMAIN Queue = Devices
      BY DEF Queue
    <3> QED
      BY <2>1, <3>1, OneChanges
  <2> QED
    BY <1>0, <2>1, <2>2, UnbrokenTail DEF PipelinesUnbroken
<1>4. ASSUME NEW d \in Devices, Stream!Answer(d)
      PROVE  \A e \in Devices : Unbroken(Queue'[e], found'[e])
  BY <1>1, <1>4 DEF Stream!Answer, Queue
<1> QED
  BY <1>1, <1>2, <1>3, <1>4 DEF Stream!Next

(* The shares of a device on their way are the last it found, with none     *)
(* missing between them: one that was overtaken or lost would leave a gap.  *)
THEOREM NoShareIsSkipped == Spec => []PipelinesUnbroken
<1>1. Init => PipelinesUnbroken
  <2> SUFFICES ASSUME Init, NEW d \in Devices PROVE Unbroken(Pipeline(d), found[d])
    BY DEF PipelinesUnbroken
  <2>1. Pipeline(d) = << >>
    <3>1. Queue[d] = << >>
      BY StreamInit DEF Stream!Init, Queue
    <3> QED
      BY <3>1 DEF Queue
  <2>2. << >> \in Seq(Nat) /\ Len(<< >>) = 0
    BY EmptySeq
  <2> DEFINE q == Pipeline(d)
  <2>3. q \in Seq(Nat) /\ Len(q) = 0
    BY <2>1, <2>2, Zenon
  <2> HIDE DEF q
  <2>4. Unbroken(q, found[d])
    BY <2>3 DEF Unbroken
  <2> QED
    BY <2>4 DEF q
<1>2. TypeInv /\ PipelinesUnbroken /\ [Next]_vars => PipelinesUnbroken'
  BY StreamStep, UnbrokenStep
<1> QED
  BY <1>1, <1>2, TypeInit, TypeStep, PTL DEF Spec
=============================================================================
