-------------------------- MODULE ShareLedgerProofs --------------------------
(***************************************************************************)
(* Theorems about the accounting of a solo miner: the variables keep their *)
(* types, the counts balance and cover the pending blocks, no counter goes *)
(* below zero, the printed total is never too high, and the accounting is  *)
(* a ledger that judges every open block once; for any number of templates *)
(* and shares.                                                             *)
(***************************************************************************)
EXTENDS ShareLedger, TLAPS, FiniteSetTheorems, SequenceTheorems

(* PendingLock: who is where while it is held, and what the holder counts   *)
(* on meanwhile.                                                            *)
LockInv ==
    /\ subPC = "timeout" <=> pendingLock = "submitter"
    /\ statPC \in {"scan", "remove", "timeout"} <=> pendingLock = "status"
    /\ rdPC \in {"valid", "invalid"} <=> pendingLock = "reader"
    /\ statPC \notin {"scan", "remove", "timeout"} => statTodo = {}
    /\ statPC = "remove" => statV \in pendingBlocks \ statTodo
    /\ rdPC \in {"valid", "invalid"} => rdTx \in pendingBlocks
    /\ subPC = "lock" => subTx \in DOMAIN templates

TypeInv == TypeOK /\ LockInv

LEMMA DecFact == \A n \in Nat : Dec(n) \in Nat /\ (n > 0 => Dec(n) = n - 1)
BY BoundsAssumption DEF Dec

(* A template is appended; the coinbases that were there stay.              *)
LEMMA TemplateFact ==
    ASSUME templates \in Seq(Nat), Len(templates) <= MaxTemplates, AddTemplate
    PROVE  /\ templates' \in Seq(Nat) /\ Len(templates') <= MaxTemplates
           /\ DOMAIN templates \subseteq DOMAIN templates'
<1>1. PICK h \in (IF templates = <<>> THEN {1} ELSE {Height, Height + 1}) : templates' = Append(templates, h)
  BY DEF AddTemplate
<1>2. h \in Nat
  <2>1. CASE templates = <<>>
    BY <1>1, <2>1
  <2>2. CASE templates # <<>>
    <3>1. Len(templates) \in 1 .. Len(templates)
      BY <2>2
    <3>2. Height \in Nat
      BY <3>1 DEF Height
    <3> QED
      BY <1>1, <2>2, <3>2
  <2> QED
    BY <2>1, <2>2
<1>3. Len(templates) + 1 <= MaxTemplates
  BY BoundsAssumption DEF AddTemplate
<1> QED
  BY <1>1, <1>2, <1>3

LEMMA InboxFacts ==
    ASSUME inbox \in Seq(Messages)
    PROVE  /\ inbox # <<>> => Tail(inbox) \in Seq(Messages) /\ Head(inbox) \in Messages
           /\ \A x \in Messages : Append(inbox, x) \in Seq(Messages)
           /\ Answer("call") \in Messages /\ Answer("nobody") \in Messages
           /\ [i \in DOMAIN inbox |-> IF inbox[i] = Answer("call") THEN Answer("nobody") ELSE inbox[i]]
                 \in Seq(Messages)
<1>1. Answer("call") \in Messages /\ Answer("nobody") \in Messages
  BY DEF Answer, Messages
<1>2. inbox # <<>> => Tail(inbox) \in Seq(Messages) /\ Head(inbox) \in Messages
  OBVIOUS
<1>3. \A x \in Messages : Append(inbox, x) \in Seq(Messages)
  OBVIOUS
<1>4. [i \in DOMAIN inbox |-> IF inbox[i] = Answer("call") THEN Answer("nobody") ELSE inbox[i]]
        \in Seq(Messages)
  <2> DEFINE f == [i \in 1 .. Len(inbox) |-> IF inbox[i] = Answer("call") THEN Answer("nobody") ELSE inbox[i]]
  <2>1. \A i \in 1 .. Len(inbox) : inbox[i] \in Messages
    OBVIOUS
  <2>2. f \in [1 .. Len(inbox) -> Messages]
    BY <1>1, <2>1, Zenon
  <2>3. Len(inbox) \in Nat /\ DOMAIN inbox = 1 .. Len(inbox)
    OBVIOUS
  <2> QED
    BY <2>2, <2>3, SeqDef
<1> QED
  BY <1>1, <1>2, <1>3, <1>4

LEMMA TimeoutTypes ==
    ASSUME NetTypes, TimeoutReturns, UNCHANGED connected
    PROVE  NetTypes'
BY InboxFacts DEF NetTypes, TimeoutReturns, Completes, TimesOut

LEMMA TypeInit == Init => TypeInv
<1> SUFFICES ASSUME Init PROVE TypeInv
  OBVIOUS
<1>1. BookTypes
  BY BoundsAssumption DEF Init, BookTypes
<1>2. SubmitterTypes /\ StatusTypes /\ ReaderTypes
  BY DEF Init, SubmitterTypes, StatusTypes, ReaderTypes
<1>3. NetTypes
  <2>1. <<>> \in Seq(Messages)
    OBVIOUS
  <2> QED
    BY <2>1 DEF Init, NetTypes
<1>4. LockInv
  BY DEF Init, LockInv, None
<1> QED
  BY <1>1, <1>2, <1>3, <1>4 DEF TypeInv, TypeOK

LEMMA SubmitterType == ASSUME TypeInv, Submitter PROVE TypeInv'
<1> USE DEF TypeInv, TypeOK, LockInv, Submitter, statVars, rdVars
<1>a. connected' = connected
  OBVIOUS
<1>b. ReaderTypes'
  BY DEF ReaderTypes
<1>1. CASE TakeStale
  BY <1>1, <1>b DEF TakeStale, TakeShare, BookTypes, SubmitterTypes, StatusTypes, NetTypes, subVars
<1>2. CASE TakeRejected
  BY <1>2, <1>b DEF TakeRejected, TakeShare, BookTypes, SubmitterTypes, StatusTypes, NetTypes
<1>3. CASE TakeAccepted
  BY <1>3, <1>b DEF TakeAccepted, TakeShare, BookTypes, SubmitterTypes, StatusTypes, NetTypes
<1>4. CASE CountRejected
  BY <1>4, <1>b DEF CountRejected, BookTypes, SubmitterTypes, StatusTypes, NetTypes
<1>5. CASE GetForced
  <2>1. /\ templates' \in Seq(Nat) /\ Len(templates') <= MaxTemplates
        /\ DOMAIN templates \subseteq DOMAIN templates'
    BY <1>5, TemplateFact DEF GetForced, BookTypes
  <2> QED
    BY <1>5, <1>b, <2>1 DEF GetForced, BookTypes, SubmitterTypes, StatusTypes, NetTypes
<1>6. CASE EnterPending
  <2>1. BookTypes' /\ SubmitterTypes' /\ StatusTypes' /\ NetTypes'
    BY <1>6 DEF EnterPending, Start, BookTypes, SubmitterTypes, StatusTypes, NetTypes
  <2>2. LockInv'
    BY <1>6 DEF EnterPending, None, StatusTypes, ReaderTypes
  <2> QED
    BY <1>b, <2>1, <2>2
<1>7. CASE SubmitReturns
  <2>1. NetTypes'
    BY <1>7, TimeoutTypes DEF SubmitReturns
  <2>2. BookTypes' /\ SubmitterTypes' /\ StatusTypes'
    BY <1>7 DEF SubmitReturns, BookTypes, SubmitterTypes, StatusTypes
  <2>3. LockInv'
    BY <1>7 DEF SubmitReturns, None, StatusTypes, ReaderTypes
  <2> QED
    BY <1>b, <2>1, <2>2, <2>3
<1> QED
  BY <1>1, <1>2, <1>3, <1>4, <1>5, <1>6, <1>7

LEMMA StatusType == ASSUME TypeInv, Status PROVE TypeInv'
<1> USE DEF TypeInv, TypeOK, LockInv, Status, subVars, rdVars, book
<1>a. ReaderTypes' /\ SubmitterTypes'
  BY DEF ReaderTypes, SubmitterTypes
<1>1. CASE Tick
  BY <1>1, <1>a DEF Tick, BookTypes, StatusTypes, NetTypes
<1>2. CASE StatusLocks
  BY <1>2, <1>a DEF StatusLocks, BookTypes, StatusTypes, NetTypes, None
<1>3. CASE StatusLooks
  <2>1. PICK c \in statTodo :
            /\ statV' = c
            /\ statTodo' = statTodo \ {c}
            /\ IF Outgrown(c) THEN statPC' = "remove" /\ statReg' = invalidShares
                              ELSE UNCHANGED <<statPC, statReg>>
    BY <1>3 DEF StatusLooks
  <2>2. c \in pendingBlocks /\ c \in Nat
    BY DEF StatusTypes, BookTypes
  <2>3. BookTypes' /\ StatusTypes' /\ NetTypes'
    BY <1>3, <2>1, <2>2 DEF StatusLooks, BookTypes, StatusTypes, NetTypes
  <2>4. LockInv'
    BY <1>3, <2>1, <2>2 DEF StatusLooks
  <2> QED
    BY <1>a, <2>3, <2>4
<1>4. CASE StatusRemoves
  <2>a. Dec(pendingShares) \in Nat
    BY DecFact DEF BookTypes
  <2>b. BookTypes'
    BY <1>4, <2>a DEF StatusRemoves, Remove, BookTypes, StatusTypes
  <2>c. StatusTypes'
    BY <1>4 DEF StatusRemoves, Remove, StatusTypes
  <2>d. NetTypes'
    BY <1>4 DEF StatusRemoves, Start, NetTypes
  <2>2. /\ statPC = "remove" /\ statPC' = "timeout"
        /\ UNCHANGED <<pendingLock, statTodo, subVars, rdVars, templates>>
    BY <1>4 DEF StatusRemoves
  <2>3. LockInv'
    BY <2>2 DEF None, SubmitterTypes, ReaderTypes
  <2> QED
    BY <1>a, <2>b, <2>c, <2>d, <2>3
<1>5. CASE StatusReturns
  <2>1. NetTypes'
    BY <1>5, TimeoutTypes DEF StatusReturns
  <2>2. BookTypes' /\ StatusTypes' /\ LockInv'
    BY <1>5 DEF StatusReturns, BookTypes, StatusTypes
  <2> QED
    BY <1>a, <2>1, <2>2
<1>6. CASE StatusUnlocks
  <2>1. LockInv'
    BY <1>6 DEF StatusUnlocks, None, SubmitterTypes, ReaderTypes
  <2> QED
    BY <1>6, <1>a, <2>1 DEF StatusUnlocks, BookTypes, StatusTypes, NetTypes
<1>7. CASE ReadTotal
  BY <1>7, <1>a DEF ReadTotal, StatusReads, BookTypes, StatusTypes, NetTypes
<1> QED
  BY <1>1, <1>2, <1>3, <1>4, <1>5, <1>6, <1>7

LEMMA ReaderType == ASSUME TypeInv, Reader PROVE TypeInv'
<1> USE DEF TypeInv, TypeOK, LockInv, Reader, subVars, statVars, book
<1>a. SubmitterTypes'
  BY DEF SubmitterTypes
<1>1. CASE ReadMessage
  <2>1. inbox' \in Seq(Messages) /\ Head(inbox) \in Messages
    BY <1>1, InboxFacts DEF ReadMessage, NetTypes
  <2>2. NetTypes'
    BY <1>1, <2>1 DEF ReadMessage, ReadAnswer, ReadConfirm, NetTypes
  <2>3. Head(inbox).kind = "confirm" => Head(inbox).tx \in Nat /\ Head(inbox).enough \in BOOLEAN
    BY <2>1 DEF Messages
  <2>4. ReaderTypes' /\ rdPC' \in {"read", "lock"}
    BY <1>1, <2>3 DEF ReadMessage, ReadAnswer, ReadConfirm, ReaderTypes, rdVars
  <2>5. BookTypes' /\ StatusTypes'
    BY <1>1 DEF ReadMessage, BookTypes, StatusTypes
  <2>6. LockInv'
    BY <1>1, <2>4 DEF ReadMessage
  <2> QED
    BY <1>a, <2>2, <2>4, <2>5, <2>6
<1>2. CASE ConfirmLocks
  <2>a. Dec(pendingShares) \in Nat
    BY DecFact DEF BookTypes
  <2>b. BookTypes' /\ StatusTypes'
    BY <1>2, <2>a DEF ConfirmLocks, ConfirmPending, BookTypes, StatusTypes
  <2>c. ReaderTypes'
    <3>1. CASE rdTx \in pendingBlocks
      BY <1>2, <3>1 DEF ConfirmLocks, ConfirmPending, ReaderTypes, BookTypes
    <3>2. CASE rdTx \notin pendingBlocks
      <4>1. rdPC' = "read" /\ rdTx' = 1 /\ rdEnough' = FALSE /\ rdReg' = 0
        BY <1>2, <3>2 DEF ConfirmLocks, ConfirmPending, Confirmed
      <4> QED
        BY <4>1 DEF ReaderTypes
    <3> QED
      BY <3>1, <3>2
  <2>d. NetTypes'
    BY <1>2 DEF ConfirmLocks, NetTypes
  <2>2. UNCHANGED <<pendingBlocks, subVars, statVars, templates>> /\ pendingLock = None
    BY <1>2 DEF ConfirmLocks
  <2>3. \/ rdTx' \in pendingBlocks /\ pendingLock' = "reader" /\ rdPC' \in {"valid", "invalid"}
        \/ pendingLock' = None /\ rdPC' = "read"
    BY <1>2 DEF ConfirmLocks, ConfirmPending, Confirmed
  <2>4. LockInv'
    BY <2>2, <2>3 DEF None
  <2> QED
    BY <1>a, <2>b, <2>c, <2>d, <2>4
<1>3. CASE ConfirmSettles
  <2>1. pendingLock = "reader" /\ statTodo = {} /\ statPC \notin {"scan", "remove", "timeout"}
    BY <1>3 DEF ConfirmSettles
  <2>2. BookTypes'
    BY <1>3 DEF ConfirmSettles, ConfirmDeletes, BookTypes, ReaderTypes
  <2>6. ReaderTypes' /\ NetTypes'
    BY <1>3 DEF ConfirmSettles, Confirmed, ReaderTypes, NetTypes
  <2>5. StatusTypes'
    BY <1>3, <2>1 DEF ConfirmSettles, StatusTypes
  <2>3. pendingLock' = None /\ rdPC' = "read" /\ UNCHANGED <<subVars, statVars, templates>>
    BY <1>3 DEF ConfirmSettles, Confirmed
  <2>4. LockInv'
    BY <2>1, <2>3 DEF None
  <2> QED
    BY <1>a, <2>2, <2>4, <2>5, <2>6
<1> QED
  BY <1>1, <1>2, <1>3

LEMMA OutsideType == ASSUME TypeInv, Outside PROVE TypeInv'
<1> USE DEF TypeInv, TypeOK, LockInv, Outside, subVars, statVars, rdVars, counters, history
<1>a. SubmitterTypes' /\ StatusTypes' /\ ReaderTypes'
  BY DEF SubmitterTypes, StatusTypes, ReaderTypes
<1>1. CASE NewTemplate
  <2>1. /\ templates' \in Seq(Nat) /\ Len(templates') <= MaxTemplates
        /\ DOMAIN templates \subseteq DOMAIN templates'
    BY <1>1, TemplateFact DEF NewTemplate, BookTypes
  <2> QED
    BY <1>1, <1>a, <2>1 DEF NewTemplate, BookTypes, NetTypes, netVars
<1>2. CASE CallRuns
  BY <1>2, <1>a DEF CallRuns, BookTypes, NetTypes
<1>3. CASE Connection
  <2>1. BookTypes' /\ LockInv'
    BY <1>3 DEF Connection, BookTypes
  <2>2. CASE NodeSends
    <3>1. \A c \in DOMAIN templates, b \in BOOLEAN : [kind |-> "confirm", tx |-> c, enough |-> b] \in Messages
      BY DEF Messages, BookTypes
    <3>2. PICK x \in Messages : Send(x)
      BY <2>2, <3>1, InboxFacts DEF NodeSends, NetTypes
    <3>3. NetTypes'
      BY <1>3, <3>2, InboxFacts DEF Connection, Send, NetTypes
    <3> QED
      BY <1>a, <2>1, <3>3
  <2>3. CASE Break
    <3>1. <<>> \in Seq(Messages)
      OBVIOUS
    <3>2. NetTypes'
      BY <1>3, <2>3, <3>1 DEF Connection, Break, NetTypes
    <3> QED
      BY <1>a, <2>1, <3>2
  <2>4. CASE Connect
    BY <1>3, <1>a, <2>1, <2>4 DEF Connection, Connect, NetTypes
  <2> QED
    BY <1>3, <2>2, <2>3, <2>4 DEF Connection
<1> QED
  BY <1>1, <1>2, <1>3

LEMMA TypeStep == TypeInv /\ [Next]_vars => TypeInv'
<1> SUFFICES ASSUME TypeInv, [Next]_vars PROVE TypeInv'
  OBVIOUS
<1>1. CASE UNCHANGED vars
  BY <1>1 DEF TypeInv, TypeOK, BookTypes, SubmitterTypes, StatusTypes, ReaderTypes, NetTypes, LockInv,
              vars, counters, subVars, statVars, rdVars, netVars, history
<1> QED
  BY <1>1, SubmitterType, StatusType, ReaderType, OutsideType DEF Next

(* Every variable keeps its type, and whoever holds PendingLock is where it *)
(* may hold it.                                                             *)
THEOREM TypeCorrect == Spec => []TypeOK
<1>1. Spec => []TypeInv
  BY TypeInit, TypeStep, PTL DEF Spec
<1> QED
  BY <1>1, PTL DEF TypeInv

-----------------------------------------------------------------------------
(* One block is in the reader's hands between its two steps: it is counted  *)
(* nowhere and still in PendingBlocks.                                      *)
Hand == IF rdPC \in {"valid", "invalid"} THEN 1 ELSE 0

CountInv ==
    /\ accepted = pendingShares + validShares + failed + Hand
    /\ Cardinality(pendingBlocks) <= pendingShares + Hand

LEMMA PendingFinite == TypeInv => IsFiniteSet(pendingBlocks) /\ Cardinality(pendingBlocks) \in Nat
<1> SUFFICES ASSUME TypeInv PROVE IsFiniteSet(pendingBlocks) /\ Cardinality(pendingBlocks) \in Nat
  OBVIOUS
<1>1. pendingBlocks \subseteq 1 .. Len(templates) /\ Len(templates) \in Nat
  BY DEF TypeInv, TypeOK, BookTypes
<1>2. IsFiniteSet(1 .. Len(templates))
  BY <1>1, FS_Interval
<1>3. IsFiniteSet(pendingBlocks)
  BY <1>1, <1>2, FS_Subset
<1> QED
  BY <1>3, FS_CardinalityType

(* Adding a block adds at most one; removing one that is there removes one, *)
(* and there was one to remove.                                             *)
LEMMA PendingSizes ==
    ASSUME TypeInv, NEW c
    PROVE  /\ Cardinality(pendingBlocks \cup {c}) <= Cardinality(pendingBlocks) + 1
           /\ c \in pendingBlocks => /\ Cardinality(pendingBlocks \ {c}) = Cardinality(pendingBlocks) - 1
                                    /\ Cardinality(pendingBlocks) > 0
<1>1. IsFiniteSet(pendingBlocks) /\ Cardinality(pendingBlocks) \in Nat
  BY PendingFinite
<1>2. Cardinality(pendingBlocks \cup {c}) <= Cardinality(pendingBlocks) + 1
  BY <1>1, FS_AddElement
<1>3. ASSUME c \in pendingBlocks
      PROVE  Cardinality(pendingBlocks \ {c}) = Cardinality(pendingBlocks) - 1 /\ Cardinality(pendingBlocks) > 0
  <2>1. Cardinality(pendingBlocks \ {c}) = Cardinality(pendingBlocks) - 1
    BY <1>1, <1>3, FS_RemoveElement
  <2>2. Cardinality(pendingBlocks) # 0
    BY <1>1, <1>3, FS_EmptySet
  <2> QED
    BY <1>1, <2>1, <2>2
<1> QED
  BY <1>2, <1>3

(* The steps of the accounting: five of them move a count, the others leave *)
(* all of them alone.                                                       *)
Quiet == UNCHANGED <<pendingBlocks, pendingShares, validShares, failed, accepted>> /\ Hand' = Hand

LEMMA Steps ==
    ASSUME TypeInv, [Next]_vars
    PROVE  \/ Quiet
           \/ Submitter /\ EnterPending
           \/ Status /\ StatusRemoves
           \/ Reader /\ ConfirmLocks /\ rdTx \in pendingBlocks
           \/ Reader /\ ConfirmSettles
<1> USE DEF Quiet, Hand
<1>1. CASE UNCHANGED vars
  BY <1>1 DEF vars, counters, history, rdVars
<1>2. CASE Submitter
  <2>1. UNCHANGED <<validShares, failed, rdPC>>
    BY <1>2 DEF Submitter, rdVars
  <2>2. EnterPending \/ UNCHANGED <<pendingBlocks, pendingShares, accepted>>
    BY <1>2 DEF Submitter, TakeStale, TakeRejected, TakeAccepted, TakeShare, CountRejected, GetForced, SubmitReturns
  <2> QED
    BY <1>2, <2>1, <2>2
<1>3. CASE Status
  <2>1. UNCHANGED <<validShares, accepted, rdPC>>
    BY <1>3 DEF Status, rdVars
  <2>2. StatusRemoves \/ UNCHANGED <<pendingBlocks, pendingShares, failed>>
    BY <1>3 DEF Status, Tick, StatusLocks, StatusLooks, StatusReturns, StatusUnlocks, ReadTotal, StatusReads, book
  <2> QED
    BY <1>3, <2>1, <2>2
<1>4. CASE Reader
  <2>1. CASE ReadMessage
    <3>1. rdPC = "read" /\ rdPC' \in {"read", "lock"}
      BY <2>1 DEF ReadMessage, ReadAnswer, ReadConfirm, rdVars
    <3> QED
      BY <1>4, <2>1, <3>1 DEF Reader, ReadMessage, book
  <2>2. CASE ConfirmLocks /\ rdTx \notin pendingBlocks
    <3>1. rdPC = "lock" /\ rdPC' = "read" /\ pendingShares' = pendingShares
      BY <2>2 DEF ConfirmLocks, ConfirmPending, Confirmed
    <3> QED
      BY <1>4, <2>2, <3>1 DEF Reader, ConfirmLocks
  <2> QED
    BY <1>4, <2>1, <2>2 DEF Reader
<1>5. CASE Outside
  BY <1>5 DEF Outside, counters, history, rdVars
<1> QED
  BY <1>1, <1>2, <1>3, <1>4, <1>5 DEF Next

LEMMA CountInit == Init => CountInv
BY FS_EmptySet DEF Init, CountInv, Hand

LEMMA CountStep == TypeInv /\ CountInv /\ [Next]_vars => CountInv'
<1> SUFFICES ASSUME TypeInv, CountInv, [Next]_vars PROVE CountInv'
  OBVIOUS
<1>a. /\ pendingShares \in Nat /\ validShares \in Nat /\ failed \in Nat /\ accepted \in Nat
      /\ Cardinality(pendingBlocks) \in Nat
  BY PendingFinite DEF TypeInv, TypeOK, BookTypes
<1> USE <1>a
<1>1. CASE Quiet
  BY <1>1 DEF Quiet, CountInv
<1>2. CASE Submitter /\ EnterPending
  <2>1. /\ pendingBlocks' = pendingBlocks \cup {subTx} /\ pendingShares' = pendingShares + 1
        /\ accepted' = accepted + 1 /\ UNCHANGED <<validShares, failed, rdPC>>
    BY <1>2 DEF Submitter, EnterPending, rdVars
  <2>2. Cardinality(pendingBlocks \cup {subTx}) <= Cardinality(pendingBlocks) + 1
    BY PendingSizes
  <2>3. Cardinality(pendingBlocks') \in Nat
    <3>1. IsFiniteSet(pendingBlocks \cup {subTx})
      BY PendingFinite, FS_AddElement
    <3> QED
      BY <2>1, <3>1, FS_CardinalityType
  <2> QED
    BY <2>1, <2>2, <2>3 DEF CountInv, Hand
<1>3. CASE Status /\ StatusRemoves
  <2>1. statV \in pendingBlocks /\ rdPC \notin {"valid", "invalid"}
    BY <1>3 DEF StatusRemoves, TypeInv, LockInv
  <2>2. Cardinality(pendingBlocks \ {statV}) = Cardinality(pendingBlocks) - 1 /\ Cardinality(pendingBlocks) > 0
    BY <2>1, PendingSizes
  <2>3. pendingShares > 0
    BY <2>1, <2>2 DEF CountInv, Hand
  <2>4. /\ pendingBlocks' = pendingBlocks \ {statV} /\ pendingShares' = pendingShares - 1
        /\ failed' = failed + 1 /\ UNCHANGED <<validShares, accepted, rdPC>>
    BY <1>3, <2>3, DecFact DEF Status, StatusRemoves, Remove, rdVars
  <2> QED
    BY <2>1, <2>2, <2>4 DEF CountInv, Hand
<1>4. CASE Reader /\ ConfirmLocks /\ rdTx \in pendingBlocks
  <2>1. Cardinality(pendingBlocks) > 0 /\ rdPC \notin {"valid", "invalid"}
    BY <1>4, PendingSizes DEF ConfirmLocks
  <2>2. pendingShares > 0
    BY <2>1 DEF CountInv, Hand
  <2>3. /\ pendingShares' = pendingShares - 1 /\ rdPC' \in {"valid", "invalid"}
        /\ UNCHANGED <<pendingBlocks, validShares, failed, accepted>>
    BY <1>4, <2>2, DecFact DEF Reader, ConfirmLocks, ConfirmPending
  <2> QED
    BY <2>1, <2>3 DEF CountInv, Hand
<1>5. CASE Reader /\ ConfirmSettles
  <2>1. rdTx \in pendingBlocks /\ rdPC \in {"valid", "invalid"}
    BY <1>5 DEF ConfirmSettles, TypeInv, LockInv
  <2>2. Cardinality(pendingBlocks \ {rdTx}) = Cardinality(pendingBlocks) - 1
    BY <2>1, PendingSizes
  <2>3. /\ pendingBlocks' = pendingBlocks \ {rdTx} /\ rdPC' = "read"
        /\ \/ validShares' = validShares + 1 /\ failed' = failed
           \/ validShares' = validShares /\ failed' = failed + 1
        /\ UNCHANGED <<pendingShares, accepted>>
    BY <1>5 DEF Reader, ConfirmSettles, ConfirmDeletes, Confirmed
  <2>4. validShares' \in Nat /\ failed' \in Nat
    BY TypeStep DEF TypeInv, TypeOK, BookTypes
  <2>5. Hand = 1 /\ Hand' = 0
    BY <2>1, <2>3 DEF Hand
  <2>6. Cardinality(pendingBlocks') = Cardinality(pendingBlocks) - 1
    BY <2>2, <2>3
  <2>7. accepted = pendingShares + validShares + failed + 1 /\ Cardinality(pendingBlocks) <= pendingShares + 1
    BY <2>5 DEF CountInv
  <2>8. accepted' = pendingShares' + validShares' + failed' + 0
    <3>1. pendingShares' = pendingShares /\ accepted' = accepted
      BY <2>3
    <3>2. CASE validShares' = validShares + 1 /\ failed' = failed
      BY <2>7, <3>1, <3>2
    <3>3. CASE validShares' = validShares /\ failed' = failed + 1
      BY <2>7, <3>1, <3>3
    <3> QED
      BY <2>3, <3>2, <3>3
  <2>9. Cardinality(pendingBlocks') <= pendingShares' + 0
    BY <2>3, <2>6, <2>7
  <2> QED
    BY <2>5, <2>8, <2>9 DEF CountInv
<1> QED
  BY <1>1, <1>2, <1>3, <1>4, <1>5, Steps

(* Every accepted share is pending, confirmed or given up, and is counted   *)
(* once (robot.go: SubmitWork, Status, OnTxConfirm).                        *)
THEOREM CountsBalance == Spec => []Balanced
<1>1. CountInv => Balanced
  BY DEF CountInv, Balanced, Hand
<1> QED
  BY <1>1, TypeInit, TypeStep, CountInit, CountStep, PTL DEF Spec

(* PendingShares covers PendingBlocks whenever PendingLock is free.         *)
THEOREM CountCovers == Spec => []PendingCovers
<1>1. TypeInv /\ CountInv => PendingCovers
  <2> SUFFICES ASSUME TypeInv, CountInv, pendingLock = None PROVE Cardinality(pendingBlocks) <= pendingShares
    BY DEF PendingCovers
  <2>1. Hand = 0
    BY DEF Hand, TypeInv, LockInv, None
  <2> QED
    BY <2>1 DEF CountInv, TypeInv, TypeOK, BookTypes
<1> QED
  BY <1>1, TypeInit, TypeStep, CountInit, CountStep, PTL DEF Spec

(* PendingShares is only decremented when it is positive: Status and        *)
(* OnTxConfirm never wrap it.                                               *)
THEOREM CountNeverWraps == Spec => NeverWraps
<1>1. TypeInv /\ CountInv /\ CountInv' /\ [Next]_vars => [pendingShares' <= pendingShares + 1]_vars
  <2> SUFFICES ASSUME TypeInv, CountInv, CountInv', [Next]_vars PROVE pendingShares' <= pendingShares + 1
    OBVIOUS
  <2>a. pendingShares \in Nat /\ Cardinality(pendingBlocks) \in Nat
    BY PendingFinite DEF TypeInv, TypeOK, BookTypes
  <2>1. CASE Quiet
    BY <2>a, <2>1 DEF Quiet
  <2>2. CASE Submitter /\ EnterPending
    BY <2>a, <2>2 DEF EnterPending
  <2>3. CASE Status /\ StatusRemoves
    <3>1. statV \in pendingBlocks /\ rdPC \notin {"valid", "invalid"}
      BY <2>3 DEF StatusRemoves, TypeInv, LockInv
    <3>2. pendingShares > 0
      <4>1. Cardinality(pendingBlocks) > 0
        BY <3>1, PendingSizes
      <4> QED
        BY <2>a, <3>1, <4>1 DEF CountInv, Hand
    <3> QED
      BY <2>a, <2>3, <3>2, DecFact DEF StatusRemoves, Remove
  <2>4. CASE Reader /\ ConfirmLocks /\ rdTx \in pendingBlocks
    <3>1. pendingShares > 0
      <4>1. Cardinality(pendingBlocks) > 0
        BY <2>4, PendingSizes
      <4>2. Hand = 0
        BY <2>4 DEF Hand, ConfirmLocks
      <4> QED
        BY <2>a, <4>1, <4>2 DEF CountInv
    <3> QED
      BY <2>a, <2>4, <3>1, DecFact DEF ConfirmLocks, ConfirmPending
  <2>5. CASE Reader /\ ConfirmSettles
    BY <2>a, <2>5 DEF ConfirmSettles
  <2> QED
    BY <2>1, <2>2, <2>3, <2>4, <2>5, Steps
<1> QED
  BY <1>1, TypeInit, TypeStep, CountInit, CountStep, PTL DEF Spec, NeverWraps

-----------------------------------------------------------------------------
(* InvalidShares loses increments but never invents one, whichever of the   *)
(* three goroutines has read it; the shares taken are all accounted for;    *)
(* and the sum of Status is bounded by what it has read so far.             *)
Written == rejected + failed

Taking == IF subPC \in {"lock", "invalid"} THEN 1 ELSE 0

SharesInv ==
    /\ taken = staleShares + rejected + accepted + Taking
    /\ invalidShares <= Written
    /\ subPC = "invalid" => subReg <= Written
    /\ statPC = "remove" => statReg <= Written
    /\ rdPC = "invalid" => rdReg <= Written

TotalInv ==
    /\ statPC = "rejected" => total <= validShares
    /\ statPC = "pending" => total <= validShares + Written + staleShares
    /\ statPC = "log" => total <= taken

CounterTypes ==
    /\ pendingShares \in Nat /\ validShares \in Nat /\ invalidShares \in Nat /\ staleShares \in Nat
    /\ taken \in Nat /\ rejected \in Nat /\ accepted \in Nat /\ failed \in Nat
    /\ subReg \in Nat /\ statReg \in Nat /\ rdReg \in Nat /\ total \in Nat

LEMMA CounterFact == TypeInv => CounterTypes
BY DEF TypeInv, TypeOK, BookTypes, SubmitterTypes, StatusTypes, ReaderTypes, CounterTypes

LEMMA SharesInit == Init => SharesInv /\ TotalInv
BY DEF Init, SharesInv, TotalInv, Written, Taking

LEMMA SharesStep == TypeInv /\ SharesInv /\ [Next]_vars => SharesInv'
<1> SUFFICES ASSUME TypeInv, SharesInv, [Next]_vars PROVE SharesInv'
  OBVIOUS
<1>a. CounterTypes
  BY CounterFact
<1> USE <1>a DEF CounterTypes, SharesInv, Written, Taking
<1>1. CASE UNCHANGED vars
  BY <1>1 DEF vars, counters, subVars, statVars, rdVars, history
<1>2. CASE Submitter
  <2> USE <1>2 DEF Submitter, statVars, rdVars
  <2>1. CASE TakeStale
    BY <2>1 DEF TakeStale, TakeShare, subVars
  <2>2. CASE TakeRejected
    BY <2>2 DEF TakeRejected, TakeShare
  <2>3. CASE TakeAccepted
    BY <2>3 DEF TakeAccepted, TakeShare
  <2>4. CASE CountRejected
    BY <2>4 DEF CountRejected
  <2>5. CASE GetForced
    BY <2>5 DEF GetForced
  <2>6. CASE EnterPending
    BY <2>6 DEF EnterPending
  <2>7. CASE SubmitReturns
    BY <2>7 DEF SubmitReturns
  <2> QED
    BY <2>1, <2>2, <2>3, <2>4, <2>5, <2>6, <2>7
<1>3. CASE Status
  <2> USE <1>3 DEF Status, subVars, rdVars, book
  <2>1. CASE Tick \/ StatusLocks \/ StatusReturns \/ StatusUnlocks \/ ReadTotal
    BY <2>1 DEF Tick, StatusLocks, StatusReturns, StatusUnlocks, ReadTotal, StatusReads
  <2>2. CASE StatusLooks
    <3>1. \/ statPC' = "remove" /\ statReg' = invalidShares
          \/ statPC' = "scan"
      BY <2>2 DEF StatusLooks
    <3> QED
      BY <2>2, <3>1 DEF StatusLooks
  <2>3. CASE StatusRemoves
    BY <2>3 DEF StatusRemoves
  <2> QED
    BY <2>1, <2>2, <2>3
<1>4. CASE Reader
  <2> USE <1>4 DEF Reader, subVars, statVars
  <2>1. CASE ReadMessage
    <3>1. rdPC' # "invalid"
      BY <2>1 DEF ReadMessage, ReadAnswer, ReadConfirm, rdVars
    <3> QED
      BY <2>1, <3>1 DEF ReadMessage, book
  <2>2. CASE ConfirmLocks
    <3>1. rdPC' = "invalid" => rdReg' = invalidShares
      BY <2>2 DEF ConfirmLocks, Confirmed
    <3> QED
      BY <2>2, <3>1 DEF ConfirmLocks
  <2>3. CASE ConfirmSettles
    BY <2>3 DEF ConfirmSettles, Confirmed
  <2> QED
    BY <2>1, <2>2, <2>3
<1>5. CASE Outside
  BY <1>5 DEF Outside, counters, subVars, statVars, rdVars, history
<1> QED
  BY <1>1, <1>2, <1>3, <1>4, <1>5 DEF Next

(* What the sum of Status is bounded by never shrinks.                      *)
LEMMA SharesGrow ==
    ASSUME TypeInv, [Next]_vars
    PROVE  validShares' >= validShares /\ Written' >= Written /\ staleShares' >= staleShares /\ taken' >= taken
<1>a. CounterTypes
  BY CounterFact
<1> USE <1>a DEF CounterTypes, Written
<1>1. CASE UNCHANGED vars
  BY <1>1 DEF vars, counters, history
<1>2. CASE Submitter
  BY <1>2 DEF Submitter, TakeStale, TakeRejected, TakeAccepted, TakeShare, CountRejected, GetForced,
              EnterPending, SubmitReturns
<1>3. CASE Status
  BY <1>3 DEF Status, Tick, StatusLocks, StatusLooks, StatusRemoves, StatusReturns, StatusUnlocks,
              ReadTotal, StatusReads, book
<1>4. CASE Reader
  BY <1>4 DEF Reader, ReadMessage, ConfirmLocks, ConfirmSettles, book
<1>5. CASE Outside
  BY <1>5 DEF Outside, counters, history
<1> QED
  BY <1>1, <1>2, <1>3, <1>4, <1>5 DEF Next

LEMMA SumsGrow ==
    \A a, b, c, x, y, z \in Nat : \A n \in Nat :
        a <= x /\ b <= y /\ c <= z /\ n <= a + b + c => n <= x + y + z
OBVIOUS

LEMMA TotalStep == TypeInv /\ CountInv /\ SharesInv /\ TotalInv /\ [Next]_vars => TotalInv'
<1> SUFFICES ASSUME TypeInv, CountInv, SharesInv, TotalInv, [Next]_vars PROVE TotalInv'
  OBVIOUS
<1>a. CounterTypes /\ CounterTypes'
  <2>1. TypeInv'
    BY TypeStep
  <2>2. CounterTypes'
    BY <2>1 DEF TypeInv, TypeOK, BookTypes, SubmitterTypes, StatusTypes, ReaderTypes, CounterTypes
  <2> QED
    BY <2>2, CounterFact
<1>b. validShares' >= validShares /\ Written' >= Written /\ staleShares' >= staleShares /\ taken' >= taken
  BY SharesGrow
<1>c. Written \in Nat /\ Written' \in Nat
  <2>1. rejected \in Nat /\ failed \in Nat
    BY <1>a DEF CounterTypes
  <2>2. rejected' \in Nat /\ failed' \in Nat
    BY <1>a DEF CounterTypes
  <2>3. Written \in Nat
    BY <2>1 DEF Written
  <2>4. Written' \in Nat
    <3>1. \A x, y \in Nat : x + y \in Nat
      OBVIOUS
    <3> QED
      BY <2>2, <3>1, Zenon DEF Written
  <2> QED
    BY <2>3, <2>4
<1>d. \A n \in Nat : n <= validShares + Written + staleShares => n <= validShares' + Written' + staleShares'
  <2>1. /\ validShares \in Nat /\ validShares' \in Nat /\ staleShares \in Nat /\ staleShares' \in Nat
    BY <1>a DEF CounterTypes
  <2> QED
    BY <1>b, <1>c, <2>1, SumsGrow
<1> USE <1>a, <1>b, <1>c DEF CounterTypes
<1>1. CASE UNCHANGED <<statPC, total>>
  <2>1. CASE statPC = "rejected"
    BY <1>1, <2>1 DEF TotalInv
  <2>2. CASE statPC = "pending"
    <3>1. total <= validShares + Written + staleShares
      BY <2>2 DEF TotalInv
    <3>2. total \in Nat /\ total' = total
      BY <1>1
    <3>3. total' <= validShares' + Written' + staleShares'
      BY <1>d, <3>1, <3>2
    <3> QED
      BY <1>1, <2>2, <3>3 DEF TotalInv
  <2>3. CASE statPC = "log"
    BY <1>1, <2>3 DEF TotalInv
  <2> QED
    BY <1>1, <2>1, <2>2, <2>3 DEF TotalInv
<1>2. CASE Status /\ ReadTotal
  <2>1. CASE StatusReads("valid", validShares, "rejected")
    BY <2>1 DEF StatusReads, TotalInv
  <2>2. CASE StatusReads("rejected", total + invalidShares + staleShares, "pending")
    <3>1. total <= validShares /\ invalidShares <= Written
      BY <2>2 DEF StatusReads, TotalInv, SharesInv
    <3>2. total + invalidShares + staleShares <= validShares + Written + staleShares
      BY <3>1
    <3>3. total + invalidShares + staleShares <= validShares' + Written' + staleShares'
      <4>1. total + invalidShares + staleShares \in Nat
        BY <1>a DEF CounterTypes
      <4> QED
        BY <1>d, <3>2, <4>1
    <3> QED
      BY <2>2, <3>3 DEF StatusReads, TotalInv
  <2>3. CASE StatusReads("pending", total + pendingShares, "log")
    <3>1. total <= validShares + rejected + failed + staleShares
      BY <2>3 DEF StatusReads, TotalInv, Written
    <3>2. accepted >= pendingShares + validShares + failed
      BY DEF CountInv, Hand
    <3>3. taken >= staleShares + rejected + accepted
      BY DEF SharesInv, Taking
    <3>4. total + pendingShares <= taken'
      BY <3>1, <3>2, <3>3
    <3> QED
      BY <2>3, <3>4 DEF StatusReads, TotalInv
  <2>4. CASE StatusReads("log", 0, "idle")
    BY <2>4 DEF StatusReads, TotalInv
  <2> QED
    BY <1>2, <2>1, <2>2, <2>3, <2>4 DEF ReadTotal
<1>3. CASE Status /\ ~ReadTotal
  <2>1. statPC' \notin {"rejected", "pending", "log"}
    BY <1>3 DEF Status, Tick, StatusLocks, StatusLooks, StatusRemoves, StatusReturns, StatusUnlocks
  <2> QED
    BY <2>1 DEF TotalInv
<1> QED
  BY <1>1, <1>2, <1>3 DEF Next, Submitter, Reader, Outside, vars, statVars

(* The total of Status is never more than the shares taken, whatever it     *)
(* reads between the steps of the other three goroutines (robot.go:         *)
(* Status).                                                                 *)
THEOREM TotalSound == Spec => []TotalNotInflated
<1>1. TotalInv => TotalNotInflated
  BY DEF TotalInv, TotalNotInflated
<1> QED
  BY <1>1, TypeInit, TypeStep, CountInit, CountStep, SharesInit, SharesStep, TotalStep, PTL DEF Spec

(* The accounting implements the abstract ledger: a block is entered when   *)
(* it is accepted and judged once, by OnTxConfirm or by Status.             *)
THEOREM LedgerRefined == Spec => ImplementsLedger
<1>1. Init => Ledger!Init
  BY DEF Init, Ledger!Init
<1>2. TypeInv /\ [Next]_vars => [Ledger!Next]_(Ledger!vars)
  <2> SUFFICES ASSUME TypeInv, [Next]_vars PROVE [Ledger!Next]_(Ledger!vars)
    OBVIOUS
  <2>a. pendingBlocks \subseteq Coinbases /\ DOMAIN templates \subseteq Coinbases
    BY BoundsAssumption DEF TypeInv, TypeOK, BookTypes, Coinbases
  <2>1. CASE Quiet
    BY <2>1 DEF Quiet, Ledger!vars
  <2>2. CASE Submitter /\ EnterPending
    <3>1. subTx \in Coinbases
      BY <2>a, <2>2 DEF EnterPending, TypeInv, LockInv
    <3>2. Ledger!Enter(subTx)
      BY <2>2 DEF Submitter, EnterPending, Ledger!Enter
    <3> QED
      BY <3>1, <3>2 DEF Ledger!Next
  <2>3. CASE Status /\ StatusRemoves
    <3>1. statV \in pendingBlocks
      BY <2>3 DEF StatusRemoves, TypeInv, LockInv
    <3>2. Ledger!Judge(statV)
      BY <2>3, <3>1 DEF Status, StatusRemoves, Remove, Ledger!Judge
    <3> QED
      BY <2>a, <3>1, <3>2 DEF Ledger!Next
  <2>4. CASE Reader /\ ConfirmLocks
    BY <2>4 DEF Reader, ConfirmLocks, Ledger!vars
  <2>5. CASE Reader /\ ConfirmSettles
    <3>1. rdTx \in pendingBlocks
      BY <2>5 DEF ConfirmSettles, TypeInv, LockInv
    <3>2. Ledger!Judge(rdTx)
      BY <2>5, <3>1 DEF Reader, ConfirmSettles, ConfirmDeletes, Ledger!Judge
    <3> QED
      BY <2>a, <3>1, <3>2 DEF Ledger!Next
  <2> QED
    BY <2>1, <2>2, <2>3, <2>4, <2>5, Steps
<1> QED
  BY <1>1, <1>2, TypeInit, TypeStep, PTL DEF Spec, ImplementsLedger, Ledger!Spec
=============================================================================
