------------------------ MODULE StratumSessionProofs ------------------------
(***************************************************************************)
(* Theorems about the pool's session, for any number of connections, jobs, *)
(* difficulties, shares and requests of the pool: every variable keeps its *)
(* type; the answer to a login is not counted as a share's unless a read   *)
(* error cut it off; a clean job and a new difficulty are not lost between *)
(* the reader and the listener, who share PoolWork without a lock; and the *)
(* jobs never go back.                                                     *)
(***************************************************************************)
EXTENDS StratumSession, TLAPS, SequenceTheorems

(* What the pool sends: a number of a message is that of a connection, of a *)
(* difficulty or of a job.                                                  *)
Sent == {m \in Message :
            /\ m.kind = "subscribed" => m.n \in 0 .. MaxConn
            /\ m.kind = "difficulty" => m.n \in 0 .. MaxDiff
            /\ m.kind = "notify" => m.n \in 1 .. MaxJob}

PoolWorks == [Nonce1 : 0 .. MaxConn, CB : 0 .. MaxJob, JobID : 0 .. MaxJob,
              Rest : 0 .. MaxJob, Clean : BOOLEAN]

ReaderPlaces == {"top", "difficulty", "coinbase", "rest", "clean", "subscribe",
                 "subscribeCount", "subscribeText", "subscribeLine", "auth", "authCount",
                 "authText", "authLine", "panicked"}

NetInv ==
    /\ up \subseteq Conns /\ MaxConn \in up /\ subscribed \subseteq Conns
    /\ poolJob \in 1 .. MaxJob /\ poolDiff \in 1 .. MaxDiff /\ requests \in 0 .. MaxRequests
    /\ line \in [Conns -> Seq(Text)] /\ in \in [Conns -> Seq(Sent)]

ReaderInv ==
    /\ conn \in Conns /\ SubID \in Nat /\ AuthID \in Nat /\ rid \in Nat /\ counted \in Nat
    /\ Target \in 0 .. MaxDiff /\ rpc \in ReaderPlaces /\ rmsg \in Message
    /\ cut \in {<< >>} \cup {<<m>> : m \in Sent}
    /\ rpc \in {"coinbase", "rest", "clean"} => rmsg.n \in 1 .. MaxJob

(* NewWork stays set once it is; the listener is past its test of it.       *)
ListenInv ==
    /\ lpc \in {"poll", "clear", "take", "copy", "copyJob", "copyRest", "send"}
    /\ taken \in 0 .. MaxJob /\ copy \in Work /\ newWork \in Work
    /\ lpc \notin {"poll", "send"} => PoolWork.Rest # 0
    /\ lpc = "send" => copy.rest # 0
    /\ newWork = NoWork \/ newWork.rest # 0

DeviceInv == dev \in Work /\ devTarget \in 0 .. MaxDiff /\ (dev = NoWork \/ dev.rest # 0)

SubmitInv ==
    /\ spc \in {"idle", "count", "number", "check", "text", "line"}
    /\ sid \in Nat /\ sjob \in 0 .. MaxJob /\ shares \in 0 .. MaxShares

TypeInv == NetInv /\ ReaderInv /\ ListenInv /\ DeviceInv /\ SubmitInv /\ PoolWork \in PoolWorks /\ ID \in Nat

LEMMA ShortSequences ==
    ASSUME NEW S, NEW a \in S, NEW b \in S, NEW c \in S, NEW d \in S
    PROVE  <<a>> \in Seq(S) /\ <<a, b, c>> \in Seq(S) /\ <<a, b, c, d>> \in Seq(S)
OBVIOUS

LEMMA TypesFollow == TypeInv => TypeOK
<1> SUFFICES ASSUME TypeInv PROVE TypeOK
  OBVIOUS
<1>1. in \in [Conns -> Seq(Message)] /\ cut \in Seq(Message)
  <2>1. Seq(Sent) \subseteq Seq(Message)
    BY SeqMonotonic DEF Sent
  <2>2. in \in [Conns -> Seq(Message)]
    BY <2>1 DEF TypeInv, NetInv
  <2>3. cut \in Seq(Sent)
    <3>1. cut = << >> \/ \E m \in Sent : cut = <<m>>
      BY DEF TypeInv, ReaderInv
    <3> HIDE DEF Sent
    <3> QED
      BY <3>1, EmptySeq, ShortSequences
  <2> QED
    BY <2>1, <2>2, <2>3
<1> QED
  BY <1>1 DEF TypeInv, TypeOK, NetInv, ReaderInv, ListenInv, DeviceInv, SubmitInv, PoolWorks,
              ReaderPlaces

-----------------------------------------------------------------------------
(* Messages and texts.                                                      *)

LEMMA BoundsFact ==
    /\ 1 \in Conns /\ MaxConn \in Conns /\ \A k \in Conns : k \in Nat /\ k \in 0 .. MaxConn
    /\ 1 \in 1 .. MaxJob /\ 1 \in 1 .. MaxDiff /\ NoWork \in Work
BY BoundsAssumption DEF Conns, NoWork, Work

LEMMA Subscribes == ASSUME NEW i \in Nat, NEW k \in Conns PROVE Subscribed(i, k) \in Sent
BY BoundsFact DEF Subscribed, Sent, Message

LEMMA Replies == ASSUME NEW i \in Nat, NEW flag \in BOOLEAN PROVE Reply(i, flag) \in Sent
BY DEF Reply, Sent, Message

LEMMA Difficulties == ASSUME NEW d \in 1 .. MaxDiff PROVE Difficulty(d) \in Sent
BY BoundsAssumption DEF Difficulty, Sent, Message

LEMMA Notifies == ASSUME NEW j \in 1 .. MaxJob, NEW flag \in BOOLEAN PROVE Notify(j, flag) \in Sent
BY BoundsAssumption DEF Notify, Sent, Message

LEMMA Requests ==
    ASSUME NEW m \in {Unnumbered} \cup {Numbered(i) : i \in RequestIDs}
    PROVE  m \in Sent /\ m.kind = "request"
<1>1. CASE m = Unnumbered
  BY <1>1 DEF Unnumbered, Sent, Message
<1>2. ASSUME NEW i \in RequestIDs, m = Numbered(i) PROVE m \in Sent /\ m.kind = "request"
  <2>1. i \in Nat
    BY BoundsAssumption
  <2> QED
    BY <1>2, <2>1 DEF Numbered, Sent, Message
<1> QED
  BY <1>1, <1>2

LEMMA AnswersTyped ==
    ASSUME TypeInv, NEW k \in Conns, NEW t \in Text
    PROVE  Answers(k, t) \in Seq(Sent)
<1>1. /\ t.id \in Nat /\ t.kind \in {"subscribe", "authorize", "share"}
      /\ poolDiff \in 1 .. MaxDiff /\ poolJob \in 1 .. MaxJob
  BY DEF Text, TypeInv, NetInv
<1>2. /\ Subscribed(t.id, k) \in Sent /\ Difficulty(poolDiff) \in Sent
      /\ Notify(poolJob, TRUE) \in Sent /\ Reply(t.id, FALSE) \in Sent /\ Reply(t.id, TRUE) \in Sent
  BY <1>1, Subscribes, Difficulties, Notifies, Replies
<1>3. CASE t.kind = "subscribe"
  <2>1. Answers(k, t) = <<Subscribed(t.id, k), Difficulty(poolDiff), Notify(poolJob, TRUE)>>
    BY <1>3 DEF Answers
  <2> QED
    BY <1>2, <2>1, ShortSequences
<1>4. CASE t.kind = "authorize"
  <2>1. Answers(k, t) = <<Reply(t.id, FALSE)>>
    BY <1>4 DEF Answers
  <2> QED
    BY <1>2, <2>1, ShortSequences
<1>5. CASE t.kind = "share"
  <2>1. Answers(k, t) = <<Reply(t.id, TRUE)>>
    BY <1>5 DEF Answers
  <2> QED
    BY <1>2, <2>1, ShortSequences
<1> QED
  BY <1>1, <1>3, <1>4, <1>5

LEMMA WriteTypes == ASSUME TypeInv, NEW t \in Text, WriteText(t) PROVE NetInv'
<1>1. line' \in [Conns -> Seq(Text)]
  BY AppendProperties DEF TypeInv, NetInv, ReaderInv, WriteText
<1> QED
  BY <1>1 DEF TypeInv, NetInv, WriteText

LEMMA EndLineTypes == ASSUME TypeInv, EndLine PROVE NetInv'
<1>1. line' \in [Conns -> Seq(Text)]
  BY DEF TypeInv, NetInv, EndLine
<1>2. in' \in [Conns -> Seq(Sent)] /\ subscribed' \subseteq Conns
  <2>1. CASE conn \in up /\ Len(line[conn]) = 1
    <3>1. conn \in Conns /\ line[conn] \in Seq(Text) /\ line[conn] # <<>>
      <4>1. conn \in Conns /\ line[conn] \in Seq(Text)
        BY DEF TypeInv, NetInv, ReaderInv
      <4>2. Len(<< >>) = 0
        OBVIOUS
      <4>3. line[conn] = << >> => Len(line[conn]) = 0
        BY <4>2, Zenon
      <4> QED
        BY <2>1, <4>1, <4>3
    <3>2. Head(line[conn]) \in Text
      BY <3>1, HeadTailProperties
    <3>3. Answers(conn, Head(line[conn])) \in Seq(Sent)
      BY <3>1, <3>2, AnswersTyped
    <3>4. in[conn] \o Answers(conn, Head(line[conn])) \in Seq(Sent)
      BY <3>1, <3>3, ConcatProperties DEF TypeInv, NetInv
    <3> QED
      BY <2>1, <3>1, <3>4 DEF TypeInv, NetInv, EndLine
  <2>2. CASE ~(conn \in up /\ Len(line[conn]) = 1)
    BY <2>2 DEF TypeInv, NetInv, EndLine
  <2> QED
    BY <2>1, <2>2
<1> QED
  BY <1>1, <1>2 DEF TypeInv, NetInv, EndLine

LEMMA BroadcastTypes ==
    ASSUME TypeInv, NEW m \in Sent, Broadcast(m)
    PROVE  in' \in [Conns -> Seq(Sent)]
BY AppendProperties DEF TypeInv, NetInv, Broadcast

LEMMA IncrementTypes == ASSUME NEW r \in Nat, ID \in Nat, Increment(r) PROVE ID' \in Nat
BY DEF Increment

(* What the reader handles next: the line of a read error, and then what    *)
(* comes on its connection.                                                 *)
LEMMA PendingTypes ==
    ASSUME TypeInv
    PROVE  /\ conn \in Conns /\ in[conn] \in Seq(Sent) /\ cut \in Seq(Sent) /\ Pending \in Seq(Sent)
           /\ cut = << >> => Pending = in[conn]
           /\ cut # << >> => Head(Pending) \in Sent /\ Tail(Pending) = in[conn] /\ Pending # << >>
<1>1. conn \in Conns /\ in[conn] \in Seq(Sent)
  BY DEF TypeInv, NetInv, ReaderInv
<1>2. CASE cut = << >>
  BY <1>1, <1>2, ConcatEmptySeq, EmptySeq DEF Pending
<1>3. CASE cut # << >>
  <2>1. PICK m \in Sent : cut = <<m>>
    BY <1>3 DEF TypeInv, ReaderInv
  <2> DEFINE q == in[conn]
  <2>2. q \in Seq(Sent)
    BY <1>1
  <2> HIDE DEF q
  <2>3. /\ <<m>> \in Seq(Sent) /\ <<m>> \o q \in Seq(Sent) /\ <<m>> \o q # << >>
        /\ Head(<<m>> \o q) = m /\ Tail(<<m>> \o q) = q
    BY <2>2
  <2> QED
    BY <1>1, <1>3, <2>1, <2>3 DEF Pending, q
<1> QED
  BY <1>2, <1>3

LEMMA PendingRead ==
    ASSUME TypeInv, Read
    PROVE  /\ Pending # << >> /\ Head(Pending) \in Sent /\ Pending' = Tail(Pending)
           /\ cut' = << >> /\ conn' = conn
           /\ cut = << >> => in' = [in EXCEPT ![conn] = Tail(in[conn])]
           /\ cut # << >> => in' = in
<1>1. Pending # << >> /\ cut' = << >> /\ conn' = conn
  BY DEF Read
<1>2. Head(Pending) \in Sent
  BY <1>1, PendingTypes, HeadTailProperties
<1>3. CASE cut = << >>
  <2>1. in' = [in EXCEPT ![conn] = Tail(in[conn])] /\ Pending = in[conn]
    BY <1>3, PendingTypes DEF Read
  <2>2. in'[conn] = Tail(in[conn]) /\ Tail(in[conn]) \in Seq(Sent)
    BY <1>1, <2>1, PendingTypes, HeadTailProperties DEF TypeInv, NetInv
  <2>3. Pending' = in'[conn]
    BY <1>1, <2>2, ConcatEmptySeq DEF Pending
  <2> QED
    BY <1>1, <1>2, <1>3, <2>1, <2>2, <2>3
<1>4. CASE cut # << >>
  <2>1. in' = in
    BY <1>4 DEF Read
  <2>2. Pending' = in[conn]
    BY <1>1, <2>1, PendingTypes, ConcatEmptySeq DEF Pending
  <2> QED
    BY <1>1, <1>2, <1>4, <2>1, <2>2, PendingTypes
<1> QED
  BY <1>3, <1>4

-----------------------------------------------------------------------------
LEMMA TypeInit == Init => TypeInv
<1> SUFFICES ASSUME Init PROVE TypeInv
  OBVIOUS
<1>1. <<Subscribed(1, 1), Difficulty(1), Notify(1, TRUE), Reply(2, FALSE)>> \in Seq(Sent)
  <2>1. Subscribed(1, 1) \in Sent /\ Difficulty(1) \in Sent /\ Notify(1, TRUE) \in Sent
        /\ Reply(2, FALSE) \in Sent
    BY BoundsFact, Subscribes, Difficulties, Notifies, Replies
  <2> QED
    BY <2>1, ShortSequences, Zenon
<1>2. NetInv
  <2>1. in \in [Conns -> Seq(Sent)]
    <3> DEFINE first == <<Subscribed(1, 1), Difficulty(1), Notify(1, TRUE), Reply(2, FALSE)>>
    <3>1. in = [k \in Conns |-> IF k # 1 THEN << >> ELSE first]
      BY DEF Init
    <3>2. first \in Seq(Sent) /\ << >> \in Seq(Sent)
      BY <1>1, EmptySeq
    <3> HIDE DEF first
    <3> QED
      BY <3>1, <3>2 DEF Conns
  <2>2. line \in [Conns -> Seq(Text)]
    BY EmptySeq DEF Init
  <2> QED
    <3>1. requests \in 0 .. MaxRequests
      BY BoundsAssumption DEF Init
    <3> QED
      BY <2>1, <2>2, <3>1, BoundsFact DEF NetInv, Init
<1>3. ReaderInv
  <2>1. rmsg \in Message
    <3>1. rmsg = Reply(0, FALSE)
      BY DEF Init
    <3> QED
      BY <3>1, Replies DEF Sent
  <2>2. /\ conn = 1 /\ SubID = 1 /\ AuthID = 2 /\ rid = 0 /\ counted = 0 /\ Target = 0 /\ rpc = "top"
        /\ cut = << >>
    BY DEF Init
  <2> QED
    BY <2>1, <2>2, BoundsAssumption, BoundsFact DEF ReaderInv, ReaderPlaces
<1>4. ListenInv /\ DeviceInv /\ SubmitInv
  BY BoundsFact, BoundsAssumption DEF Init, ListenInv, DeviceInv, SubmitInv
<1>5. PoolWork \in PoolWorks /\ ID \in Nat
  BY BoundsAssumption DEF Init, PoolWorks
<1> QED
  BY <1>2, <1>3, <1>4, <1>5 DEF TypeInv

(* What an action leaves alone keeps its type.                              *)
LEMMA Frame ==
    ASSUME TypeInv
    PROVE  /\ UNCHANGED poolVars => NetInv'
           /\ UNCHANGED <<listenVars, PoolWork>> => ListenInv'
           /\ UNCHANGED deviceVars => DeviceInv'
           /\ UNCHANGED submitVars => SubmitInv'
           /\ UNCHANGED readerVars => ReaderInv'
BY DEF TypeInv, NetInv, ListenInv, DeviceInv, SubmitInv, ReaderInv, poolVars, listenVars,
       deviceVars, submitVars, readerVars

(* A field of PoolWork that is not Rest may change under the listener.      *)
LEMMA RestKept ==
    ASSUME TypeInv, UNCHANGED listenVars, PoolWork.Rest # 0 => PoolWork'.Rest # 0
    PROVE  ListenInv'
BY DEF TypeInv, ListenInv, listenVars

LEMMA ReadTypes == ASSUME TypeInv, Read PROVE TypeInv'
<1> DEFINE m == Head(Pending)
<1>1. m \in Sent
  BY PendingRead
<1>2. NetInv'
  <2>1. cut = << >> => Tail(in[conn]) \in Seq(Sent)
    BY PendingTypes, PendingRead, HeadTailProperties
  <2>2. in' \in [Conns -> Seq(Sent)]
    BY <2>1, PendingTypes, PendingRead DEF TypeInv, NetInv
  <2> QED
    BY <2>2 DEF Read, TypeInv, NetInv
<1>3. DeviceInv' /\ SubmitInv' /\ ID' \in Nat
  BY Frame DEF Read, TypeInv
<1>4. /\ rpc = "top" /\ cut' = << >> /\ UNCHANGED <<conn, SubID, AuthID, rid>>
      /\ ReadNotify(m) \/ ReadDifficulty(m) \/ ReadSubscribed(m) \/ ReadReply(m) \/ ReadUnnumbered(m)
  BY DEF Read
<1> HIDE DEF m
<1>5. m \in Message /\ m.n \in Nat
  BY <1>1 DEF Sent, Message
<1>6. /\ PoolWork' \in PoolWorks /\ PoolWork'.Rest = PoolWork.Rest
      /\ ReaderInv'
  <2>1. CASE ReadNotify(m)
    <3>1. m.n \in 1 .. MaxJob
      BY <1>1, <2>1 DEF ReadNotify, Sent
    <3> QED
      BY <1>4, <1>5, <2>1, <3>1 DEF ReadNotify, TypeInv, ReaderInv, PoolWorks, ReaderPlaces
  <2>2. CASE ReadDifficulty(m)
    <3>1. m.n \in 0 .. MaxDiff
      BY <1>1, <2>2 DEF ReadDifficulty, Sent
    <3> QED
      BY <1>4, <2>2, <3>1 DEF ReadDifficulty, TypeInv, ReaderInv, PoolWorks, ReaderPlaces
  <2>3. CASE ReadSubscribed(m)
    <3>1. m.n \in 0 .. MaxConn
      BY <1>1, <2>3 DEF ReadSubscribed, Sent
    <3>2. (PoolWork' = [PoolWork EXCEPT !.Nonce1 = m.n] \/ PoolWork' = PoolWork)
          /\ UNCHANGED <<counted, Target, rpc, rmsg>>
      BY <2>3 DEF ReadSubscribed
    <3> QED
      BY <1>4, <3>1, <3>2 DEF TypeInv, ReaderInv, PoolWorks
  <2>4. CASE ReadReply(m) \/ ReadUnnumbered(m)
    <3>1. /\ counted' = counted \/ counted' = counted + 1
          /\ rpc' \in {"top", "panicked"} /\ UNCHANGED <<PoolWork, Target, rmsg>>
      BY <1>4, <2>4 DEF ReadUnnumbered, ReadReply
    <3> QED
      BY <1>4, <3>1 DEF TypeInv, ReaderInv, ReaderPlaces
  <2> QED
    BY <1>4, <2>1, <2>2, <2>3, <2>4
<1>7. ListenInv'
  BY <1>6, RestKept DEF Read
<1> QED
  BY <1>2, <1>3, <1>6, <1>7 DEF TypeInv

LEMMA HandleTypes == ASSUME TypeInv, Handle PROVE TypeInv'
<1>1. NetInv' /\ DeviceInv' /\ SubmitInv' /\ ID' \in Nat
  BY Frame DEF Handle, TypeInv
<1>2. PoolWork' \in PoolWorks /\ (PoolWork.Rest # 0 => PoolWork'.Rest # 0) /\ ReaderInv'
  <2>1. CASE NotifyCoinbase
    BY <2>1 DEF NotifyCoinbase, Handle, TypeInv, ReaderInv, PoolWorks, ReaderPlaces
  <2>2. CASE NotifyRest
    BY <2>2 DEF NotifyRest, Handle, TypeInv, ReaderInv, PoolWorks, ReaderPlaces
  <2>3. CASE NotifyClean
    <3>1. rmsg.flag \in BOOLEAN
      BY DEF TypeInv, ReaderInv, Message
    <3> QED
      BY <2>3, <3>1 DEF NotifyClean, Handle, TypeInv, ReaderInv, PoolWorks, ReaderPlaces
  <2>4. CASE DifficultyClean
    BY <2>4 DEF DifficultyClean, Handle, TypeInv, ReaderInv, PoolWorks, ReaderPlaces
  <2> QED
    BY <2>1, <2>2, <2>3, <2>4 DEF Handle
<1>3. ListenInv'
  BY <1>2, RestKept DEF Handle
<1> QED
  BY <1>1, <1>2, <1>3 DEF TypeInv

LEMMA ReconnectTypes == ASSUME TypeInv, Reconnect PROVE TypeInv'
<1>1. conn + 1 \in Conns
  BY BoundsAssumption DEF Reconnect, TypeInv, NetInv, ReaderInv, Conns
<1>2. cut' \in {<< >>} \cup {<<m>> : m \in Sent}
  <2>1. in[conn] # << >> => Head(in[conn]) \in Sent
    BY PendingTypes, HeadTailProperties
  <2> QED
    BY <2>1 DEF Reconnect
<1>3. ReaderInv'
  BY <1>1, <1>2 DEF Reconnect, TypeInv, ReaderInv, ReaderPlaces
<1>4. NetInv'
  BY EmptySeq DEF Reconnect, TypeInv, NetInv
<1> QED
  BY <1>3, <1>4, Frame DEF Reconnect, TypeInv

LEMMA LoginTypes == ASSUME TypeInv, Login PROVE TypeInv'
<1>1. ListenInv' /\ DeviceInv' /\ SubmitInv' /\ PoolWork' \in PoolWorks
  BY Frame DEF Login, TypeInv
<1>2. NetInv'
  <2>1. CASE UNCHANGED poolVars
    BY <2>1, Frame
  <2>2. CASE \E t \in Text : WriteText(t)
    BY <2>2, WriteTypes
  <2>3. CASE EndLine
    BY <2>3, EndLineTypes
  <2>4. Writes => (\E t \in Text : WriteText(t)) \/ EndLine
    <3>1. [kind |-> "subscribe", id |-> rid] \in Text /\ [kind |-> "authorize", id |-> rid] \in Text
      BY DEF TypeInv, ReaderInv, Text
    <3> QED
      BY <3>1 DEF Writes
  <2> QED
    BY <2>1, <2>2, <2>3, <2>4
       DEF Login, SubscribeNumber, SubscribeCount, AuthNumber, AuthCount, WriteFails
<1>3. ID' \in Nat /\ SubID' \in Nat /\ AuthID' \in Nat /\ rid' \in Nat /\ rpc' \in ReaderPlaces
      /\ rpc' \notin {"coinbase", "rest", "clean"}
  <2>1. CASE SubscribeNumber
    BY <2>1 DEF SubscribeNumber, TypeInv, ReaderInv, ReaderPlaces
  <2>2. CASE SubscribeCount
    BY <2>2, IncrementTypes DEF SubscribeCount, TypeInv, ReaderInv, ReaderPlaces
  <2>3. CASE AuthNumber
    BY <2>3 DEF AuthNumber, TypeInv, ReaderInv, ReaderPlaces
  <2>4. CASE AuthCount
    BY <2>4, IncrementTypes DEF AuthCount, TypeInv, ReaderInv, ReaderPlaces
  <2>5. CASE WriteFails \/ Writes
    BY <2>5 DEF WriteFails, Writes, TypeInv, ReaderInv, ReaderPlaces
  <2> QED
    BY <2>1, <2>2, <2>3, <2>4, <2>5 DEF Login
<1>4. ReaderInv'
  BY <1>3 DEF Login, TypeInv, ReaderInv
<1> QED
  BY <1>1, <1>2, <1>3, <1>4 DEF TypeInv

LEMMA ListenerTypes == ASSUME TypeInv, Listener PROVE TypeInv'
<1>1. NetInv' /\ DeviceInv' /\ SubmitInv' /\ ID' \in Nat
  BY Frame DEF Listener, TypeInv
<1>2. PoolWork' \in PoolWorks /\ ListenInv'
  <2>1. CASE Poll
    BY <2>1 DEF Poll, Takes, TypeInv, ListenInv
  <2>2. CASE ClearClean
    BY <2>2 DEF ClearClean, TypeInv, ListenInv, PoolWorks
  <2>3. CASE Take
    BY <2>3 DEF Take, TypeInv, ListenInv, PoolWorks
  <2>4. CASE CopyCoinbase
    BY <2>4, BoundsFact DEF CopyCoinbase, TypeInv, ListenInv, PoolWorks, Work
  <2>5. CASE CopyJob
    BY <2>5 DEF CopyJob, TypeInv, ListenInv, PoolWorks, Work
  <2>6. CASE CopyRest
    BY <2>6 DEF CopyRest, TypeInv, ListenInv, PoolWorks, Work
  <2>7. CASE Send
    BY <2>7 DEF Send, TypeInv, ListenInv
  <2> QED
    BY <2>1, <2>2, <2>3, <2>4, <2>5, <2>6, <2>7 DEF Listener
<1>3. ReaderInv'
  BY DEF Listener, TypeInv, ReaderInv
<1> QED
  BY <1>1, <1>2, <1>3 DEF TypeInv

LEMMA DeviceTypes == ASSUME TypeInv, Device PROVE TypeInv'
<1>1. NetInv' /\ ReaderInv' /\ SubmitInv' /\ PoolWork' \in PoolWorks /\ ID' \in Nat
  BY Frame DEF Device, TypeInv, readerVars
<1>2. ListenInv'
  BY BoundsFact DEF Device, TypeInv, ListenInv, readerVars
<1>3. DeviceInv'
  BY DEF Device, TypeInv, ListenInv, ReaderInv, DeviceInv
<1> QED
  BY <1>1, <1>2, <1>3 DEF TypeInv

LEMMA SubmitterTypes == ASSUME TypeInv, Submitter PROVE TypeInv'
<1>1. ReaderInv' /\ ListenInv' /\ DeviceInv' /\ PoolWork' \in PoolWorks
  BY Frame DEF Submitter, TypeInv, readerVars
<1>2. NetInv'
  <2>1. CASE UNCHANGED poolVars
    BY <2>1, Frame
  <2>2. CASE \E t \in Text : WriteText(t)
    BY <2>2, WriteTypes
  <2>3. CASE EndLine
    BY <2>3, EndLineTypes
  <2>4. Submit => (\E t \in Text : WriteText(t)) \/ EndLine
    <3>1. [kind |-> "share", id |-> sid] \in Text
      BY DEF TypeInv, SubmitInv, Text
    <3> QED
      BY <3>1 DEF Submit
  <2> QED
    BY <2>1, <2>2, <2>3, <2>4 DEF Submitter, Find, Count, Number, Check, SubmitFails
<1>3. SubmitInv' /\ ID' \in Nat
  <2>1. CASE Find
    <3>1. dev.job \in 0 .. MaxJob
      BY DEF TypeInv, DeviceInv, Work
    <3> QED
      BY <2>1, <3>1, BoundsAssumption DEF Find, TypeInv, SubmitInv
  <2>2. CASE Count
    BY <2>2, IncrementTypes DEF Count, TypeInv, SubmitInv
  <2>3. CASE Number \/ Check \/ SubmitFails \/ Submit
    BY <2>3 DEF Number, Check, SubmitFails, Submit, TypeInv, SubmitInv
  <2> QED
    BY <2>1, <2>2, <2>3 DEF Submitter
<1> QED
  BY <1>1, <1>2, <1>3 DEF TypeInv

LEMMA PoolTypes ==
    ASSUME TypeInv,
           NewJob \/ NewDifficulty \/ PoolAsks \/ (\E k \in Conns : Break(k)) \/ UNCHANGED vars
    PROVE  TypeInv'
<1>1. ReaderInv' /\ ListenInv' /\ DeviceInv' /\ SubmitInv' /\ PoolWork' \in PoolWorks /\ ID' \in Nat
  BY Frame DEF NewJob, NewDifficulty, PoolAsks, Break, vars, TypeInv, readerVars
<1>2. NetInv'
  <2>1. CASE NewJob
    <3>1. poolJob' \in 1 .. MaxJob
      BY <2>1, BoundsAssumption DEF NewJob, TypeInv, NetInv
    <3>2. in' \in [Conns -> Seq(Sent)]
      <4>1. PICK clean \in BOOLEAN : Broadcast(Notify(poolJob', clean))
        BY <2>1 DEF NewJob
      <4>2. Notify(poolJob', clean) \in Sent
        BY <3>1, Notifies
      <4> QED
        BY <4>1, <4>2, BroadcastTypes
    <3> QED
      BY <2>1, <3>1, <3>2 DEF NewJob, TypeInv, NetInv
  <2>2. CASE NewDifficulty
    <3>1. poolDiff' \in 1 .. MaxDiff
      BY <2>2, BoundsAssumption DEF NewDifficulty, TypeInv, NetInv
    <3>2. in' \in [Conns -> Seq(Sent)]
      <4>1. Broadcast(Difficulty(poolDiff'))
        BY <2>2 DEF NewDifficulty
      <4>2. Difficulty(poolDiff') \in Sent
        BY <3>1, Difficulties
      <4> QED
        BY <4>1, <4>2, BroadcastTypes
    <3> QED
      BY <2>2, <3>1, <3>2 DEF NewDifficulty, TypeInv, NetInv
  <2>3. CASE \E k \in Conns : Break(k)
    BY <2>3, BoundsAssumption DEF Break, TypeInv, NetInv, Conns
  <2>4. CASE PoolAsks
    <3>1. requests' \in 0 .. MaxRequests
      BY <2>4, BoundsAssumption DEF PoolAsks, TypeInv, NetInv
    <3>2. in' \in [Conns -> Seq(Sent)]
      BY <2>4, Requests, BroadcastTypes DEF PoolAsks
    <3> QED
      BY <2>4, <3>1, <3>2 DEF PoolAsks, TypeInv, NetInv
  <2>5. CASE UNCHANGED vars
    BY <2>5, Frame DEF vars
  <2> QED
    BY <2>1, <2>2, <2>3, <2>4, <2>5
<1> QED
  BY <1>1, <1>2 DEF TypeInv

LEMMA TypeStep == TypeInv /\ [Next]_vars => TypeInv'
BY ReadTypes, HandleTypes, ReconnectTypes, LoginTypes, ListenerTypes, DeviceTypes,
   SubmitterTypes, PoolTypes DEF Next, Reader

LEMMA TypeInvariant == Spec => []TypeInv
BY TypeInit, TypeStep, PTL DEF Spec

(* Every variable of the session keeps its type, and a device is only given *)
(* work when a whole notification has come.                                 *)
THEOREM TypeCorrect == Spec => []TypeOK
BY TypeInvariant, TypesFollow, PTL
-----------------------------------------------------------------------------
(* Why the login's answer is not counted.  From its dial to the count of    *)
(* mining.authorize the reader is logging in: on its connection there is no *)
(* text and no answer of an authorization.  Afterwards they carry AuthID.   *)
(* The connections that are still to be made are silent.                    *)

LoggingIn == rpc \in {"subscribe", "subscribeCount", "subscribeText", "subscribeLine",
                      "auth", "authCount"}

Incoming == {m \in Sent : m.kind = "reply" => m.flag \/ (~LoggingIn /\ m.id = AuthID)}
Outgoing == {t \in Text : t.kind = "authorize" => ~LoggingIn /\ t.id = AuthID}

SessionInv ==
    /\ subscribed \subseteq 1 .. conn
    /\ \A k \in Conns : k > conn => in[k] = << >> /\ line[k] = << >>
    /\ in[conn] \in Seq(Incoming) /\ line[conn] \in Seq(Outgoing)

LoginInv == SessionInv /\ (rpc = "authText" => rid = AuthID)

(* What an action that goes on with the same connection may do to SessionInv: *)
(* the numbers that are expected stay expected, or the reader is logging in.  *)
Goes == conn' = conn /\ Incoming \subseteq Incoming' /\ Outgoing \subseteq Outgoing'

LEMMA Widens ==
    ASSUME conn' = conn, LoggingIn' => LoggingIn, AuthID' = AuthID \/ LoggingIn
    PROVE  Goes
BY DEF Goes, Incoming, Outgoing

(* Seen through names for the sets, which hide what the members are.        *)
LEMMA GoesSequences ==
    ASSUME Goes
    PROVE  /\ \A q \in Seq(Incoming) : q \in Seq(Incoming')
           /\ \A q \in Seq(Outgoing) : q \in Seq(Outgoing')
<1> DEFINE I == Incoming
           J == Incoming'
           O == Outgoing
           P == Outgoing'
<1>1. I \subseteq J /\ O \subseteq P
  BY DEF Goes
<1> HIDE DEF I, J, O, P
<1>2. Seq(I) \subseteq Seq(J) /\ Seq(O) \subseteq Seq(P)
  BY <1>1, SeqMonotonic
<1> QED
  BY <1>2 DEF I, J, O, P

LEMMA SessionKept ==
    ASSUME SessionInv, Goes, UNCHANGED <<subscribed, in, line>>
    PROVE  SessionInv'
BY GoesSequences DEF SessionInv, Goes

LEMMA SessionWrites ==
    ASSUME TypeInv, SessionInv, Goes, NEW t \in Outgoing', WriteText(t)
    PROVE  SessionInv'
<1>1. /\ conn \in Conns /\ in' = in /\ subscribed' = subscribed
      /\ in[conn] \in Seq(Incoming') /\ line[conn] \in Seq(Outgoing')
  BY GoesSequences DEF TypeInv, ReaderInv, SessionInv, WriteText
<1>2. Append(line[conn], t) \in Seq(Outgoing')
  BY <1>1, AppendProperties
<1>3. line'[conn] \in Seq(Outgoing') /\ \A k \in Conns : k # conn => line'[k] = line[k]
  BY <1>1, <1>2 DEF WriteText, TypeInv, NetInv
<1>4. \A k \in Conns : k > conn => k # conn
  BY <1>1, BoundsFact
<1> QED
  BY <1>1, <1>3, <1>4 DEF SessionInv, Goes

LEMMA AnswersExpected ==
    ASSUME TypeInv, NEW t \in Outgoing
    PROVE  Answers(conn, t) \in Seq(Incoming)
<1>1. /\ t \in Text /\ t.id \in Nat /\ t.kind \in {"subscribe", "authorize", "share"}
      /\ t.kind = "authorize" => ~LoggingIn /\ t.id = AuthID
      /\ conn \in Conns /\ poolDiff \in 1 .. MaxDiff /\ poolJob \in 1 .. MaxJob
  BY DEF Outgoing, Text, TypeInv, NetInv, ReaderInv
<1>2. CASE t.kind = "subscribe"
  <2>1. Answers(conn, t) = <<Subscribed(t.id, conn), Difficulty(poolDiff), Notify(poolJob, TRUE)>>
    BY <1>2 DEF Answers
  <2>2. Subscribed(t.id, conn) \in Sent /\ Difficulty(poolDiff) \in Sent /\ Notify(poolJob, TRUE) \in Sent
    BY <1>1, Subscribes, Difficulties, Notifies
  <2>3. Subscribed(t.id, conn) \in Incoming /\ Difficulty(poolDiff) \in Incoming
        /\ Notify(poolJob, TRUE) \in Incoming
    BY <2>2 DEF Incoming, Subscribed, Difficulty, Notify
  <2> QED
    BY <2>1, <2>3, ShortSequences
<1>3. CASE t.kind = "authorize"
  <2>1. Answers(conn, t) = <<Reply(t.id, FALSE)>>
    BY <1>3 DEF Answers
  <2>2. Reply(t.id, FALSE) \in Incoming
    BY <1>1, <1>3, Replies DEF Incoming, Reply
  <2> QED
    BY <2>1, <2>2, ShortSequences
<1>4. CASE t.kind = "share"
  <2>1. Answers(conn, t) = <<Reply(t.id, TRUE)>>
    BY <1>4 DEF Answers
  <2>2. Reply(t.id, TRUE) \in Incoming
    BY <1>1, Replies DEF Incoming, Reply
  <2> QED
    BY <2>1, <2>2, ShortSequences
<1> QED
  BY <1>1, <1>2, <1>3, <1>4

LEMMA SessionAnswers ==
    ASSUME TypeInv, SessionInv, Goes, EndLine
    PROVE  SessionInv'
<1>1. /\ conn \in Conns /\ conn' = conn
      /\ in[conn] \in Seq(Incoming') /\ line[conn] \in Seq(Outgoing') /\ line[conn] \in Seq(Outgoing)
  BY GoesSequences DEF TypeInv, ReaderInv, SessionInv, Goes
<1>2. line'[conn] \in Seq(Outgoing') /\ \A k \in Conns : k # conn => line'[k] = line[k]
  BY <1>1, EmptySeq DEF EndLine, TypeInv, NetInv
<1>3. in'[conn] \in Seq(Incoming') /\ (\A k \in Conns : k # conn => in'[k] = in[k])
      /\ subscribed' \subseteq subscribed \cup {conn}
  <2>1. CASE conn \in up /\ Len(line[conn]) = 1
    <3> DEFINE t == Head(line[conn])
    <3>1. line[conn] # << >>
      <4>1. Len(<< >>) = 0
        OBVIOUS
      <4>2. line[conn] = << >> => Len(line[conn]) = 0
        BY <4>1, Zenon
      <4> QED
        BY <2>1, <4>2
    <3>2. t \in Outgoing
      BY <1>1, <3>1, HeadTailProperties
    <3>3. /\ in' = [in EXCEPT ![conn] = @ \o Answers(conn, t)]
          /\ subscribed' = subscribed \cup {conn} \/ subscribed' = subscribed
      BY <2>1 DEF EndLine
    <3> HIDE DEF t
    <3>4. Answers(conn, t) \in Seq(Incoming')
      BY <3>2, AnswersExpected, GoesSequences
    <3>5. in[conn] \o Answers(conn, t) \in Seq(Incoming')
      BY <1>1, <3>4, ConcatProperties
    <3> QED
      BY <1>1, <3>3, <3>5 DEF TypeInv, NetInv
  <2>2. CASE ~(conn \in up /\ Len(line[conn]) = 1)
    BY <1>1, <2>2 DEF EndLine
  <2> QED
    BY <2>1, <2>2
<1>4. \A k \in Conns : k > conn => k # conn
  BY <1>1, BoundsFact
<1>5. subscribed' \subseteq 1 .. conn
  BY <1>1, <1>3 DEF SessionInv, Conns
<1> QED
  BY <1>1, <1>2, <1>3, <1>4, <1>5 DEF SessionInv

LEMMA SessionTold ==
    ASSUME TypeInv, SessionInv, Goes, NEW m \in Incoming, Broadcast(m), UNCHANGED <<subscribed, line>>
    PROVE  SessionInv'
<1>1. /\ conn \in Conns /\ conn' = conn
      /\ in[conn] \in Seq(Incoming) /\ line[conn] \in Seq(Outgoing')
  BY GoesSequences DEF TypeInv, ReaderInv, SessionInv, Goes
<1>2. in'[conn] = in[conn] \/ in'[conn] = Append(in[conn], m)
  BY <1>1 DEF Broadcast
<1>3. in'[conn] \in Seq(Incoming')
  <2>1. Append(in[conn], m) \in Seq(Incoming)
    BY <1>1, AppendProperties
  <2> QED
    BY <1>1, <1>2, <2>1, GoesSequences
<1>4. \A k \in Conns : k > conn => in'[k] = in[k]
  <2> SUFFICES ASSUME NEW k \in Conns, k > conn PROVE in'[k] = in[k]
    OBVIOUS
  <2>1. k \notin 1 .. conn
    BY <1>1, BoundsFact
  <2>2. k \notin subscribed
    BY <2>1 DEF SessionInv
  <2> QED
    BY <2>2 DEF Broadcast
<1> QED
  BY <1>1, <1>3, <1>4 DEF SessionInv

-----------------------------------------------------------------------------
LEMMA LoginInit == Init => LoginInv
<1> SUFFICES ASSUME Init PROVE LoginInv
  OBVIOUS
<1>1. conn = 1 /\ subscribed = {1} /\ rpc = "top" /\ AuthID = 2
  BY DEF Init
<1>2. ~LoggingIn
  BY <1>1 DEF LoggingIn
<1>3. /\ Subscribed(1, 1) \in Incoming /\ Difficulty(1) \in Incoming
      /\ Notify(1, TRUE) \in Incoming /\ Reply(2, FALSE) \in Incoming
  <2>1. Subscribed(1, 1) \in Sent /\ Difficulty(1) \in Sent /\ Notify(1, TRUE) \in Sent
        /\ Reply(2, FALSE) \in Sent
    BY BoundsFact, Subscribes, Difficulties, Notifies, Replies
  <2> QED
    BY <1>1, <1>2, <2>1 DEF Incoming, Subscribed, Difficulty, Notify, Reply
<1> DEFINE first == <<Subscribed(1, 1), Difficulty(1), Notify(1, TRUE), Reply(2, FALSE)>>
<1>4. first \in Seq(Incoming)
  BY <1>3, ShortSequences, Zenon
<1>5. in = [k \in Conns |-> IF k # 1 THEN << >> ELSE first] /\ line = [k \in Conns |-> << >>]
  BY DEF Init
<1> HIDE DEF first
<1>6. in[conn] \in Seq(Incoming) /\ line[conn] \in Seq(Outgoing)
  BY <1>1, <1>4, <1>5, EmptySeq, BoundsFact
<1>7. \A k \in Conns : k > conn => in[k] = << >> /\ line[k] = << >>
  BY <1>1, <1>5
<1> QED
  BY <1>1, <1>6, <1>7 DEF LoginInv, SessionInv

LEMMA ReadKeeps == ASSUME TypeInv, LoginInv, Read PROVE LoginInv'
<1>1. /\ conn \in Conns /\ conn' = conn /\ in[conn] \in Seq(Incoming)
      /\ AuthID' = AuthID /\ rpc = "top" /\ UNCHANGED <<subscribed, line>>
  BY DEF Read, TypeInv, ReaderInv, LoginInv, SessionInv
<1>2. rpc' \in {"top", "difficulty", "coinbase", "panicked"}
  BY <1>1 DEF Read, ReadNotify, ReadDifficulty, ReadSubscribed, ReadUnnumbered, ReadReply
<1>3. Goes
  BY <1>1, <1>2, Widens DEF LoggingIn
<1>4. SessionInv'
  <2>1. CASE cut # << >>
    BY <1>1, <1>3, <2>1, PendingRead, SessionKept DEF LoginInv
  <2>2. CASE cut = << >>
    <3>1. in[conn] # << >> /\ in'[conn] = Tail(in[conn]) /\ \A k \in Conns : k # conn => in'[k] = in[k]
      BY <1>1, <2>2, PendingTypes, PendingRead DEF TypeInv, NetInv
    <3>2. in'[conn] \in Seq(Incoming')
      <4>1. Tail(in[conn]) \in Seq(Incoming)
        BY <1>1, <3>1, HeadTailProperties
      <4> QED
        BY <1>3, <3>1, <4>1, GoesSequences
    <3>3. line[conn] \in Seq(Outgoing')
      BY <1>3, GoesSequences DEF LoginInv, SessionInv
    <3>4. \A k \in Conns : k > conn => k # conn
      BY <1>1, BoundsFact
    <3> QED
      BY <1>1, <3>1, <3>2, <3>3, <3>4 DEF LoginInv, SessionInv
  <2> QED
    BY <2>1, <2>2
<1> QED
  BY <1>2, <1>4 DEF LoginInv

LEMMA ReconnectKeeps == ASSUME TypeInv, LoginInv, Reconnect PROVE LoginInv'
<1>1. /\ conn \in Conns /\ conn' = conn + 1 /\ conn' \in Conns /\ rpc' = "subscribe"
      /\ in' = [in EXCEPT ![conn] = << >>] /\ UNCHANGED <<subscribed, line>>
  BY ReconnectTypes DEF Reconnect, TypeInv, ReaderInv
<1>2. conn' > conn /\ (\A k \in Conns : k > conn' => k > conn) /\ 1 .. conn \subseteq 1 .. conn'
  BY <1>1, BoundsFact
<1>3. in[conn'] = << >> /\ line[conn'] = << >>
  BY <1>1, <1>2 DEF LoginInv, SessionInv
<1>4. \A k \in Conns : in'[k] = << >> \/ in'[k] = in[k]
  BY <1>1 DEF TypeInv, NetInv
<1>5. in'[conn'] \in Seq(Incoming') /\ line'[conn'] \in Seq(Outgoing')
  BY <1>1, <1>3, <1>4, EmptySeq
<1> QED
  BY <1>1, <1>2, <1>4, <1>5 DEF LoginInv, SessionInv

LEMMA LoginKeeps == ASSUME TypeInv, LoginInv, Login PROVE LoginInv'
<1> USE DEF LoginInv
<1>0. conn' = conn
  BY DEF Login
<1>1. CASE SubscribeNumber
  <2>1. Goes
    BY <1>0, <1>1, Widens DEF SubscribeNumber, LoggingIn
  <2> QED
    BY <1>1, <2>1, SessionKept DEF SubscribeNumber, poolVars
<1>2. CASE SubscribeCount
  <2>1. Goes
    BY <1>0, <1>2, Widens DEF SubscribeCount, LoggingIn
  <2> QED
    BY <1>2, <2>1, SessionKept DEF SubscribeCount, poolVars
<1>3. CASE AuthNumber
  <2>1. Goes
    BY <1>0, <1>3, Widens DEF AuthNumber, LoggingIn
  <2> QED
    BY <1>3, <2>1, SessionKept DEF AuthNumber, poolVars
<1>4. CASE AuthCount
  <2>1. Goes
    BY <1>0, <1>4, Widens DEF AuthCount, LoggingIn
  <2> QED
    BY <1>4, <2>1, SessionKept DEF AuthCount, poolVars
<1>5. CASE WriteFails
  <2>1. Goes
    BY <1>0, <1>5, Widens DEF WriteFails, LoggingIn
  <2> QED
    BY <1>5, <2>1, SessionKept DEF WriteFails, poolVars
<1>6. CASE Writes
  <2>1. Goes
    BY <1>0, <1>6, Widens DEF Writes, LoggingIn
  <2>2. rpc' # "authText" /\ UNCHANGED <<rid, AuthID>>
    BY <1>6 DEF Writes
  <2>3. CASE rpc = "subscribeText"
    <3>1. [kind |-> "subscribe", id |-> rid] \in Outgoing'
      BY DEF Outgoing, Text, TypeInv, ReaderInv
    <3> QED
      BY <1>6, <2>1, <2>2, <2>3, <3>1, SessionWrites DEF Writes
  <2>4. CASE rpc = "authText"
    <3>1. rpc' = "authLine" /\ WriteText([kind |-> "authorize", id |-> rid])
      BY <1>6, <2>4 DEF Writes
    <3>2. ~LoggingIn' /\ AuthID' = rid
      BY <2>2, <2>4, <3>1 DEF LoggingIn
    <3>3. [kind |-> "authorize", id |-> rid] \in Outgoing'
      BY <3>2 DEF Outgoing, Text, TypeInv, ReaderInv
    <3> QED
      BY <2>1, <2>2, <3>1, <3>3, SessionWrites
  <2>5. CASE rpc \in {"subscribeLine", "authLine"}
    BY <1>6, <2>1, <2>2, <2>5, SessionAnswers DEF Writes
  <2> QED
    BY <1>6, <2>3, <2>4, <2>5 DEF Writes
<1> QED
  BY <1>1, <1>2, <1>3, <1>4, <1>5, <1>6 DEF Login

(* The actions that leave the reader where it is.                           *)
LEMMA OthersKeep ==
    ASSUME TypeInv, LoginInv, UNCHANGED <<conn, AuthID, rpc, rid>>,
           \/ UNCHANGED <<subscribed, in, line>>
           \/ EndLine
           \/ \E i \in Nat : WriteText([kind |-> "share", id |-> i])
           \/ (\E m \in Sent : m.kind # "reply" /\ Broadcast(m)) /\ UNCHANGED <<subscribed, line>>
    PROVE  LoginInv'
<1>1. Goes
  BY Widens DEF LoggingIn
<1>2. SessionInv'
  <2>1. CASE UNCHANGED <<subscribed, in, line>>
    BY <1>1, <2>1, SessionKept DEF LoginInv
  <2>2. CASE EndLine
    BY <1>1, <2>2, SessionAnswers DEF LoginInv
  <2>3. CASE \E i \in Nat : WriteText([kind |-> "share", id |-> i])
    <3>1. PICK i \in Nat : WriteText([kind |-> "share", id |-> i])
      BY <2>3
    <3>2. [kind |-> "share", id |-> i] \in Outgoing'
      BY DEF Outgoing, Text
    <3> QED
      BY <1>1, <3>1, <3>2, SessionWrites DEF LoginInv
  <2>4. CASE (\E m \in Sent : m.kind # "reply" /\ Broadcast(m)) /\ UNCHANGED <<subscribed, line>>
    <3>1. PICK m \in Sent : m.kind # "reply" /\ Broadcast(m)
      BY <2>4
    <3>2. m \in Incoming
      BY <3>1 DEF Incoming
    <3> QED
      BY <1>1, <2>4, <3>1, <3>2, SessionTold DEF LoginInv
  <2> QED
    BY <2>1, <2>2, <2>3, <2>4
<1> QED
  BY <1>2 DEF LoginInv

LEMMA HandleKeeps == ASSUME TypeInv, LoginInv, Handle PROVE LoginInv'
<1>1. /\ conn' = conn /\ AuthID' = AuthID /\ UNCHANGED <<subscribed, in, line>>
      /\ ~LoggingIn' /\ rpc' # "authText"
  BY DEF Handle, NotifyCoinbase, NotifyRest, NotifyClean, DifficultyClean, poolVars, LoggingIn
<1>2. Goes
  BY <1>1, Widens
<1> QED
  BY <1>1, <1>2, SessionKept DEF LoginInv

LEMMA SubmitterKeeps == ASSUME TypeInv, LoginInv, Submitter PROVE LoginInv'
<1>1. UNCHANGED <<conn, AuthID, rpc, rid>>
  BY DEF Submitter, readerVars
<1>2. \/ UNCHANGED <<subscribed, in, line>>
      \/ EndLine
      \/ \E i \in Nat : WriteText([kind |-> "share", id |-> i])
  BY DEF Submitter, Find, Count, Number, Check, SubmitFails, Submit, poolVars, TypeInv, SubmitInv
<1> QED
  BY <1>1, <1>2, OthersKeep

LEMMA PoolKeeps ==
    ASSUME TypeInv, LoginInv, NewJob \/ NewDifficulty \/ PoolAsks PROVE LoginInv'
<1>1. UNCHANGED <<conn, AuthID, rpc, rid, subscribed, line>>
  BY DEF NewJob, NewDifficulty, PoolAsks, readerVars
<1>2. \E m \in Sent : m.kind # "reply" /\ Broadcast(m)
  <2>1. CASE NewJob
    <3>1. PICK clean \in BOOLEAN : Broadcast(Notify(poolJob + 1, clean))
      BY <2>1 DEF NewJob
    <3>2. poolJob + 1 \in 1 .. MaxJob
      BY <2>1, BoundsAssumption DEF NewJob, TypeInv, NetInv
    <3>3. Notify(poolJob + 1, clean) \in Sent /\ Notify(poolJob + 1, clean).kind # "reply"
      BY <3>2, Notifies DEF Notify
    <3> QED
      BY <3>1, <3>3
  <2>2. CASE NewDifficulty
    <3>1. Broadcast(Difficulty(poolDiff + 1))
      BY <2>2 DEF NewDifficulty
    <3>2. poolDiff + 1 \in 1 .. MaxDiff
      BY <2>2, BoundsAssumption DEF NewDifficulty, TypeInv, NetInv
    <3>3. Difficulty(poolDiff + 1) \in Sent /\ Difficulty(poolDiff + 1).kind # "reply"
      BY <3>2, Difficulties DEF Difficulty
    <3> QED
      BY <3>1, <3>3
  <2>3. CASE PoolAsks
    BY <2>3, Requests DEF PoolAsks
  <2> QED
    BY <2>1, <2>2, <2>3
<1> QED
  BY <1>1, <1>2, OthersKeep

LEMMA LoginStep == TypeInv /\ LoginInv /\ [Next]_vars => LoginInv'
<1> SUFFICES ASSUME TypeInv, LoginInv, [Next]_vars PROVE LoginInv'
  OBVIOUS
<1>1. CASE Listener \/ Device \/ (\E k \in Conns : Break(k)) \/ UNCHANGED vars
  <2>1. UNCHANGED <<conn, AuthID, rpc, rid, subscribed, in, line>>
    BY <1>1 DEF Listener, Device, Break, vars, poolVars, readerVars
  <2> QED
    BY <2>1, OthersKeep
<1> QED
  BY <1>1, ReadKeeps, HandleKeeps, ReconnectKeeps, LoginKeeps, SubmitterKeeps, PoolKeeps
     DEF Next, Reader

LEMMA LoginInvariant == Spec => []LoginInv
<1>1. TypeInv /\ LoginInv /\ [Next]_vars => LoginInv'
  BY LoginStep
<1> QED
  BY <1>1, LoginInit, TypeInvariant, PTL DEF Spec

(* The answer to mining.authorize carries AuthID whenever it can be read on *)
(* its connection, so that it is not counted; what the reader counts beside *)
(* the answers to shares are requests of the pool, and a line that a read   *)
(* error cut off.                                                           *)
THEOREM LoginNeverCounted == Spec => LoginNotCounted
<1>1. TypeInv /\ LoginInv /\ [Next]_vars =>
        [counted' # counted /\ cut = << >> => ~LoginAnswer(Head(in[conn]))]_vars
  <2> SUFFICES ASSUME TypeInv, LoginInv, Next, counted' # counted, cut = << >>,
                      LoginAnswer(Head(in[conn]))
               PROVE  FALSE
    OBVIOUS
  <2>1. Read
    BY DEF Next, Reader, Handle, Reconnect, Login, Listener, Device, Submitter, NewJob,
           NewDifficulty, PoolAsks, Break, readerVars
  <2> DEFINE m == Head(in[conn])
  <2>2. in[conn] # << >> /\ m = Head(Pending)
    BY <2>1, PendingTypes, PendingRead
  <2>3. m \in Incoming
    BY <2>2, HeadTailProperties DEF LoginInv, SessionInv
  <2>4. ReadNotify(m) \/ ReadDifficulty(m) \/ ReadSubscribed(m) \/ ReadReply(m) \/ ReadUnnumbered(m)
    BY <2>1, <2>2 DEF Read
  <2>5. m.kind = "reply" /\ ~m.flag
    BY DEF LoginAnswer
  <2> HIDE DEF m
  <2>6. m.id = AuthID /\ m # Unnumbered
    BY <2>3, <2>5 DEF Incoming, Unnumbered
  <2>7. ReadReply(m)
    BY <2>4, <2>5, <2>6 DEF ReadNotify, ReadDifficulty, ReadSubscribed, ReadUnnumbered
  <2> QED
    BY <2>6, <2>7 DEF ReadReply
<1> QED
  BY <1>1, TypeInvariant, LoginInvariant, PTL DEF Spec, LoginNotCounted
-----------------------------------------------------------------------------
(* Why a clean job reaches the device whole.  The reader writes PoolWork in *)
(* three groups; once it has written Clean they are of the same job.        *)

Writing == rpc \in {"coinbase", "rest", "clean"}

Uniform ==
    /\ PoolWork.CB = IF rpc = "coinbase" THEN PoolWork.Rest ELSE PoolWork.JobID
    /\ rpc \notin {"coinbase", "rest"} => PoolWork.Rest = PoolWork.JobID
    /\ Writing => rmsg.kind = "notify" /\ PoolWork.JobID = rmsg.n

OfJob(w) == w.cb = PoolWork.JobID /\ w.job = PoolWork.JobID /\ w.rest = PoolWork.JobID

(* The last notification the reader handled was a clean one.                *)
Announced == rmsg.kind = "notify" /\ rmsg.flag /\ ~Writing

(* What the listener copied since it cleared the mark is of that job.       *)
CopyInv ==
    Announced /\ ~PoolWork.Clean =>
        /\ lpc = "copyJob" => copy.cb = PoolWork.JobID
        /\ lpc = "copyRest" => copy.cb = PoolWork.JobID /\ copy.job = PoolWork.JobID
        /\ lpc = "send" => OfJob(copy)
        /\ lpc = "poll" => OfJob(IF newWork # NoWork THEN newWork ELSE dev)

WholeInv == Uniform /\ CopyInv

(* A clean job that was handled is still marked, is on its way to the       *)
(* device, or is what the device computes, with no field of another job.    *)
CleanJobArrives ==
    Announced => PoolWork.Clean \/ lpc # "poll" \/ newWork # NoWork \/ OfJob(dev)

LEMMA WholeInit == Init => WholeInv
BY DEF Init, WholeInv, Uniform, CopyInv, Announced, Writing, Reply

LEMMA WholeRead == ASSUME TypeInv, WholeInv, Read PROVE WholeInv'
<1> DEFINE m == Head(Pending)
<1>1. m \in Sent
  BY PendingRead
<1>2. /\ rpc = "top" /\ UNCHANGED listenVars /\ UNCHANGED deviceVars
      /\ ReadNotify(m) \/ ReadDifficulty(m) \/ ReadSubscribed(m) \/ ReadReply(m) \/ ReadUnnumbered(m)
  BY DEF Read
<1> HIDE DEF m
<1>3. CASE ReadNotify(m)
  BY <1>2, <1>3 DEF ReadNotify, WholeInv, Uniform, CopyInv, Announced, Writing, TypeInv, PoolWorks
<1>4. CASE ~ReadNotify(m)
  <2>1. /\ rpc' \in {"top", "difficulty", "panicked"} /\ rmsg' = rmsg
        /\ PoolWork' = PoolWork \/ PoolWork' = [PoolWork EXCEPT !.Nonce1 = m.n]
    BY <1>2, <1>4 DEF ReadDifficulty, ReadSubscribed, ReadUnnumbered, ReadReply
  <2> QED
    BY <1>2, <2>1 DEF WholeInv, Uniform, CopyInv, OfJob, Announced, Writing, TypeInv, PoolWorks,
                      listenVars, deviceVars
<1> QED
  BY <1>3, <1>4

LEMMA WholeHandle == ASSUME TypeInv, WholeInv, Handle PROVE WholeInv'
<1> USE DEF Handle, WholeInv, Uniform, CopyInv, Announced, Writing, TypeInv, PoolWorks
<1>1. CASE NotifyCoinbase
  BY <1>1 DEF NotifyCoinbase
<1>2. CASE NotifyRest
  BY <1>2 DEF NotifyRest
<1>3. CASE NotifyClean
  BY <1>3 DEF NotifyClean
<1>4. CASE DifficultyClean
  BY <1>4 DEF DifficultyClean
<1> QED
  BY <1>1, <1>2, <1>3, <1>4

LEMMA WholeListener == ASSUME TypeInv, WholeInv, Listener PROVE WholeInv'
<1>1. /\ UNCHANGED <<rpc, rmsg, dev>> /\ lpc # lpc'
      /\ PoolWork' = PoolWork \/ (lpc' = "take" /\ PoolWork' = [PoolWork EXCEPT !.Clean = FALSE])
  BY DEF Listener, Poll, ClearClean, Take, CopyCoinbase, CopyJob, CopyRest, Send, deviceVars
<1>2. Uniform'
  BY <1>1 DEF WholeInv, Uniform, Writing, TypeInv, PoolWorks
<1>3. ASSUME Announced', ~PoolWork'.Clean, lpc' \in {"copyJob", "copyRest", "send", "poll"}
      PROVE  /\ lpc' = "copyJob" => copy'.cb = PoolWork'.JobID
             /\ lpc' = "copyRest" => copy'.cb = PoolWork'.JobID /\ copy'.job = PoolWork'.JobID
             /\ lpc' = "send" => OfJob(copy)'
             /\ lpc' = "poll" => OfJob(IF newWork # NoWork THEN newWork ELSE dev)'
  <2>1. PoolWork' = PoolWork /\ Announced /\ ~PoolWork.Clean
        /\ PoolWork.CB = PoolWork.JobID /\ PoolWork.Rest = PoolWork.JobID
    BY <1>1, <1>3 DEF Announced, Writing, WholeInv, Uniform
  <2>2. CASE CopyCoinbase
    BY <2>1, <2>2 DEF CopyCoinbase, NoWork
  <2>3. CASE CopyJob
    BY <2>1, <2>3 DEF CopyJob, WholeInv, CopyInv, TypeInv, ListenInv, Work
  <2>4. CASE CopyRest
    BY <2>1, <2>4 DEF CopyRest, WholeInv, CopyInv, OfJob, TypeInv, ListenInv, Work
  <2>5. CASE Send
    <3>1. newWork' # NoWork
      BY <2>5 DEF Send, TypeInv, ListenInv, NoWork
    <3> QED
      BY <2>1, <2>5, <3>1 DEF Send, WholeInv, CopyInv, OfJob
  <2> QED
    BY <1>3, <2>2, <2>3, <2>4, <2>5 DEF Listener, Poll, ClearClean, Take
<1> QED
  BY <1>2, <1>3 DEF WholeInv, CopyInv

LEMMA WholeStep == TypeInv /\ WholeInv /\ [Next]_vars => WholeInv'
<1> SUFFICES ASSUME TypeInv, WholeInv, [Next]_vars PROVE WholeInv'
  OBVIOUS
<1>1. CASE Reconnect \/ Login
  <2>1. /\ ~Writing /\ ~Writing' /\ rpc' \notin {"coinbase", "rest"}
        /\ UNCHANGED <<rmsg, PoolWork, listenVars, deviceVars>>
    BY <1>1 DEF Reconnect, Login, SubscribeNumber, SubscribeCount, AuthNumber, AuthCount,
                WriteFails, Writes, Writing
  <2> QED
    BY <2>1 DEF WholeInv, Uniform, CopyInv, OfJob, Announced, Writing, listenVars, deviceVars
<1>2. CASE Device
  BY <1>2 DEF Device, readerVars, WholeInv, Uniform, CopyInv, OfJob, Announced, Writing
<1>3. CASE Submitter \/ NewJob \/ NewDifficulty \/ PoolAsks \/ (\E k \in Conns : Break(k)) \/ UNCHANGED vars
  <2>1. UNCHANGED <<readerVars, listenVars, deviceVars>>
    BY <1>3 DEF Submitter, NewJob, NewDifficulty, PoolAsks, Break, vars
  <2> QED
    BY <2>1 DEF readerVars, listenVars, deviceVars, WholeInv, Uniform, CopyInv, OfJob, Announced,
                Writing
<1> QED
  BY <1>1, <1>2, <1>3, WholeRead, WholeHandle, WholeListener DEF Next, Reader

(* A clean job reaches the device with every field of that job, wherever    *)
(* the listener's look at PoolWork falls among the reader's writes, and     *)
(* over any number of new connections.                                      *)
THEOREM CleanJobAlwaysArrives == Spec => []CleanJobArrives
<1>1. WholeInv => CleanJobArrives
  BY DEF WholeInv, CopyInv, CleanJobArrives
<1>2. TypeInv /\ WholeInv /\ [Next]_vars => WholeInv'
  BY WholeStep
<1> QED
  BY <1>1, <1>2, WholeInit, TypeInvariant, PTL DEF Spec

-----------------------------------------------------------------------------
(* Why a difficulty reaches the device.  Jobs come in the order of their    *)
(* numbers, over all the connections; only a clean one can come again.      *)

Later(m, n) == m.kind = "notify" => IF m.flag THEN n <= m.n ELSE n < m.n

InOrder(q, low, high) ==
    \A i \in 1 .. Len(q) :
        /\ Later(q[i], low)
        /\ q[i].kind = "notify" => q[i].n <= high
        /\ \A h \in 1 .. i - 1 : q[h].kind = "notify" => Later(q[i], q[h].n)

OrderInv ==
    /\ taken <= PoolWork.JobID /\ PoolWork.JobID <= poolJob
    /\ InOrder(Pending, PoolWork.JobID, poolJob)

LEMMA OrderTail ==
    ASSUME NEW q \in Seq(Sent), q # << >>, NEW low \in Nat, NEW high \in Nat, InOrder(q, low, high),
           NEW to \in {low, Head(q).n}, to = low \/ Head(q).kind = "notify"
    PROVE  /\ Head(q) = q[1] /\ Later(q[1], low) /\ (q[1].kind = "notify" => q[1].n <= high)
           /\ q[1].kind = "notify" => to \in Nat
           /\ InOrder(Tail(q), to, high)
<1>1. /\ Len(q) \in Nat \ {0} /\ Head(q) = q[1] /\ Len(Tail(q)) = Len(q) - 1
      /\ \A i \in 1 .. Len(q) - 1 : Tail(q)[i] = q[i + 1]
      /\ \A i \in 1 .. Len(q) : q[i].n \in Nat
  BY DEF Sent, Message
<1>2. ASSUME NEW i \in 1 .. Len(q) - 1
      PROVE  /\ Later(q[i + 1], to)
             /\ q[i + 1].kind = "notify" => q[i + 1].n <= high
             /\ \A h \in 1 .. i - 1 : q[h + 1].kind = "notify" => Later(q[i + 1], q[h + 1].n)
  <2>1. i + 1 \in 1 .. Len(q) /\ 1 \in 1 .. (i + 1) - 1 /\ \A h \in 1 .. i - 1 : h + 1 \in 1 .. (i + 1) - 1
    BY <1>1
  <2> QED
    BY <1>1, <2>1 DEF InOrder
<1> QED
  BY <1>1, <1>2 DEF InOrder

(* A message of no older job is put at the end.                             *)
LEMMA OrderAppend ==
    ASSUME NEW q \in Seq(Sent), NEW low \in Nat, NEW high \in Nat, InOrder(q, low, high), low <= high,
           NEW top \in Nat, high <= top, NEW m \in Sent,
           m.kind = "notify" => m.n <= top /\ IF m.flag THEN high <= m.n ELSE high < m.n
    PROVE  InOrder(Append(q, m), low, top)
<1>1. /\ Len(q) \in Nat /\ Len(Append(q, m)) = Len(q) + 1 /\ Append(q, m)[Len(q) + 1] = m
      /\ \A i \in 1 .. Len(q) : Append(q, m)[i] = q[i] /\ q[i].n \in Nat
      /\ m.n \in Nat
  BY DEF Sent, Message
<1>2. ASSUME NEW i \in 1 .. Len(q)
      PROVE  /\ Later(q[i], low) /\ (q[i].kind = "notify" => q[i].n <= top)
             /\ \A h \in 1 .. i - 1 : h \in 1 .. Len(q) /\ (q[h].kind = "notify" => Later(q[i], q[h].n))
  BY <1>1 DEF InOrder
<1>3. Later(m, low) /\ \A h \in 1 .. Len(q) : q[h].kind = "notify" => Later(m, q[h].n)
  <2>1. \A h \in 1 .. Len(q) : q[h].kind = "notify" => q[h].n <= high
    BY DEF InOrder
  <2> QED
    BY <1>1, <2>1 DEF Later
<1> HIDE DEF Later
<1> DEFINE r == Append(q, m)
<1> SUFFICES ASSUME NEW i \in 1 .. Len(r)
             PROVE  /\ Later(r[i], low) /\ (r[i].kind = "notify" => r[i].n <= top)
                    /\ \A h \in 1 .. i - 1 : r[h].kind = "notify" => Later(r[i], r[h].n)
  BY DEF InOrder
<1>4. CASE i \in 1 .. Len(q)
  BY <1>1, <1>2, <1>4
<1>5. CASE i = Len(q) + 1
  BY <1>1, <1>3, <1>5
<1> QED
  BY <1>1, <1>4, <1>5

(* So are the answers of the pool, which name its newest job.               *)
LEMMA OrderAnswers ==
    ASSUME NEW q \in Seq(Sent), NEW low \in Nat, poolJob \in Nat, InOrder(q, low, poolJob),
           low <= poolJob, NEW t \in Text, NEW k \in Conns, Answers(k, t) \in Seq(Sent)
    PROVE  InOrder(q \o Answers(k, t), low, poolJob)
<1> DEFINE a == Answers(k, t)
           r == q \o a
<1>1. \A i \in 1 .. Len(a) : a[i].kind = "notify" => a[i].flag /\ a[i].n = poolJob
  BY DEF Answers, Text, Subscribed, Difficulty, Notify, Reply
<1> HIDE DEF a
<1>2. /\ Len(q) \in Nat /\ Len(a) \in Nat /\ Len(r) = Len(q) + Len(a)
      /\ \A i \in 1 .. Len(q) : r[i] = q[i] /\ q[i].n \in Nat
      /\ \A i \in 1 .. Len(r) : i > Len(q) => r[i] = a[i - Len(q)] /\ i - Len(q) \in 1 .. Len(a)
  BY DEF a, Sent, Message
<1> HIDE DEF r
<1>3. ASSUME NEW i \in 1 .. Len(r), i > Len(q), r[i].kind = "notify"
      PROVE  r[i].flag /\ r[i].n = poolJob
  BY <1>1, <1>2, <1>3
<1>4. ASSUME NEW i \in 1 .. Len(r), r[i].kind = "notify"
      PROVE  r[i].n <= poolJob
  <2>1. CASE i \in 1 .. Len(q)
    BY <1>2, <1>4, <2>1 DEF InOrder
  <2>2. CASE i > Len(q)
    BY <1>3, <1>4, <2>2
  <2> QED
    BY <1>2, <2>1, <2>2
<1>5. ASSUME NEW i \in 1 .. Len(r)
      PROVE  Later(r[i], low) /\ \A h \in 1 .. i - 1 : r[h].kind = "notify" => Later(r[i], r[h].n)
  <2>1. CASE i \in 1 .. Len(q)
    <3>1. \A h \in 1 .. i - 1 : h \in 1 .. Len(q) /\ r[h] = q[h]
      BY <1>2, <2>1
    <3>2. r[i] = q[i]
      BY <1>2, <2>1
    <3>3. Later(q[i], low) /\ \A h \in 1 .. i - 1 : q[h].kind = "notify" => Later(q[i], q[h].n)
      BY <2>1 DEF InOrder
    <3> QED
      BY <3>1, <3>2, <3>3
  <2>2. CASE i > Len(q)
    <3>1. \A h \in 1 .. i - 1 : h \in 1 .. Len(r)
      BY <1>2
    <3> QED
      BY <1>3, <1>4, <2>2, <3>1 DEF Later
  <2> QED
    BY <1>2, <2>1, <2>2
<1> QED
  BY <1>4, <1>5 DEF InOrder, r, a

LEMMA OrderTypes ==
    ASSUME TypeInv
    PROVE  /\ conn \in Conns /\ in[conn] \in Seq(Sent) /\ in \in [Conns -> Seq(Sent)]
           /\ poolJob \in Nat /\ PoolWork \in PoolWorks /\ PoolWork.JobID \in Nat /\ taken \in Nat
           /\ Pending \in Seq(Sent)
BY PendingTypes, BoundsAssumption DEF TypeInv, NetInv, ReaderInv, ListenInv, PoolWorks

LEMMA OrderInit == Init => OrderInv
<1> SUFFICES ASSUME Init PROVE OrderInv
  OBVIOUS
<1> DEFINE first == <<Subscribed(1, 1), Difficulty(1), Notify(1, TRUE), Reply(2, FALSE)>>
<1>1. taken = 0 /\ PoolWork.JobID = 0 /\ poolJob = 1 /\ conn = 1
  BY DEF Init
<1>2. Pending = first
  <2>1. in[1] = first /\ cut = << >>
    BY BoundsFact DEF Init
  <2> QED
    BY <1>1, <2>1, TypeInit, PendingTypes
<1>3. /\ Len(first) = 4 /\ first[1].kind # "notify" /\ first[2].kind # "notify"
      /\ first[3].kind = "notify" /\ first[3].flag /\ first[3].n = 1 /\ first[4].kind # "notify"
  BY DEF Subscribed, Difficulty, Notify, Reply
<1> HIDE DEF first
<1>4. ASSUME NEW i \in 1 .. 4, first[i].kind = "notify" PROVE i = 3
  BY <1>3, <1>4
<1>5. InOrder(first, 0, 1)
  <2> SUFFICES ASSUME NEW i \in 1 .. 4
               PROVE  /\ Later(first[i], 0) /\ (first[i].kind = "notify" => first[i].n <= 1)
                      /\ \A h \in 1 .. i - 1 : first[h].kind = "notify" => Later(first[i], first[h].n)
    BY <1>3 DEF InOrder
  <2>1. CASE first[i].kind = "notify"
    <3>1. i = 3 /\ \A h \in 1 .. 2 : first[h].kind # "notify"
      BY <1>4, <2>1
    <3> QED
      BY <1>3, <3>1 DEF Later
  <2>2. CASE first[i].kind # "notify"
    BY <2>2 DEF Later
  <2> QED
    BY <2>1, <2>2
<1> QED
  BY <1>1, <1>2, <1>5 DEF OrderInv

(* What the handling of a message does to the job: it is the newer one, and *)
(* another one unless it is clean.                                          *)
LEMMA JobRead ==
    ASSUME TypeInv, OrderInv, Read
    PROVE  /\ OrderInv' /\ PoolWork.JobID <= PoolWork'.JobID
           /\ PoolWork'.Clean = PoolWork.Clean
           /\ \/ rpc' = "difficulty" /\ PoolWork'.JobID = PoolWork.JobID
              \/ rpc' \in {"top", "panicked"} /\ PoolWork'.JobID = PoolWork.JobID /\ Target' = Target
              \/ /\ rpc' = "coinbase" /\ Target' = Target
                 /\ rmsg'.flag \/ PoolWork.JobID < PoolWork'.JobID
<1> DEFINE m == Head(Pending)
<1>1. m \in Sent /\ Pending # << >> /\ Pending' = Tail(Pending)
  BY PendingRead
<1>2. /\ rpc = "top" /\ UNCHANGED <<conn, poolJob, taken>>
      /\ ReadNotify(m) \/ ReadDifficulty(m) \/ ReadSubscribed(m) \/ ReadReply(m) \/ ReadUnnumbered(m)
  BY DEF Read, listenVars
<1>4. /\ m = Pending[1] /\ Later(m, PoolWork.JobID) /\ (m.kind = "notify" => m.n <= poolJob)
      /\ InOrder(Tail(Pending), PoolWork.JobID, poolJob)
      /\ m.kind = "notify" => m.n \in Nat /\ InOrder(Tail(Pending), m.n, poolJob)
  <2>1. InOrder(Pending, PoolWork.JobID, poolJob)
    BY DEF OrderInv
  <2>2. /\ m = Pending[1] /\ Later(m, PoolWork.JobID) /\ (m.kind = "notify" => m.n <= poolJob)
        /\ InOrder(Tail(Pending), PoolWork.JobID, poolJob)
    BY <1>1, <2>1, OrderTypes, OrderTail
  <2>3. ASSUME m.kind = "notify" PROVE m.n \in Nat /\ InOrder(Tail(Pending), m.n, poolJob)
    BY <1>1, <2>1, <2>2, <2>3, OrderTypes, OrderTail
  <2> QED
    BY <2>2, <2>3
<1>5. m.flag \in BOOLEAN
  BY <1>1 DEF Sent, Message
<1> HIDE DEF m
<1>6. CASE ReadNotify(m)
  <2>1. /\ m.kind = "notify" /\ PoolWork' = [PoolWork EXCEPT !.JobID = m.n] /\ rpc' = "coinbase" /\ rmsg' = m
        /\ Target' = Target
    BY <1>2, <1>6 DEF ReadNotify
  <2>2. PoolWork'.JobID = m.n /\ PoolWork'.Clean = PoolWork.Clean
    BY <2>1, OrderTypes DEF PoolWorks
  <2>3. PoolWork.JobID <= m.n /\ (m.flag \/ PoolWork.JobID < m.n)
    BY <1>4, <2>1, OrderTypes DEF Later
  <2>4. OrderInv'
    BY <1>1, <1>2, <1>4, <2>1, <2>2, <2>3, OrderTypes DEF OrderInv
  <2> QED
    BY <2>1, <2>2, <2>3, <2>4
<1>7. CASE ~ReadNotify(m)
  <2>1. /\ PoolWork' = PoolWork \/ PoolWork' = [PoolWork EXCEPT !.Nonce1 = m.n]
        /\ rpc' = "difficulty" \/ (rpc' \in {"top", "panicked"} /\ Target' = Target)
    BY <1>2, <1>7 DEF ReadDifficulty, ReadSubscribed, ReadUnnumbered, ReadReply
  <2>2. PoolWork'.JobID = PoolWork.JobID /\ PoolWork'.Clean = PoolWork.Clean
    BY <2>1, OrderTypes DEF PoolWorks
  <2>3. OrderInv'
    BY <1>1, <1>2, <1>4, <2>2 DEF OrderInv
  <2> QED
    BY <2>1, <2>2, <2>3, OrderTypes
<1> QED
  BY <1>6, <1>7

(* What comes on the connection comes after what the reader has.            *)
LEMMA PendingGrows ==
    ASSUME TypeInv, UNCHANGED <<cut, conn>>
    PROVE  /\ in'[conn] = in[conn] => Pending' = Pending
           /\ \A a \in Seq(Sent) : in'[conn] = in[conn] \o a => Pending' = Pending \o a
           /\ \A m \in Sent : in'[conn] = Append(in[conn], m) => Pending' = Append(Pending, m)
<1>1. Pending' = cut \o in'[conn] /\ Pending = cut \o in[conn]
  BY DEF Pending
<1>2. cut \in Seq(Sent) /\ in[conn] \in Seq(Sent) /\ Pending \in Seq(Sent)
  BY PendingTypes
<1>3. ASSUME NEW a \in Seq(Sent), in'[conn] = in[conn] \o a PROVE Pending' = Pending \o a
  <2> DEFINE q == in[conn]
  <2>1. cut \in Seq(Sent) /\ q \in Seq(Sent)
    BY <1>2
  <2> HIDE DEF q
  <2>2. cut \o (q \o a) = (cut \o q) \o a
    BY <2>1, ConcatAssociative
  <2> QED
    BY <1>1, <1>3, <2>2 DEF q
<1>4. ASSUME NEW m \in Sent, in'[conn] = Append(in[conn], m) PROVE Pending' = Append(Pending, m)
  <2>1. <<m>> \in Seq(Sent)
    BY ShortSequences
  <2>2. in'[conn] = in[conn] \o <<m>>
    BY <1>2, <1>4, AppendIsConcat
  <2>3. Pending' = Pending \o <<m>>
    BY <1>3, <2>1, <2>2
  <2> QED
    BY <1>2, <2>3, AppendIsConcat
<1> QED
  BY <1>1, <1>3, <1>4

LEMMA OrderNewJob == ASSUME TypeInv, OrderInv, NewJob PROVE OrderInv'
<1>1. PICK clean \in BOOLEAN : Broadcast(Notify(poolJob + 1, clean))
  BY DEF NewJob
<1>2. poolJob' = poolJob + 1 /\ poolJob + 1 \in 1 .. MaxJob /\ UNCHANGED <<cut, conn, taken, PoolWork>>
  BY BoundsAssumption DEF NewJob, TypeInv, NetInv, readerVars, listenVars
<1> DEFINE m == Notify(poolJob + 1, clean)
<1>3. m \in Sent /\ m.kind = "notify" /\ m.n = poolJob + 1
  BY <1>2, Notifies DEF Notify
<1> HIDE DEF m
<1>4. Pending' = Pending \/ Pending' = Append(Pending, m)
  <2>1. in'[conn] = in[conn] \/ in'[conn] = Append(in[conn], m)
    BY <1>1, OrderTypes DEF Broadcast, m
  <2> QED
    BY <1>2, <1>3, <2>1, PendingGrows
<1>5. InOrder(Append(Pending, m), PoolWork.JobID, poolJob + 1)
  <2>1. /\ InOrder(Pending, PoolWork.JobID, poolJob) /\ PoolWork.JobID <= poolJob
        /\ Pending \in Seq(Sent) /\ PoolWork.JobID \in Nat /\ poolJob \in Nat
    BY OrderTypes DEF OrderInv
  <2>2. poolJob + 1 \in Nat /\ poolJob <= poolJob + 1 /\ m.n <= poolJob + 1 /\ poolJob <= m.n /\ poolJob < m.n
    BY <1>3, <2>1
  <2> QED
    BY <1>3, <2>1, <2>2, OrderAppend
<1>6. InOrder(Pending, PoolWork.JobID, poolJob + 1)
  <2>1. \A x \in Sent : x.n \in Nat
    BY DEF Sent, Message
  <2>2. \A i \in 1 .. Len(Pending) : Pending[i].n \in Nat
    BY <2>1, OrderTypes
  <2> QED
    BY <2>2, OrderTypes DEF OrderInv, InOrder
<1>7. taken <= PoolWork.JobID /\ PoolWork.JobID <= poolJob + 1
  BY OrderTypes DEF OrderInv
<1>8. InOrder(Pending', PoolWork'.JobID, poolJob')
  BY <1>2, <1>4, <1>5, <1>6
<1> QED
  BY <1>2, <1>7, <1>8 DEF OrderInv

(* A difficulty and a request of the pool are no job.                       *)
LEMMA OrderTold ==
    ASSUME TypeInv, OrderInv, NEW m \in Sent, m.kind # "notify", Broadcast(m),
           UNCHANGED <<cut, conn, poolJob, taken, PoolWork>>
    PROVE  OrderInv'
<1>1. Pending' = Pending \/ Pending' = Append(Pending, m)
  <2>1. in'[conn] = in[conn] \/ in'[conn] = Append(in[conn], m)
    BY OrderTypes DEF Broadcast
  <2> QED
    BY <2>1, PendingGrows
<1>2. InOrder(Append(Pending, m), PoolWork.JobID, poolJob)
  BY OrderTypes, OrderAppend DEF OrderInv
<1> QED
  BY <1>1, <1>2 DEF OrderInv

LEMMA OrderNewDifficulty == ASSUME TypeInv, OrderInv, NewDifficulty \/ PoolAsks PROVE OrderInv'
<1>1. UNCHANGED <<cut, conn, poolJob, taken, PoolWork>>
  BY DEF NewDifficulty, PoolAsks, readerVars, listenVars
<1>2. \E m \in Sent : m.kind # "notify" /\ Broadcast(m)
  <2>1. CASE NewDifficulty
    <3>1. Broadcast(Difficulty(poolDiff + 1)) /\ poolDiff + 1 \in 1 .. MaxDiff
      BY <2>1, BoundsAssumption DEF NewDifficulty, TypeInv, NetInv
    <3>2. Difficulty(poolDiff + 1) \in Sent /\ Difficulty(poolDiff + 1).kind # "notify"
      BY <3>1, Difficulties DEF Difficulty
    <3> QED
      BY <3>1, <3>2
  <2>2. CASE PoolAsks
    BY <2>2, Requests DEF PoolAsks
  <2> QED
    BY <2>1, <2>2
<1> QED
  BY <1>1, <1>2, OrderTold

LEMMA OrderAnswered ==
    ASSUME TypeInv, OrderInv, EndLine, UNCHANGED <<cut, conn, taken, PoolWork>>
    PROVE  OrderInv'
<1>1. poolJob' = poolJob
  BY DEF EndLine
<1>2. in'[conn] = in[conn] \/ \E t \in Text : in'[conn] = in[conn] \o Answers(conn, t)
  <2>1. CASE conn \in up /\ Len(line[conn]) = 1
    <3>1. line[conn] \in Seq(Text) /\ line[conn] # << >>
      <4>1. line[conn] \in Seq(Text)
        BY DEF TypeInv, NetInv, ReaderInv
      <4>2. Len(<< >>) = 0
        OBVIOUS
      <4>3. line[conn] = << >> => Len(line[conn]) = 0
        BY <4>2, Zenon
      <4> QED
        BY <2>1, <4>1, <4>3
    <3>2. Head(line[conn]) \in Text
      BY <3>1, HeadTailProperties
    <3>3. in' = [in EXCEPT ![conn] = in[conn] \o Answers(conn, Head(line[conn]))]
      BY <2>1 DEF EndLine
    <3> QED
      BY <3>2, <3>3, OrderTypes
  <2>2. CASE ~(conn \in up /\ Len(line[conn]) = 1)
    BY <2>2 DEF EndLine
  <2> QED
    BY <2>1, <2>2
<1>3. ASSUME NEW t \in Text
      PROVE  Answers(conn, t) \in Seq(Sent) /\ InOrder(Pending \o Answers(conn, t), PoolWork.JobID, poolJob)
  BY OrderTypes, AnswersTyped, OrderAnswers DEF OrderInv
<1>4. Pending' = Pending \/ \E t \in Text : Pending' = Pending \o Answers(conn, t)
  BY <1>2, <1>3, PendingGrows
<1> QED
  BY <1>1, <1>3, <1>4 DEF OrderInv

(* The actions that leave what the reader handles next as it is.            *)
LEMMA OrderKept ==
    ASSUME TypeInv, OrderInv, Pending' = Pending, poolJob' = poolJob,
           PoolWork'.JobID = PoolWork.JobID, taken' = taken \/ taken' = PoolWork.JobID
    PROVE  OrderInv'
<1>1. taken' <= PoolWork.JobID
  BY OrderTypes DEF OrderInv
<1> QED
  BY <1>1 DEF OrderInv

(* The line that a read error cuts off is the next one of its connection.   *)
LEMMA OrderReconnect ==
    ASSUME TypeInv, LoginInv, OrderInv, Reconnect
    PROVE  OrderInv'
<1>1. /\ conn' = conn + 1 /\ conn' \in Conns /\ UNCHANGED <<poolJob, taken, PoolWork>>
      /\ in' = [in EXCEPT ![conn] = << >>]
      /\ cut = << >> /\ Pending = in[conn]
      /\ cut' = << >> \/ (in[conn] # << >> /\ cut' = <<Head(in[conn])>>)
  BY ReconnectTypes, PendingTypes DEF Reconnect, listenVars, TypeInv, ReaderInv
<1>2. conn' > conn
  <2>1. conn \in Conns
    BY OrderTypes
  <2>2. conn \in Nat
    BY <2>1, BoundsFact, Zenon
  <2> QED
    BY <1>1, <2>2
<1>3. in'[conn'] = << >>
  BY <1>1, <1>2 DEF LoginInv, SessionInv, TypeInv, NetInv
<1>4. Pending' = cut'
  <2>1. cut' = << >> \/ \E m \in Sent : cut' = <<m>>
    BY <1>1, OrderTypes, HeadTailProperties
  <2>2. cut' \in Seq(Sent)
    BY <2>1, EmptySeq, ShortSequences
  <2> QED
    BY <1>3, <2>2, ConcatEmptySeq DEF Pending
<1>5. CASE cut' = << >>
  BY <1>1, <1>4, <1>5 DEF OrderInv, InOrder
<1>6. CASE in[conn] # << >> /\ cut' = <<Head(in[conn])>>
  <2> DEFINE m == Head(in[conn])
             q == cut'
  <2>1. m = Pending[1] /\ Later(m, PoolWork.JobID) /\ (m.kind = "notify" => m.n <= poolJob)
    BY <1>1, <1>6, OrderTypes, OrderTail DEF OrderInv
  <2>2. Len(q) = 1 /\ q[1] = m
    BY <1>6
  <2> HIDE DEF m, q
  <2>3. InOrder(q, PoolWork.JobID, poolJob)
    <3>1. \A i \in 1 .. Len(q) : i = 1 /\ 1 .. i - 1 = {}
      BY <2>2
    <3> QED
      BY <2>1, <2>2, <3>1 DEF InOrder
  <2> QED
    BY <1>1, <1>4, <2>3 DEF OrderInv, q
<1> QED
  BY <1>1, <1>5, <1>6

LEMMA OrderStep ==
    ASSUME TypeInv, LoginInv, OrderInv, [Next]_vars
    PROVE  OrderInv' /\ PoolWork.JobID <= PoolWork'.JobID
<1> USE OrderTypes
<1>1. CASE Read
  BY <1>1, JobRead
<1>2. CASE ~Read
  <2>1. PoolWork'.JobID = PoolWork.JobID
    BY <1>2 DEF Next, Reader, Handle, NotifyCoinbase, NotifyRest, NotifyClean, DifficultyClean,
         Reconnect, Login, Listener, Poll, ClearClean, Take, CopyCoinbase, CopyJob, CopyRest, Send,
         Device, Submitter, NewJob, NewDifficulty, PoolAsks, Break, vars, readerVars, PoolWorks
  <2>2. CASE Handle \/ Listener \/ Device \/ (\E k \in Conns : Break(k)) \/ UNCHANGED vars
    <3>1. /\ UNCHANGED <<in, cut, conn, poolJob>>
          /\ taken' = taken \/ taken' = PoolWork.JobID
      BY <2>2 DEF Handle, Listener, Poll, ClearClean, Take, CopyCoinbase, CopyJob, CopyRest, Send,
           Device, Break, vars, poolVars, readerVars, listenVars
    <3> QED
      BY <2>1, <3>1, PendingGrows, OrderKept
  <2>3. CASE Reconnect
    BY <2>1, <2>3, OrderReconnect
  <2>4. CASE Login \/ Submitter
    <3>1. UNCHANGED <<cut, conn, PoolWork, taken>>
      BY <2>4 DEF Login, Submitter, readerVars, listenVars
    <3>2. UNCHANGED <<in, poolJob>> \/ EndLine
      BY <2>4 DEF Login, SubscribeNumber, SubscribeCount, AuthNumber, AuthCount, WriteFails, Writes,
           WriteText, Submitter, Find, Count, Number, Check, SubmitFails, Submit, poolVars
    <3> QED
      BY <3>1, <3>2, PendingGrows, OrderKept, OrderAnswered
  <2>5. CASE NewJob \/ NewDifficulty \/ PoolAsks
    BY <2>1, <2>5, OrderNewJob, OrderNewDifficulty
  <2> QED
    BY <1>2, <2>1, <2>2, <2>3, <2>4, <2>5 DEF Next, Reader
<1> QED
  BY <1>1, <1>2

LEMMA OrderInvariant == Spec => []OrderInv
<1>1. TypeInv /\ LoginInv /\ OrderInv /\ [Next]_vars => OrderInv'
  BY OrderStep
<1> QED
  BY <1>1, OrderInit, TypeInvariant, LoginInvariant, PTL DEF Spec

(* The job in PoolWork never gives way to an older one, over any number of  *)
(* new connections.                                                         *)
THEOREM JobsNeverGoBack == Spec => [][PoolWork.JobID <= PoolWork'.JobID]_vars
<1>1. TypeInv /\ LoginInv /\ OrderInv /\ [Next]_vars => [PoolWork.JobID <= PoolWork'.JobID]_vars
  BY OrderStep
<1> QED
  BY <1>1, TypeInvariant, LoginInvariant, OrderInvariant, PTL DEF Spec

-----------------------------------------------------------------------------
(* The device computes with another target than the session's, and nothing  *)
(* is on its way to it.                                                     *)
Waits == devTarget # Target /\ lpc = "poll" /\ newWork = NoWork

TargetInv ==
    Waits => \/ rpc = "difficulty" \/ PoolWork.JobID # taken
             \/ PoolWork.Clean /\ (Writing => rmsg.flag)

(* Then the listener's next look takes the work once more (as soon as there *)
(* is a whole one), or the reader is about to set the mark that makes it.   *)
TargetArrives == Waits => Takes \/ PoolWork.Rest = 0 \/ rpc = "difficulty"

LEMMA TargetStep ==
    ASSUME TypeInv, LoginInv, OrderInv, TargetInv, [Next]_vars
    PROVE  TargetInv'
<1> SUFFICES ASSUME Waits' PROVE TargetInv'
  BY DEF TargetInv
<1>0. /\ PoolWork \in PoolWorks /\ taken \in Nat /\ PoolWork.JobID \in Nat
      /\ taken <= PoolWork.JobID
  BY OrderTypes DEF OrderInv
<1>1. CASE Read
  <2>1. /\ UNCHANGED <<devTarget, lpc, newWork, taken>> /\ ~Writing /\ rpc # "difficulty"
    BY <1>1 DEF Read, listenVars, deviceVars, Writing
  <2>2. /\ PoolWork.JobID <= PoolWork'.JobID /\ PoolWork'.Clean = PoolWork.Clean
        /\ PoolWork'.JobID \in Nat
        /\ \/ rpc' = "difficulty" /\ PoolWork'.JobID = PoolWork.JobID
           \/ rpc' \in {"top", "panicked"} /\ PoolWork'.JobID = PoolWork.JobID /\ Target' = Target
           \/ /\ rpc' = "coinbase" /\ Target' = Target
              /\ rmsg'.flag \/ PoolWork.JobID < PoolWork'.JobID
    BY <1>1, JobRead, TypeStep, OrderTypes DEF TypeInv, PoolWorks
  <2> QED
    BY <1>0, <2>1, <2>2 DEF TargetInv, Waits, Writing
<1>2. CASE Handle
  <2> USE DEF Handle, TargetInv, Waits, Writing, listenVars, deviceVars, PoolWorks
  <2>1. CASE NotifyCoinbase
    BY <1>0, <1>2, <2>1 DEF NotifyCoinbase
  <2>2. CASE NotifyRest
    BY <1>0, <1>2, <2>2 DEF NotifyRest
  <2>3. CASE NotifyClean
    BY <1>0, <1>2, <2>3 DEF NotifyClean
  <2>4. CASE DifficultyClean
    BY <1>0, <1>2, <2>4 DEF DifficultyClean
  <2> QED
    BY <1>2, <2>1, <2>2, <2>3, <2>4
<1>3. CASE Reconnect \/ Login
  <2>1. /\ rpc # "difficulty" /\ ~Writing /\ ~Writing'
        /\ UNCHANGED <<PoolWork, Target, listenVars, deviceVars>>
    BY <1>3 DEF Reconnect, Login, SubscribeNumber, SubscribeCount, AuthNumber, AuthCount,
                WriteFails, Writes, Writing
  <2> QED
    BY <2>1 DEF TargetInv, Waits, listenVars, deviceVars
<1>4. CASE Listener
  <2>1. lpc' # "poll" \/ newWork' # NoWork
    BY <1>4 DEF Listener, Poll, ClearClean, Take, CopyCoinbase, CopyJob, CopyRest, Send,
                TypeInv, ListenInv, NoWork
  <2> QED
    BY <2>1 DEF Waits
<1>5. CASE Device
  BY <1>5 DEF Device, readerVars, Waits
<1>6. CASE Submitter \/ NewJob \/ NewDifficulty \/ PoolAsks \/ (\E k \in Conns : Break(k)) \/ UNCHANGED vars
  <2>1. UNCHANGED <<readerVars, listenVars, deviceVars>>
    BY <1>6 DEF Submitter, NewJob, NewDifficulty, PoolAsks, Break, vars
  <2> QED
    BY <2>1 DEF readerVars, listenVars, deviceVars, TargetInv, Waits, Writing
<1> QED
  BY <1>1, <1>2, <1>3, <1>4, <1>5, <1>6 DEF Next, Reader

(* A difficulty the pool set is never forgotten: as long as the device has  *)
(* another target, work is on its way to it or is about to be taken.        *)
THEOREM TargetAlwaysArrives == Spec => []TargetArrives
<1>1. Init => TargetInv
  BY DEF Init, TargetInv, Waits
<1>2. TypeInv /\ LoginInv /\ OrderInv /\ TargetInv /\ [Next]_vars => TargetInv'
  BY TargetStep
<1>3. TargetInv => TargetArrives
  BY DEF TargetInv, TargetArrives, Takes
<1> QED
  BY <1>1, <1>2, <1>3, TypeInvariant, LoginInvariant, OrderInvariant, PTL DEF Spec

=============================================================================
