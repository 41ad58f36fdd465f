--------------------------- MODULE StratumSession ---------------------------
(***************************************************************************)
(* The pool's session: symbols/qitmeer/stratum.go and core/stratum.go with *)
(* the three goroutines of the robot that share it.                        *)
(*                                                                         *)
(*   pool --in[k]--> reader (Stratum.Listen, Unmarshal, handle*, Reconnect)*)
(*   reader --PoolWork--> listener (PoolGet, CopyNew) --newWork--> device  *)
(*   device --> submitter (PoolSubmit, PrepSubmit) --line[k]--> pool       *)
(*                                                                         *)
(* The lock the reader takes is taken by nobody else, so PoolWork, Target, *)
(* ID and Conn are shared without one: every access that another goroutine *)
(* can come between is a step of its own.  PoolWork's texts are numbered   *)
(* by the notification that brought them, in the three groups that the     *)
(* reader writes in this order: JobID; the coinbase (CB); all the Rest.    *)
(*                                                                         *)
(* The pool is external: it answers whole lines, announces a job and a     *)
(* difficulty when a connection subscribes, and later ones when it likes;  *)
(* and it makes requests of its own (client.get_version and the like).     *)
(***************************************************************************)
EXTENDS Integers, Sequences

CONSTANTS
    MaxConn,    \* bound: connections the miner makes; the last one does not break
    MaxJob,     \* bound: jobs the pool creates
    MaxDiff,    \* bound: difficulties the pool sets
    MaxShares,  \* bound: shares that reach the submitter
    MaxRequests,   \* bound: requests the pool makes of the miner
    RequestIDs     \* the numbers the pool gives them

ASSUME BoundsAssumption ==
    /\ MaxConn \in Nat \ {0} /\ MaxJob \in Nat \ {0} /\ MaxDiff \in Nat \ {0}
    /\ MaxShares \in Nat /\ MaxRequests \in Nat /\ RequestIDs \subseteq Nat

Conns == 1 .. MaxConn

VARIABLES
    up,            \* the connections the network has not broken
    subscribed,    \* the connections whose subscription the pool received
    poolJob, poolDiff,  \* the pool's newest job and difficulty
    requests,      \* how many requests the pool made
    line,          \* per connection: what the pool received since the last line feed
    in,            \* per connection: messages the reader has not read
    cut,           \* Listen's data after a read error: << >>, or the one line it is
    conn,          \* s.Conn and s.Reader
    ID, SubID, AuthID,
    PoolWork,      \* s.PoolWork; Rest = 0 until NewWork is set
    Target,        \* s.Target and s.Diff, as the number of the difficulty
    rpc, rid, rmsg,     \* reader: position, request number, notification at hand
    lpc, taken, copy,   \* listener: position, Work.PoolWork.JobID, CopyNew's result
    newWork,       \* the device's channel
    dev, devTarget,     \* the work and the target the device computes with
    spc, sjob, sid,     \* submitter: position, the share's job, request number
    shares,        \* shares that reached the submitter
    counted        \* s.ValidShares + s.InvalidShares

poolVars   == <<up, subscribed, poolJob, poolDiff, requests, line, in>>
readerVars == <<cut, conn, SubID, AuthID, PoolWork, Target, rpc, rid, rmsg, counted>>
listenVars == <<lpc, taken, copy, newWork>>
deviceVars == <<dev, devTarget>>
submitVars == <<spc, sjob, sid, shares>>
vars == <<poolVars, readerVars, ID, listenVars, deviceVars, submitVars>>

Message == [kind : {"subscribed", "reply", "difficulty", "notify", "request"},
            id : Nat, n : Nat, flag : BOOLEAN]
Text    == [kind : {"subscribe", "authorize", "share"}, id : Nat]
Work    == [nonce : 0 .. MaxConn, cb : 0 .. MaxJob, job : 0 .. MaxJob, rest : 0 .. MaxJob]

Subscribed(i, k) == [kind |-> "subscribed", id |-> i, n |-> k, flag |-> TRUE]
Reply(i, share)  == [kind |-> "reply", id |-> i, n |-> 0, flag |-> share]
Difficulty(d)    == [kind |-> "difficulty", id |-> 0, n |-> d, flag |-> TRUE]
Notify(j, clean) == [kind |-> "notify", id |-> 0, n |-> j, flag |-> clean]
Numbered(i)      == [kind |-> "request", id |-> i, n |-> 0, flag |-> TRUE]
Unnumbered       == [kind |-> "request", id |-> 0, n |-> 0, flag |-> FALSE]

NoWork      == [nonce |-> 0, cb |-> 0, job |-> 0, rest |-> 0]
Whole(k, j) == [nonce |-> k, cb |-> j, job |-> j, rest |-> j]

(* StratumConn has returned: the first connection is subscribed and         *)
(* authorized, and the pool has answered both.                              *)
Init ==
    /\ up = Conns /\ subscribed = {1}
    /\ poolJob = 1 /\ poolDiff = 1 /\ requests = 0
    /\ line = [k \in Conns |-> << >>]
    /\ in = [k \in Conns |-> IF k # 1 THEN << >>
             ELSE <<Subscribed(1, 1), Difficulty(1), Notify(1, TRUE), Reply(2, FALSE)>>]
    /\ cut = << >> /\ conn = 1 /\ ID = 3 /\ SubID = 1 /\ AuthID = 2
    /\ PoolWork = [Nonce1 |-> 0, CB |-> 0, JobID |-> 0, Rest |-> 0, Clean |-> FALSE]
    /\ Target = 0
    /\ rpc = "top" /\ rid = 0 /\ rmsg = Reply(0, FALSE)
    /\ lpc = "poll" /\ taken = 0 /\ copy = NoWork
    /\ newWork = NoWork /\ dev = NoWork /\ devTarget = 0
    /\ spc = "idle" /\ sjob = 0 /\ sid = 0
    /\ shares = 0 /\ counted = 0

-----------------------------------------------------------------------------
(* The pool and the network.                                                *)

Break(k) ==
    /\ k \in up /\ k < MaxConn
    /\ up' = up \ {k}
    /\ UNCHANGED <<subscribed, poolJob, poolDiff, requests, line, in>>
    /\ UNCHANGED <<readerVars, ID, listenVars, deviceVars, submitVars>>

(* What the pool broadcasts reaches the connections that are subscribed.    *)
Broadcast(m) ==
    in' = [k \in Conns |-> IF k \in up \cap subscribed THEN Append(in[k], m) ELSE in[k]]

NewJob ==
    /\ poolJob < MaxJob
    /\ poolJob' = poolJob + 1
    /\ \E clean \in BOOLEAN : Broadcast(Notify(poolJob', clean))
    /\ UNCHANGED <<up, subscribed, poolDiff, requests, line>>
    /\ UNCHANGED <<readerVars, ID, listenVars, deviceVars, submitVars>>

NewDifficulty ==
    /\ poolDiff < MaxDiff
    /\ poolDiff' = poolDiff + 1
    /\ Broadcast(Difficulty(poolDiff'))
    /\ UNCHANGED <<up, subscribed, poolJob, requests, line>>
    /\ UNCHANGED <<readerVars, ID, listenVars, deviceVars, submitVars>>

(* client.get_version comes with a number, client.show_message and          *)
(* client.reconnect come with null.                                         *)
PoolAsks ==
    /\ requests < MaxRequests
    /\ requests' = requests + 1
    /\ \E m \in {Unnumbered} \cup {Numbered(i) : i \in RequestIDs} : Broadcast(m)
    /\ UNCHANGED <<up, subscribed, poolJob, poolDiff, line>>
    /\ UNCHANGED <<readerVars, ID, listenVars, deviceVars, submitVars>>

(* s.Conn.Write of a text: it goes to whatever connection is there.         *)
WriteText(t) ==
    /\ line' = IF conn \in up THEN [line EXCEPT ![conn] = Append(@, t)] ELSE line
    /\ UNCHANGED <<up, subscribed, poolJob, poolDiff, requests, in>>

Answers(k, t) ==
    CASE t.kind = "subscribe" -> <<Subscribed(t.id, k), Difficulty(poolDiff), Notify(poolJob, TRUE)>>
      [] t.kind = "authorize" -> <<Reply(t.id, FALSE)>>
      [] t.kind = "share"     -> <<Reply(t.id, TRUE)>>

(* s.Conn.Write("\n"): the pool reads a line.  It cannot make out a line    *)
(* that is not exactly one text.                                            *)
EndLine ==
    /\ IF conn \in up /\ Len(line[conn]) = 1
       THEN LET t == Head(line[conn]) IN
            /\ in' = [in EXCEPT ![conn] = @ \o Answers(conn, t)]
            /\ subscribed' = IF t.kind = "subscribe" THEN subscribed \cup {conn} ELSE subscribed
       ELSE UNCHANGED <<in, subscribed>>
    /\ line' = IF conn \in up THEN [line EXCEPT ![conn] = << >>] ELSE line
    /\ UNCHANGED <<up, poolJob, poolDiff, requests>>

(* x++ on a counter that was read as r: the other goroutine's writes since  *)
(* then are seen or lost; such a write may itself have lost some.           *)
Increment(r) == \E i \in (r .. ID) \cup (ID .. r) : ID' = i + 1

-----------------------------------------------------------------------------
(* The reader: Listen reads a line and has it handled; after a read error   *)
(* ConnectRetry dials until it has a connection and subscribes on it, and   *)
(* then what was read before the error is handled like a line.              *)

(* The messages the reader handles next.                                    *)
Pending == cut \o in[conn]

(* A subscription with another number than the session's does not parse.    *)
ReadSubscribed(m) ==
    /\ m.kind = "subscribed"
    /\ PoolWork' = IF m.id = SubID THEN [PoolWork EXCEPT !.Nonce1 = m.n] ELSE PoolWork
    /\ UNCHANGED <<Target, counted, rpc, rmsg>>

(* Whatever else has a number is a reply (requests, too, fall to            *)
(* Unmarshal's default) and told by that number alone: with the             *)
(* subscription's it does not parse, with the authorization's it is the     *)
(* login's, with any other a share's.                                       *)
ReadReply(m) ==
    /\ m.kind \in {"reply", "request"} /\ m # Unnumbered
    /\ counted' = IF m.id \in {SubID, AuthID} THEN counted ELSE counted + 1
    /\ UNCHANGED <<PoolWork, Target, rpc, rmsg>>

(* Without a number HandleSubmitReply panics, and nothing recovers: the     *)
(* program ends.                                                            *)
ReadUnnumbered(m) ==
    /\ m = Unnumbered
    /\ rpc' = "panicked"
    /\ UNCHANGED <<PoolWork, Target, counted, rmsg>>

(* Unmarshal, mining.set_difficulty: the target first ...                   *)
ReadDifficulty(m) ==
    /\ m.kind = "difficulty"
    /\ Target' = m.n
    /\ rpc' = "difficulty"
    /\ UNCHANGED <<PoolWork, counted, rmsg>>

(* handleNotifyRes: the fields of PoolWork, one after the other             *)
ReadNotify(m) ==
    /\ m.kind = "notify"
    /\ PoolWork' = [PoolWork EXCEPT !.JobID = m.n]
    /\ rpc' = "coinbase"
    /\ rmsg' = m
    /\ UNCHANGED <<Target, counted>>

Read ==
    /\ rpc = "top" /\ Pending # << >>
    /\ cut' = << >>
    /\ in' = IF cut = << >> THEN [in EXCEPT ![conn] = Tail(@)] ELSE in
    /\ LET m == Head(Pending) IN
       \/ ReadNotify(m) \/ ReadDifficulty(m) \/ ReadSubscribed(m)
       \/ ReadReply(m) \/ ReadUnnumbered(m)
    /\ UNCHANGED <<up, subscribed, poolJob, poolDiff, requests, line>>
    /\ UNCHANGED <<conn, SubID, AuthID, rid, ID, listenVars, deviceVars, submitVars>>

NotifyCoinbase ==
    /\ rpc = "coinbase" /\ rpc' = "rest"
    /\ PoolWork' = [PoolWork EXCEPT !.CB = rmsg.n]

NotifyRest ==
    /\ rpc = "rest" /\ rpc' = "clean"
    /\ PoolWork' = [PoolWork EXCEPT !.Rest = rmsg.n]

NotifyClean ==
    /\ rpc = "clean" /\ rpc' = "top"
    /\ PoolWork' = [PoolWork EXCEPT !.Clean = rmsg.flag]

(* Fault: a new difficulty leaves the job as it is.                         *)
DifficultyKeeps ==
    /\ rpc = "difficulty" /\ rpc' = "top"
    /\ UNCHANGED PoolWork

(* ... then the mark that makes PoolGet take the job again.                 *)
DifficultyClean ==
    /\ rpc = "difficulty" /\ rpc' = "top"
    /\ PoolWork' = [PoolWork EXCEPT !.Clean = TRUE]

Handle ==
    /\ NotifyCoinbase \/ NotifyRest \/ NotifyClean \/ DifficultyClean
    /\ UNCHANGED <<poolVars, cut, conn, SubID, AuthID, Target, rid, rmsg, counted, ID>>
    /\ UNCHANGED <<listenVars, deviceVars, submitVars>>

(* ReadString fails, and Reconnect dials until it succeeds.  What was read  *)
(* before the error is nothing that parses, or a message that lacks its     *)
(* line feed only; the rest is lost with the connection.                    *)
Reconnect ==
    /\ rpc = "top" /\ cut = << >> /\ conn \notin up
    /\ cut' = << >> \/ (in[conn] # << >> /\ cut' = <<Head(in[conn])>>)
    /\ in' = [in EXCEPT ![conn] = << >>]
    /\ conn' = conn + 1
    /\ rpc' = "subscribe"
    /\ UNCHANGED <<up, subscribed, poolJob, poolDiff, requests, line>>
    /\ UNCHANGED <<SubID, AuthID, PoolWork, Target, rid, rmsg, counted, ID>>
    /\ UNCHANGED <<listenVars, deviceVars, submitVars>>

SubscribeNumber ==
    /\ rpc = "subscribe" /\ rpc' = "subscribeCount"
    /\ rid' = ID /\ SubID' = ID
    /\ UNCHANGED <<ID, AuthID, poolVars>>

SubscribeCount ==
    /\ rpc = "subscribeCount" /\ rpc' = "subscribeText"
    /\ Increment(rid)
    /\ UNCHANGED <<rid, SubID, AuthID, poolVars>>

AuthNumber ==
    /\ rpc = "auth" /\ rpc' = "authCount"
    /\ rid' = ID
    /\ UNCHANGED <<ID, SubID, AuthID, poolVars>>

(* Fault: Auth takes its number after it has counted it.                    *)
AuthCountLate ==
    /\ rpc = "authCount" /\ rpc' = "authText"
    /\ Increment(rid)
    /\ AuthID' = ID'
    /\ UNCHANGED <<rid, SubID, poolVars>>

AuthCount ==
    /\ rpc = "authCount" /\ rpc' = "authText"
    /\ Increment(rid)
    /\ AuthID' = rid
    /\ UNCHANGED <<rid, SubID, poolVars>>

(* A write to a broken connection may fail, and then Reconnect returns.     *)
WriteFails ==
    /\ rpc \in {"subscribeText", "subscribeLine", "authText", "authLine"}
    /\ conn \notin up
    /\ rpc' = "top"
    /\ UNCHANGED <<rid, ID, SubID, AuthID, poolVars>>

Writes ==
    /\ \/ rpc = "subscribeText" /\ rpc' = "subscribeLine" /\ WriteText([kind |-> "subscribe", id |-> rid])
       \/ rpc = "subscribeLine" /\ rpc' = "auth" /\ EndLine
       \/ rpc = "authText" /\ rpc' = "authLine" /\ WriteText([kind |-> "authorize", id |-> rid])
       \/ rpc = "authLine" /\ rpc' = "top" /\ EndLine
    /\ UNCHANGED <<rid, ID, SubID, AuthID>>

Login ==
    /\ SubscribeNumber \/ SubscribeCount \/ AuthNumber \/ AuthCount \/ WriteFails \/ Writes
    /\ UNCHANGED <<cut, conn, PoolWork, Target, rmsg, counted, listenVars, deviceVars, submitVars>>

Reader == Read \/ Handle \/ Reconnect \/ Login

(* The reader's panic ends the other goroutines.                            *)
Running == rpc # "panicked"

-----------------------------------------------------------------------------
(* The listener: PoolGet looks at PoolWork every TaskInterval.              *)

(* Fault: PoolGet without its first test.                                   *)
TakesUnannounced == PoolWork.Clean \/ PoolWork.JobID # taken

(* Fault: PoolGet compares the jobs only.                                   *)
TakesOtherJob == PoolWork.Rest # 0 /\ PoolWork.JobID # taken

(* NewWork has been set, and the job is to start again or is another.       *)
Takes == PoolWork.Rest # 0 /\ (PoolWork.Clean \/ PoolWork.JobID # taken)

Poll ==
    /\ lpc = "poll" /\ Takes
    /\ lpc' = "clear"
    /\ UNCHANGED <<PoolWork, taken, copy, newWork>>

ClearClean ==
    /\ lpc = "clear" /\ lpc' = "take"
    /\ PoolWork' = [PoolWork EXCEPT !.Clean = FALSE]
    /\ UNCHANGED <<taken, copy, newWork>>

Take ==
    /\ lpc = "take" /\ lpc' = "copy"
    /\ taken' = PoolWork.JobID
    /\ UNCHANGED <<PoolWork, copy, newWork>>

(* CopyNew copies the session's PoolWork, not the one just taken, field by  *)
(* field in the order of NotifyWork.                                        *)
CopyCoinbase ==
    /\ lpc = "copy" /\ lpc' = "copyJob"
    /\ copy' = [NoWork EXCEPT !.nonce = PoolWork.Nonce1, !.cb = PoolWork.CB]
    /\ UNCHANGED <<PoolWork, taken, newWork>>

CopyJob ==
    /\ lpc = "copyJob" /\ lpc' = "copyRest"
    /\ copy' = [copy EXCEPT !.job = PoolWork.JobID]
    /\ UNCHANGED <<PoolWork, taken, newWork>>

CopyRest ==
    /\ lpc = "copyRest" /\ lpc' = "send"
    /\ copy' = [copy EXCEPT !.rest = PoolWork.Rest]
    /\ UNCHANGED <<PoolWork, taken, newWork>>

Send ==
    /\ lpc = "send" /\ newWork = NoWork
    /\ lpc' = "poll"
    /\ newWork' = copy
    /\ UNCHANGED <<PoolWork, taken, copy>>

Listener ==
    /\ Running
    /\ Poll \/ ClearClean \/ Take \/ CopyCoinbase \/ CopyJob \/ CopyRest \/ Send
    /\ UNCHANGED <<poolVars, cut, conn, SubID, AuthID, Target, rpc, rid, rmsg, counted, ID>>
    /\ UNCHANGED <<deviceVars, submitVars>>

(* The device takes a work; Update reads the session's target.              *)
Device ==
    /\ Running /\ newWork # NoWork
    /\ dev' = newWork /\ newWork' = NoWork
    /\ devTarget' = Target
    /\ UNCHANGED <<poolVars, readerVars, ID, lpc, taken, copy, submitVars>>

-----------------------------------------------------------------------------
(* The submitter: PrepSubmit and the two writes of PoolSubmit.              *)

(* A share of the device's work; s.ID++ reads the counter.                  *)
Find ==
    /\ spc = "idle" /\ dev # NoWork /\ shares < MaxShares
    /\ shares' = shares + 1
    /\ spc' = "count"
    /\ sjob' = dev.job /\ sid' = ID
    /\ UNCHANGED <<poolVars, ID>>

Count ==
    /\ spc = "count" /\ spc' = "number"
    /\ Increment(sid)
    /\ UNCHANGED <<poolVars, sjob, sid, shares>>

Number ==
    /\ spc = "number" /\ spc' = "check"
    /\ sid' = ID
    /\ UNCHANGED <<poolVars, ID, sjob, shares>>

Stale == sjob # PoolWork.JobID /\ PoolWork.Clean

Check ==
    /\ spc = "check"
    /\ spc' = IF Stale THEN "idle" ELSE "text"
    /\ UNCHANGED <<poolVars, ID, sjob, sid, shares>>

SubmitFails ==
    /\ spc \in {"text", "line"} /\ conn \notin up
    /\ spc' = "idle"
    /\ UNCHANGED <<poolVars, ID, sjob, sid, shares>>

Submit ==
    /\ \/ spc = "text" /\ spc' = "line" /\ WriteText([kind |-> "share", id |-> sid])
       \/ spc = "line" /\ spc' = "idle" /\ EndLine
    /\ UNCHANGED <<ID, sjob, sid, shares>>

Submitter ==
    /\ Running
    /\ Find \/ Count \/ Number \/ Check \/ SubmitFails \/ Submit
    /\ UNCHANGED <<readerVars, listenVars, deviceVars>>

-----------------------------------------------------------------------------
Next ==
    \/ Reader \/ Listener \/ Device \/ Submitter
    \/ NewJob \/ NewDifficulty \/ PoolAsks
    \/ \E k \in Conns : Break(k)

Spec == Init /\ [][Next]_vars

(* The scheduler runs every goroutine, and Reconnect gets its connection.   *)
Fairness == WF_vars(Reader) /\ WF_vars(Listener) /\ WF_vars(Device) /\ WF_vars(Submitter)

FairSpec == Spec /\ Fairness

-----------------------------------------------------------------------------
(* The session keeps its types.  Beyond the types: a device is only given   *)
(* work when a whole notification has come (PoolGet's test of NewWork).     *)
TypeOK ==
    /\ up \subseteq Conns /\ subscribed \subseteq Conns /\ conn \in Conns
    /\ poolJob \in 1 .. MaxJob /\ poolDiff \in 1 .. MaxDiff /\ requests \in 0 .. MaxRequests
    /\ cut \in Seq(Message)
    /\ line \in [Conns -> Seq(Text)] /\ in \in [Conns -> Seq(Message)]
    /\ {ID, SubID, AuthID, rid, sid, counted} \subseteq Nat
    /\ PoolWork \in [Nonce1 : 0 .. MaxConn, CB : 0 .. MaxJob, JobID : 0 .. MaxJob,
                     Rest : 0 .. MaxJob, Clean : BOOLEAN]
    /\ Target \in 0 .. MaxDiff /\ devTarget \in 0 .. MaxDiff
    /\ rpc \in {"top", "difficulty", "coinbase", "rest", "clean", "subscribe", "subscribeCount",
                "subscribeText", "subscribeLine", "auth", "authCount", "authText", "authLine", "panicked"}
    /\ rmsg \in Message
    /\ lpc \in {"poll", "clear", "take", "copy", "copyJob", "copyRest", "send"}
    /\ taken \in 0 .. MaxJob /\ {copy, newWork, dev} \subseteq Work
    /\ spc \in {"idle", "count", "number", "check", "text", "line"}
    /\ sjob \in 0 .. MaxJob /\ shares \in 0 .. MaxShares
    /\ \A w \in {newWork, dev} : w = NoWork \/ w.rest # 0

LoginAnswer(m) == m.kind = "reply" /\ ~m.flag

(* The answer to mining.authorize is not counted as the answer to a share:  *)
(* it is told by its number only, while the numbers are taken by two        *)
(* goroutines and the session is opened again and again.  An answer that a  *)
(* read error cut off is the exception, since it is handled when AuthID is  *)
(* that of the next session already (core/stratum.go 120-131, 188-195).     *)
LoginNotCounted == [][counted' # counted /\ cut = << >> => ~LoginAnswer(Head(in[conn]))]_vars

(* A job the pool marked clean, and the current one after a change of       *)
(* difficulty, reaches the device whole and with the session's extra nonce, *)
(* however the listener's look at PoolWork falls among the reader's writes, *)
(* unless the reader has by then begun to write PoolWork again.             *)
CleanWorkArrives ==
    (rpc = "top" /\ PoolWork.Clean)
        ~> (rpc # "top" \/ dev = Whole(PoolWork.Nonce1, PoolWork.JobID))

(* A difficulty the pool set becomes the device's target: it is stored      *)
(* before Clean is set, and read after the job is delivered again; unless   *)
(* the program ends.                                                        *)
DifficultyApplied == (devTarget # Target) ~> (devTarget = Target \/ ~Running)
=============================================================================
