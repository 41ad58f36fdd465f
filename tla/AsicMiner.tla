------------------------------ MODULE AsicMiner ------------------------------
(***************************************************************************)
(* The ASIC miner (Mine of symbols/qitmeer/pow_meer_asic.go): one          *)
(* goroutine drives the chips of a board over a serial port.  It takes     *)
(* jobs from the notifier, opens the port when it first needs it, gives    *)
(* every chip a header of its own, and reads results for Timeout seconds;  *)
(* then it does so again, until there is another job.  A board that        *)
(* answers with results that solve nothing is closed and opened anew.      *)
(*                                                                         *)
(* One notifier hands out the jobs; what several of them do to each other, *)
(* and where the shares go, is the matter of JobDispatch.  A header is not *)
(* built here: a result carries whether it solves the header its chip was  *)
(* given last, and no longer does once the chip is given another.          *)
(***************************************************************************)
EXTENDS Naturals, Sequences, FiniteSets

CONSTANTS
    NumOfChips,
    Pool,          \* pool or solo
    RejectLimit,   \* NumOfChips * 1000 in the code
    FreqsParse,    \* the configured frequencies are numbers
    MaxHeight,     \* bound: heights of the chain
    EmptyAt,       \* the heights at which a template has no transactions
    Nonces,        \* the nonces the chips find
    MaxResults     \* bound: results that wait in the serial port

ASSUME BoundsAssumption ==
    /\ NumOfChips \in Nat \ {0} /\ Pool \in BOOLEAN /\ RejectLimit \in Nat \ {0}
    /\ FreqsParse \in BOOLEAN /\ MaxHeight \in Nat \ {0} /\ MaxResults \in Nat \ {0}
    /\ EmptyAt \subseteq 1 .. MaxHeight

Chips == 1 .. NumOfChips
Heights == 1 .. MaxHeight

Results == [chip : 0 .. NumOfChips, nonce : Nonces, solves : BOOLEAN]

NoResult == [chip |-> 0]

VARIABLES
    CurrentHeight,                            \* common.CurrentHeight: the last template's
    notifier, job,                            \* the notifier and the job it has in hand: its height
    newWork, HasNewWork, ForceStop, IsValid,  \* the device, shared with the notifier
    pc, Work, start, fd, reject, hasSubmit,   \* Mine and its local variables
    chip, nonces, found,                      \* the chip whose turn it is; the result that solved
    SubmitData,                               \* shares the forwarder has not taken
    forwarder,                                \* SubmitShare runs; it closes SubmitData when it ends
    quit,
    port, working, results,                   \* the board: the open port, the chips at work, the results
    sent, shares                              \* history: shares of the headers given out, and of the job

jobVars    == <<CurrentHeight, notifier, job>>
deviceVars == <<newWork, HasNewWork, ForceStop, IsValid>>
mineVars   == <<pc, Work, start, fd, reject, hasSubmit, chip, nonces, found>>
submitVars == <<SubmitData, forwarder, quit>>
boardVars  == <<port, working, results>>
history    == <<sent, shares>>
vars == <<jobVars, deviceVars, mineVars, submitVars, boardVars, history>>

Init ==
    /\ CurrentHeight = 0 /\ notifier = "idle" /\ job = 1
    /\ newWork = <<>> /\ HasNewWork = FALSE /\ ForceStop = FALSE /\ IsValid = TRUE
    /\ pc = "wait" /\ Work = job
    /\ start = FALSE /\ fd = "none" /\ reject = 0 /\ hasSubmit = FALSE
    /\ chip = 1 /\ nonces = {} /\ found = NoResult
    /\ SubmitData = 0 /\ forwarder = TRUE /\ quit = FALSE
    /\ port = 0 /\ working = {} /\ results = <<>>
    /\ sent = {} /\ shares = 0

-----------------------------------------------------------------------------
(* The notifier: ListenWork or a handler asks for a template, and           *)
(* NotifyWork hands it to the device (robot.go, device.go).                 *)

GetTemplate ==
    /\ notifier = "idle" /\ ~quit
    /\ job' \in {CurrentHeight, CurrentHeight + 1} \cap Heights
    /\ CurrentHeight' = job'
    /\ notifier' = "clear"
    /\ UNCHANGED deviceVars

(* No template: with ForceUpdate the devices are stopped.                   *)
TemplateFails ==
    /\ notifier = "idle" /\ ~quit /\ CurrentHeight > 0
    /\ notifier' = "raiseForced"
    /\ UNCHANGED <<CurrentHeight, job, deviceVars>>

(* SetForceUpdate.                                                          *)
SetForceUpdate(at, force, next) ==
    /\ notifier = at
    /\ ForceStop' = IF IsValid THEN force ELSE ForceStop
    /\ notifier' = next
    /\ UNCHANGED <<CurrentHeight, job, newWork, HasNewWork, IsValid>>

(* SetNewWork: first the flag, then the job, for which there may have to be *)
(* room first.                                                              *)
RaiseFlag(at, next, skip) ==
    /\ notifier = at
    /\ HasNewWork' = (IsValid \/ HasNewWork)
    /\ notifier' = IF IsValid THEN next ELSE skip
    /\ UNCHANGED <<CurrentHeight, job, newWork, ForceStop, IsValid>>

SendWork(at, next) ==
    /\ notifier = at /\ newWork = <<>>
    /\ newWork' = <<job>>
    /\ notifier' = next
    /\ UNCHANGED <<CurrentHeight, job, HasNewWork, ForceStop, IsValid>>

NotifyWork ==
    \/ SetForceUpdate("clear", FALSE, "raise")
    \/ RaiseFlag("raise", "send", "idle")
    \/ SendWork("send", "idle")
    \/ RaiseFlag("raiseForced", "sendForced", "stop")
    \/ SendWork("sendForced", "stop")
    \/ SetForceUpdate("stop", TRUE, "idle")

Notifier ==
    /\ GetTemplate \/ TemplateFails \/ NotifyWork
    /\ UNCHANGED <<mineVars, submitVars, boardVars, history>>

-----------------------------------------------------------------------------
PortKept == port

PortClosed == IF fd = "open" THEN port - 1 ELSE port

(* Mine returns, or panics: the deferred function closes the port.          *)
Leave(end) ==
    /\ pc' = end
    /\ port' = PortClosed
    /\ UNCHANGED <<Work, start, fd, reject, hasSubmit, chip, nonces, found>>
    /\ UNCHANGED <<newWork, HasNewWork, ForceStop, SubmitData, working, results, history>>

QuitSeenInRounds == pc \in {"round", "listen"}

QuitSeen == pc \in {"wait", "round", "listen"}

Quits == quit /\ QuitSeen /\ Leave("ended") /\ UNCHANGED IsValid

TakeWork ==
    /\ pc = "wait" /\ newWork # <<>>
    /\ Work' = Head(newWork) /\ newWork' = <<>>
    /\ pc' = "check"
    /\ UNCHANGED <<HasNewWork, ForceStop, IsValid, start, fd, reject, hasSubmit, chip, nonces, found>>
    /\ UNCHANGED <<SubmitData, boardVars, history>>

(* A job whose flag is gone is dropped.  (Only Mine clears IsValid once it  *)
(* runs, and then it ends.)                                                 *)
DropWork ==
    /\ pc = "check" /\ (ForceStop \/ ~HasNewWork)
    /\ pc' = "wait"
    /\ UNCHANGED <<deviceVars, Work, start, fd, reject, hasSubmit, chip, nonces, found>>
    /\ UNCHANGED <<SubmitData, boardVars, history>>

BeginWork ==
    /\ pc = "check" /\ ~ForceStop /\ HasNewWork
    /\ pc' = "round"
    /\ HasNewWork' = FALSE
    /\ UNCHANGED <<newWork, ForceStop, IsValid, Work, start, fd, reject, hasSubmit, chip, nonces, found>>
    /\ UNCHANGED <<SubmitData, boardVars, history>>

InterruptedByForce == ForceStop

Interrupted == HasNewWork \/ ForceStop

(* The job is left (break gotoWork), with the variables of its scope.       *)
LeaveJob(at) ==
    /\ pc = at /\ pc' = "wait"
    /\ reject' = 0 /\ hasSubmit' = FALSE /\ shares' = 0
    /\ nonces' = {} /\ chip' = 1
    /\ UNCHANGED <<deviceVars, Work, start, fd, found, SubmitData, boardVars, sent>>

LeaveRound == Interrupted /\ LeaveJob("round")

(* init_drv resets the board and opens the port, which is flushed.          *)
InitDrv ==
    /\ pc = "round" /\ ~Interrupted /\ ~quit
    /\ ~start /\ fd = "none"
    /\ fd' = "open" /\ start' = TRUE
    /\ port' = port + 1 /\ working' = {} /\ results' = <<>>
    /\ pc' = "freqs"
    /\ UNCHANGED <<deviceVars, Work, reject, hasSubmit, chip, nonces, found, SubmitData, history>>

EndsValid == UNCHANGED IsValid

EndsInvalid == IsValid' = FALSE

(* The port cannot be opened: fd is -1, and nothing is there to be closed.  *)
InitDrvFails ==
    /\ pc = "round" /\ ~Interrupted /\ ~quit
    /\ ~start /\ fd = "none"
    /\ EndsInvalid
    /\ Leave("ended")

(* A frequency that is no number ends Mine.                                 *)
SetFreqs ==
    /\ pc = "freqs"
    /\ IF FreqsParse THEN pc' = "chips" /\ UNCHANGED port
                     ELSE pc' = "ended" /\ port' = PortClosed
    /\ UNCHANGED <<deviceVars, Work, start, fd, reject, hasSubmit, chip, nonces, found>>
    /\ UNCHANGED <<SubmitData, working, results, history>>

NextRound ==
    /\ pc = "round" /\ ~Interrupted /\ ~quit
    /\ start \/ fd # "none"
    /\ pc' = "chips"
    /\ UNCHANGED <<deviceVars, Work, start, fd, reject, hasSubmit, chip, nonces, found>>
    /\ UNCHANGED <<SubmitData, boardVars, history>>

NeverStale == FALSE

Stale == Work # CurrentHeight

LeaveStale == Stale /\ LeaveJob("chips")

PastLastChip == chip > NumOfChips

LastChip == chip = NumOfChips

(* The chip gets a header of its own; what it found before solves it no     *)
(* longer.                                                                  *)
SetWork ==
    /\ pc = "chips" /\ ~Stale
    /\ working' = working \cup {chip}
    /\ results' = [i \in DOMAIN results |->
                      IF results[i].chip = chip THEN [results[i] EXCEPT !.solves = FALSE] ELSE results[i]]
    /\ sent' = {x \in sent : x[1] # chip}
    /\ IF LastChip THEN chip' = 1 /\ pc' = "listen"
                   ELSE chip' = chip + 1 /\ UNCHANGED pc
    /\ UNCHANGED <<deviceVars, Work, start, fd, reject, hasSubmit, nonces, found, SubmitData, port, shares>>

(* Timeout seconds have passed, or the round was interrupted.               *)
LeaveListen ==
    /\ pc = "listen" /\ pc' = "round"
    /\ nonces' = {}
    /\ UNCHANGED <<deviceVars, Work, start, fd, reject, hasSubmit, chip, found>>
    /\ UNCHANGED <<SubmitData, boardVars, history>>

SubmittedOnce == ~Pool /\ Work \in EmptyAt /\ hasSubmit

LeaveEmpty == ~Interrupted /\ SubmittedOnce /\ LeaveJob("listen")

Listens ==
    /\ pc = "listen" /\ ~Interrupted /\ ~quit /\ ~SubmittedOnce
    /\ results # <<>> /\ results' = Tail(results)
    /\ UNCHANGED <<deviceVars, Work, chip, working, SubmitData, sent>>

(* No chip has that number, or the nonce is there already.                  *)
SkipResult ==
    /\ Listens
    /\ Head(results).chip \notin Chips \/ Head(results).nonce \in nonces
    /\ UNCHANGED <<pc, start, fd, reject, hasSubmit, nonces, found, port, shares>>

Forgets == UNCHANGED nonces

Remember == nonces' = nonces \cup {Head(results).nonce}

NewResult ==
    /\ Listens
    /\ Head(results).chip \in Chips /\ Head(results).nonce \notin nonces

Trusted(r) == TRUE

Solves(r) == r.solves

Found ==
    /\ NewResult /\ Solves(Head(results))
    /\ Remember
    /\ found' = Head(results)
    /\ pc' = "submit"
    /\ UNCHANGED <<start, fd, reject, hasSubmit, port, shares>>

(* Only a high difficulty counts a result that solves nothing.              *)
CountReject ==
    /\ NewResult /\ ~Solves(Head(results))
    /\ Remember
    /\ \/ reject' = reject
       \/ reject' = reject + 1 /\ reject' < RejectLimit
    /\ UNCHANGED <<pc, start, fd, hasSubmit, found, port, shares>>

Uninitialised == start' = FALSE /\ fd' = "none"

(* Too many of them: the next job opens the port anew.                      *)
CloseBoard ==
    /\ NewResult /\ ~Solves(Head(results))
    /\ reject + 1 >= RejectLimit
    /\ port' = port - 1
    /\ Uninitialised
    /\ pc' = "wait"
    /\ reject' = 0 /\ hasSubmit' = FALSE /\ shares' = 0 /\ nonces' = {}
    /\ UNCHANGED found

SubmitsAgain == UNCHANGED hasSubmit

Submits == hasSubmit' = TRUE

(* this.SubmitData <- share, a channel with room for one.                   *)
SendShare ==
    /\ pc = "submit" /\ forwarder /\ SubmitData = 0
    /\ SubmitData' = 1
    /\ Submits
    /\ sent' = sent \cup {<<found.chip, found.nonce>>}
    /\ shares' = IF shares < 2 THEN shares + 1 ELSE shares
    /\ pc' = "listen" /\ found' = NoResult
    /\ UNCHANGED <<deviceVars, Work, start, fd, reject, chip, nonces, boardVars>>

(* The channel is closed: a panic, which nothing recovers here.             *)
Panics == pc = "submit" /\ ~forwarder /\ Leave("crashed") /\ UNCHANGED IsValid

Mine ==
    /\ \/ Quits \/ TakeWork \/ DropWork \/ BeginWork
       \/ LeaveRound \/ InitDrv \/ InitDrvFails \/ SetFreqs \/ NextRound
       \/ LeaveStale \/ SetWork
       \/ LeaveListen \/ LeaveEmpty \/ SkipResult \/ Found \/ CountReject \/ CloseBoard
       \/ SendShare \/ Panics
    /\ UNCHANGED <<jobVars, forwarder, quit>>

-----------------------------------------------------------------------------
(* The forwarder (SubmitShare of device.go): it closes SubmitData when it   *)
(* ends.                                                                    *)
Forward == forwarder /\ SubmitData = 1 /\ SubmitData' = 0 /\ UNCHANGED <<forwarder, quit>>

ForwarderEnds == quit /\ forwarder /\ forwarder' = FALSE /\ UNCHANGED <<SubmitData, quit>>

QuitDone == ~quit /\ quit' = TRUE /\ UNCHANGED <<SubmitData, forwarder>>

(* A chip at work reports a nonce, right or wrong, as often as it likes; a  *)
(* report may name a chip that does not exist.                              *)
Report(c, n, solves) ==
    /\ port > 0 /\ Len(results) < MaxResults
    /\ results' = Append(results, [chip |-> c, nonce |-> n, solves |-> solves])
    /\ UNCHANGED <<port, working>>

Board == \E n \in Nonces :
    \/ \E c \in working, solves \in BOOLEAN : Report(c, n, solves)
    \/ working # {} /\ Report(0, n, FALSE)

Outside ==
    /\ \/ (Forward \/ ForwarderEnds \/ QuitDone) /\ UNCHANGED boardVars
       \/ Board /\ UNCHANGED submitVars
    /\ UNCHANGED <<jobVars, deviceVars, mineVars, history>>

Next == Notifier \/ Mine \/ Outside

Spec == Init /\ [][Next]_vars

(* The scheduler; and the clock, which a round looks at before every result *)
(* it reads.  That the forwarder gets rid of its shares is assumed: when it *)
(* does not is a question for JobDispatch.  Nothing is asked of the board   *)
(* or of the notifier.                                                      *)
Fairness ==
    /\ WF_vars(Mine)
    /\ SF_vars(LeaveListen /\ Mine)
    /\ WF_vars((Forward \/ ForwarderEnds) /\ Outside)

FairSpec == Spec /\ Fairness

-----------------------------------------------------------------------------
Mining == {"round", "freqs", "chips", "listen", "submit"}

JobTypes ==
    /\ CurrentHeight \in 0 .. MaxHeight /\ job \in Heights
    /\ notifier \in {"idle", "clear", "raise", "send", "raiseForced", "sendForced", "stop"}
DeviceTypes ==
    /\ newWork \in {<<>>} \cup {<<j>> : j \in Heights}
    /\ HasNewWork \in BOOLEAN /\ ForceStop \in BOOLEAN /\ IsValid \in BOOLEAN
MineTypes ==
    /\ pc \in Mining \cup {"wait", "check", "ended", "crashed"}
    /\ Work \in Heights /\ start \in BOOLEAN /\ fd \in {"none", "open"}
    /\ reject \in 0 .. RejectLimit /\ hasSubmit \in BOOLEAN
    /\ chip \in Chips /\ nonces \subseteq Nonces
    /\ pc = "submit" => found \in Results /\ found.chip \in Chips
ShareTypes ==
    /\ SubmitData \in {0, 1} /\ forwarder \in BOOLEAN /\ quit \in BOOLEAN
    /\ sent \subseteq Chips \X Nonces /\ shares \in 0 .. 2
BoardTypes ==
    /\ port \in Nat /\ working \subseteq Chips
    /\ results \in Seq(Results) /\ Len(results) <= MaxResults

(* The types of the device's fields and of Mine's variables.                *)
TypeOK == JobTypes /\ DeviceTypes /\ MineTypes /\ ShareTypes /\ BoardTypes

(* The port is opened and closed in turn: open once while Mine has it,      *)
(* closed when the board was given up and when Mine has ended, whichever of *)
(* its returns or panics it took (lines 96-107, 154, 271).                  *)
PortPaired == port = IF fd = "open" /\ pc \notin {"ended", "crashed"} THEN 1 ELSE 0

(* Chips are given work and results are read only from an open port, after  *)
(* a board was given up and opened again too (lines 152-182, 271-275).      *)
BoardReady == pc \in {"freqs", "chips", "listen", "submit"} => start /\ port = 1

(* What is submitted solves the header its chip was given last: results     *)
(* that wait in the port from an earlier header, reports of a faulty chip   *)
(* and of a chip that does not exist never pass (lines 235-263).            *)
OnlySolutions == pc = "submit" => found.chip \in working /\ found.solves

(* No share is submitted twice: a nonce that comes again is dropped as long *)
(* as its chip has the header it was found for (lines 246, 279).            *)
NoShareTwice == pc = "submit" => <<found.chip, found.nonce>> \notin sent

(* pow_meer_asic.go:229: "empty block just can submit once".                *)
EmptyOnce == ~Pool /\ Work \in EmptyAt /\ pc \in Mining => shares <= 1

(* A miner that ended although nobody asked it to is no longer valid, so    *)
(* that SetNewWork passes it over instead of waiting for room in its        *)
(* channel (line 156, device.go:86).  A frequency that is no number is the  *)
(* exception: that return leaves the device valid (lines 167-176).          *)
EndedInvalid == FreqsParse /\ pc = "ended" /\ ~quit => ~IsValid

(* pow_meer_asic.go:146: "if has new work ,current calc stop".              *)
NewWorkStopsCalc == (HasNewWork /\ pc \in Mining) ~> pc \notin Mining

(* A job the chain has outgrown is left even when the flag of the next one  *)
(* was lost, cleared with that of the job before it (lines 132, 188).       *)
StaleWorkStops == (Work # CurrentHeight /\ pc \in Mining) ~> (Work = CurrentHeight \/ pc \notin Mining)

(* Once the program is asked to quit, Mine ends.                            *)
QuitEndsMine == quit ~> pc \in {"ended", "crashed"}
=============================================================================
