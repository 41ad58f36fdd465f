------------------------------ MODULE StatsPage ------------------------------
(***************************************************************************)
(* The statistics page (public/js/fun.js) and the parts of its jQuery it   *)
(* stands on: the script runs when the page is parsed, asks once for the   *)
(* miner's data, and when the document is ready opens a websocket, over    *)
(* which the miner sends its data again and again.  A socket that closes   *)
(* or fails is replaced after two seconds.  Every data that arrives adds   *)
(* a point to the history of each device and draws the chart anew.         *)
(*                                                                         *)
(* The server is not part of the repository and is modelled from what the  *)
(* page expects of it.  The browser runs one handler at a time; it reports *)
(* a failed socket by an error and a close, one right after the other.     *)
(***************************************************************************)
EXTENDS Naturals, Sequences, FiniteSets, SequencesExt

CONSTANTS
    Devices,      \* the names of devices
    Points,       \* the points of a history, 10 in the code
    MaxEntries,   \* bound: devices in one message
    MaxTimers     \* bound: timers that run

ASSUME PageAssumption ==
    Points \in Nat \ {0} /\ MaxEntries \in Nat /\ MaxTimers \in Nat

(* A list of devices: the miner gives all of its CPU devices one name, so   *)
(* a name may come more than once (core/device.go:67).                      *)
Data == UNION {[1 .. n -> Devices] : n \in 0 .. MaxEntries}

VARIABLES
    request,             \* of getMinerData, as its Deferred has it
    isReady,             \* jQuery.isReady
    isConnect, timers,   \* reconnectServer: its flag, and the timers that call it
    sockets,             \* the sockets the page made that are not closed, in that order
    seriesData,          \* the length of each device's history, 0 if there is none
    shown, timespans,    \* the data drawn last, and the labels of the chart's axis
    up                   \* the miner can be reached

connection == <<isConnect, timers, sockets>>
chart      == <<seriesData, shown, timespans>>
vars == <<request, isReady, connection, chart, up>>

Init ==
    /\ request = "none" /\ isReady = FALSE
    /\ isConnect = FALSE /\ timers = 0 /\ sockets = <<>>
    /\ seriesData = [d \in Devices |-> 0] /\ shown = <<>> /\ timespans = Points
    /\ up \in BOOLEAN

-----------------------------------------------------------------------------
(* The chart.                                                               *)

PushOnly(n) == n + 1

(* A history that is full loses its first point.                            *)
PushPoint(n) == IF n >= Points THEN Points ELSE n + 1

SliceFull(labels, n) == labels

(* timespans.slice(10 - n, 10).                                             *)
Slice(labels, n) == IF labels > Points - n THEN labels - (Points - n) ELSE 0

AddSample(drawn, d) ==
    LET n == PushPoint(drawn.series[d]) IN
    [series |-> [drawn.series EXCEPT ![d] = n],
     labels |-> IF n < Points THEN Slice(drawn.labels, n) ELSE drawn.labels]

(* The loop over the list of devices.                                       *)
Drawn(data) ==
    LET after[n \in 0 .. Len(data)] ==
            IF n = 0 THEN [series |-> seriesData, labels |-> Points]
            ELSE AddSample(after[n - 1], data[n])
    IN  after[Len(data)]

renderStats(data) ==
    /\ seriesData' = Drawn(data).series
    /\ timespans' = Drawn(data).labels
    /\ shown' = data

(* needSec in days, hours, minutes and seconds.                             *)
CalcDistance(second) ==
    LET s       == IF second <= 0 THEN 120 ELSE second
        minutes == s \div 60
        hours   == IF minutes > 60 THEN minutes \div 60 ELSE 0
    IN [day    |-> IF hours > 24 THEN hours \div 24 ELSE 0,
        hour   |-> IF hours > 24 THEN hours % 24 ELSE hours,
        minute |-> IF minutes > 60 THEN minutes % 60 ELSE minutes,
        second |-> s % 60]

-----------------------------------------------------------------------------
(* The request for the miner's data.                                        *)

getMinerData ==
    /\ request = "none" /\ request' = "pending"
    /\ UNCHANGED <<isReady, connection, chart, up>>

(* Data that lacks a part ends the handler with an exception before it      *)
(* draws; an answer that is no JSON, an error and a broken connection       *)
(* reject, for which the page has no handler.                               *)
Resolve ==
    /\ request' = "resolved"
    /\ (\E data \in Data : renderStats(data)) \/ UNCHANGED chart

Reject == request' = "rejected" /\ UNCHANGED chart

Answered ==
    /\ request = "pending"
    /\ Resolve \/ Reject
    /\ UNCHANGED <<isReady, connection, up>>

-----------------------------------------------------------------------------
(* The websocket.                                                           *)

ConnectsAgain == isConnect' = TRUE /\ sockets' = Append(sockets, "connecting")

reconnectServer ==
    IF isConnect THEN UNCHANGED <<isConnect, sockets>>
    ELSE isConnect' = TRUE /\ sockets' = Append(sockets, "connecting")

ready ==
    /\ request # "none" /\ ~isReady /\ isReady' = TRUE
    /\ reconnectServer
    /\ UNCHANGED <<request, timers, chart, up>>

TimerFires ==
    /\ timers > 0 /\ timers' = timers - 1
    /\ reconnectServer
    /\ UNCHANGED <<request, isReady, chart, up>>

StaysConnected(handlers) == timers' = timers + handlers /\ UNCHANGED isConnect

NoTimer(handlers) == isConnect' = FALSE /\ UNCHANGED timers

(* onclose, and onerror before it: each sets a timer and clears the flag.   *)
Lost(handlers) == timers' = timers + handlers /\ isConnect' = FALSE

SocketEnds(i, handlers) ==
    /\ ~up /\ timers + handlers <= MaxTimers
    /\ sockets' = RemoveAt(sockets, i)
    /\ Lost(handlers)
    /\ UNCHANGED <<request, isReady, chart, up>>

SocketFails  == \E i \in DOMAIN sockets : SocketEnds(i, 2)
SocketCloses == \E i \in DOMAIN sockets : sockets[i] = "open" /\ SocketEnds(i, 1)

onopen ==
    /\ up
    /\ \E i \in DOMAIN sockets :
        sockets[i] = "connecting" /\ sockets' = [sockets EXCEPT ![i] = "open"]
    /\ UNCHANGED <<request, isReady, isConnect, timers, chart, up>>

onmessage ==
    /\ \E i \in DOMAIN sockets : sockets[i] = "open"
    /\ \E data \in Data : renderStats(data)
    /\ UNCHANGED <<request, isReady, connection, up>>

Miner == up' = ~up /\ UNCHANGED <<request, isReady, connection, chart>>

Next ==
    \/ getMinerData \/ Answered
    \/ ready \/ TimerFires \/ SocketFails \/ SocketCloses \/ onopen \/ onmessage
    \/ Miner

Spec == Init /\ [][Next]_vars

(* The browser parses the page, runs its timers and opens its sockets.      *)
Fairness ==
    WF_vars(getMinerData) /\ WF_vars(ready) /\ WF_vars(TimerFires) /\ WF_vars(onopen)

FairSpec == Spec /\ Fairness

-----------------------------------------------------------------------------
(* The types, and a history never has more than Points points.              *)
TypeOK ==
    /\ request \in {"none", "pending", "resolved", "rejected"} /\ isReady \in BOOLEAN
    /\ isConnect \in BOOLEAN /\ timers \in 0 .. MaxTimers
    /\ sockets \in Seq({"connecting", "open"})
    /\ seriesData \in [Devices -> 0 .. Points]
    /\ shown \in Data /\ timespans \in 0 .. Points
    /\ up \in BOOLEAN

(* The page has at most one socket, although a failed one starts two timers *)
(* that both call reconnectServer (lines 245-266): no message is drawn      *)
(* twice.                                                                   *)
OneSocket == Len(sockets) = IF isConnect THEN 1 ELSE 0

(* A page whose socket is gone has a timer that makes another.              *)
TimerArmed == isReady /\ sockets = <<>> => timers > 0

(* The axis has no label without a point, and with one device a label for   *)
(* every point (lines 55-57).  With several young devices it loses labels,  *)
(* as each of them slices what the one before has left.                     *)
AxisFits ==
    /\ \A i \in DOMAIN shown : timespans <= seriesData[shown[i]]
    /\ Len(shown) = 1 => timespans = seriesData[shown[1]]

(* When the miner is reachable again for good, the page is connected for    *)
(* good.                                                                    *)
ComesBack == <>[]up => <>[](sockets = <<"open">>)
=============================================================================
