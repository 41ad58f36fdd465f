--------------------------- MODULE StatsPageProofs ---------------------------
(***************************************************************************)
(* Proofs about StatsPage: for any number of devices, points and timers    *)
(* the page has at most one socket, and a timer when it has none; however  *)
(* long the lists of devices it is sent, the axis of its chart has no      *)
(* label without a point; and what it prints of the seconds it is told     *)
(* loses none of them.                                                     *)
(***************************************************************************)
EXTENDS StatsPage, WellFoundedInduction, TLAPS

USE DEF connection, chart

Connected ==
    /\ isReady \in BOOLEAN /\ isConnect \in BOOLEAN /\ timers \in Nat
    /\ sockets \in Seq({"connecting", "open"})

PInv == Connected /\ OneSocket /\ TimerArmed

-----------------------------------------------------------------------------
LEMMA Nothing == <<>> \in Seq({"connecting", "open"}) /\ Len(<<>>) = 0
OBVIOUS

(* To remove the only element leaves nothing.                               *)
LEMMA RemoveOnly ==
    ASSUME NEW S, NEW s \in Seq(S), Len(s) <= 1, NEW i \in DOMAIN s
    PROVE  RemoveAt(s, i) = <<>>
<1>1. i = 1 /\ Len(s) = 1
  <2>1. Len(s) \in Nat /\ DOMAIN s = 1 .. Len(s)
    OBVIOUS
  <2>2. i \in 1 .. Len(s)
    BY <2>1
  <2> QED BY <2>1, <2>2
<1>2. SubSeq(s, 1, 0) = <<>> /\ SubSeq(s, 2, 1) = <<>>
  OBVIOUS
<1> QED BY <1>1, <1>2 DEF RemoveAt

(* A socket is made only when there is none.                                *)
LEMMA Reconnect ==
    ASSUME Connected, OneSocket, reconnectServer
    PROVE  isConnect' \in BOOLEAN /\ sockets' \in Seq({"connecting", "open"})
           /\ OneSocket' /\ sockets' # <<>>
<1>1. CASE isConnect
  BY <1>1 DEF reconnectServer, Connected, OneSocket
<1>2. CASE ~isConnect
  <2>1. isConnect' = TRUE /\ sockets' = Append(sockets, "connecting") /\ Len(sockets) = 0
    BY <1>2 DEF reconnectServer, OneSocket
  <2> QED BY <2>1 DEF Connected, OneSocket
<1> QED BY <1>1, <1>2

LEMMA ConnectionStep == PInv /\ [Next]_vars => PInv'
<1> SUFFICES ASSUME PInv, [Next]_vars PROVE PInv'
  OBVIOUS
<1> USE DEF PInv
<1>1. CASE ready
  <2>1. isReady' \in BOOLEAN /\ timers' \in Nat /\ reconnectServer
    BY <1>1 DEF ready, Connected
  <2> QED BY <2>1, Reconnect DEF Connected, TimerArmed
<1>2. CASE TimerFires
  <2>1. isReady' \in BOOLEAN /\ timers' \in Nat /\ reconnectServer
    BY <1>2 DEF TimerFires, Connected
  <2> QED BY <2>1, Reconnect DEF Connected, TimerArmed
<1>3. ASSUME NEW i \in DOMAIN sockets, NEW handlers \in {1, 2}, SocketEnds(i, handlers)
      PROVE  PInv'
  <2>1. sockets' = <<>> /\ isConnect' = FALSE /\ timers' = timers + handlers
    <3>1. sockets \in Seq({"connecting", "open"}) /\ Len(sockets) <= 1
      BY DEF Connected, OneSocket
    <3>2. RemoveAt(sockets, i) = <<>>
      BY <3>1, RemoveOnly
    <3> QED BY <1>3, <3>2 DEF SocketEnds, Lost
  <2>2. timers' \in Nat /\ timers' > 0 /\ isReady' \in BOOLEAN
    BY <1>3, <2>1 DEF Connected, SocketEnds
  <2>3. sockets' \in Seq({"connecting", "open"}) /\ Len(sockets') = 0
    BY <2>1, Nothing
  <2>4. Connected'
    BY <2>1, <2>2, <2>3 DEF Connected
  <2>5. OneSocket'
    BY <2>1, <2>3 DEF OneSocket
  <2>6. TimerArmed'
    BY <2>2 DEF TimerArmed
  <2> QED BY <2>4, <2>5, <2>6
<1>4. CASE SocketFails \/ SocketCloses
  BY <1>3, <1>4 DEF SocketFails, SocketCloses
<1>5. CASE onopen
  <2> PICK i \in DOMAIN sockets : sockets' = [sockets EXCEPT ![i] = "open"]
    BY <1>5 DEF onopen
  <2>1. sockets' \in Seq({"connecting", "open"}) /\ Len(sockets') = Len(sockets)
    BY DEF Connected
  <2>2. UNCHANGED <<isReady, isConnect, timers>>
    BY <1>5 DEF onopen
  <2> QED BY <2>1, <2>2 DEF Connected, OneSocket, TimerArmed
<1>6. CASE getMinerData \/ Answered \/ onmessage \/ Miner \/ UNCHANGED vars
  <2>1. UNCHANGED <<isReady, isConnect, timers, sockets>>
    BY <1>6 DEF getMinerData, Answered, onmessage, Miner, vars
  <2> QED BY <2>1 DEF Connected, OneSocket, TimerArmed
<1> QED BY <1>1, <1>2, <1>4, <1>5, <1>6 DEF Next

LEMMA ConnectionInvariant == Spec => []PInv
<1>1. Init => PInv
  <2> SUFFICES ASSUME Init PROVE PInv
    OBVIOUS
  <2>1. sockets = <<>> /\ timers = 0 /\ isReady = FALSE /\ isConnect = FALSE
    BY DEF Init
  <2>2. sockets \in Seq({"connecting", "open"}) /\ Len(sockets) = 0
    BY <2>1, Nothing
  <2>3. Connected
    BY <2>1, <2>2 DEF Connected
  <2>4. OneSocket
    BY <2>1, <2>2 DEF OneSocket
  <2>5. TimerArmed
    BY <2>1 DEF TimerArmed
  <2> QED BY <2>3, <2>4, <2>5 DEF PInv
<1> QED BY <1>1, ConnectionStep, PTL DEF Spec

(* However the sockets fail and whatever timers run, the page has one       *)
(* socket at most (fun.js:245-266).                                         *)
THEOREM OneSocketAtMost == Spec => []OneSocket
<1>1. PInv => OneSocket
  BY DEF PInv
<1> QED BY <1>1, ConnectionInvariant, PTL

(* A page without a socket has a timer that makes one (fun.js:254-266).     *)
THEOREM TimerAlwaysArmed == Spec => []TimerArmed
<1>1. PInv => TimerArmed
  BY DEF PInv
<1> QED BY <1>1, ConnectionInvariant, PTL


-----------------------------------------------------------------------------
(* The chart.  Drawn is a loop, written as a recursive function; what it    *)
(* keeps is shown by induction on the number of entries it has been over:   *)
(* of the numbers that break a claim one would be the least.                *)

(* A set of natural numbers has a least element.                            *)
LEMMA LeastElement ==
    ASSUME NEW T, T \subseteq Nat, T # {}
    PROVE  \E m \in T : \A k \in T : m <= k
<1> DEFINE R == OpToRel(<, Nat)
<1>1. IsWellFoundedOn(R, Nat)
  BY NatLessThanWellFounded
<1>2. \A a, b \in Nat : a < b => <<a, b>> \in R
  BY DEF OpToRel
<1> HIDE DEF R
<1>3. PICK m \in T : \A k \in T : <<k, m>> \notin R
  BY <1>1, WFMin
<1>4. \A k \in T : m <= k
  <2> SUFFICES ASSUME NEW k \in T PROVE m <= k
    OBVIOUS
  <2>1. k \in Nat /\ m \in Nat
    OBVIOUS
  <2>2. ~(k < m)
    BY <1>2, <1>3, <2>1
  <2> QED BY <2>1, <2>2
<1> QED
  BY <1>4

Before == [series |-> seriesData, labels |-> Points]

(* The first N passes of the loop over data.                                *)
Passes(g, N, data) ==
    g = [n \in 0 .. N |-> IF n = 0 THEN Before ELSE AddSample(g[n - 1], data[n])]

(* The loop is defined: one more pass is always possible.                   *)
LEMMA DrawnPasses ==
    ASSUME NEW N \in Nat, NEW data
    PROVE  \E g : Passes(g, N, data)
<1> DEFINE T == {m \in Nat : ~\E g : Passes(g, m, data)}
<1> SUFFICES ASSUME T # {} PROVE FALSE
  OBVIOUS
<1>1. PICK m \in T : \A k \in T : m <= k
  <2>1. T \subseteq Nat
    OBVIOUS
  <2> HIDE DEF T
  <2> QED BY <2>1, LeastElement
<1>2. m # 0
  <2>1. Passes([n \in 0 .. 0 |-> Before], 0, data)
    BY DEF Passes
  <2> QED BY <2>1
<1>3. m - 1 \in Nat /\ m - 1 \notin T
  BY <1>1, <1>2
<1>4. PICK g : Passes(g, m - 1, data)
  BY <1>3
<1> DEFINE h == [n \in 0 .. m |-> IF n < m THEN g[n] ELSE AddSample(g[m - 1], data[m])]
<1>5. Passes(h, m, data)
  <2> DEFINE k == [n \in 0 .. m |-> IF n = 0 THEN Before ELSE AddSample(h[n - 1], data[n])]
  <2>1. ASSUME NEW n \in 0 .. m PROVE h[n] = k[n]
    <3>1. CASE n = 0
      <4>1. h[n] = g[0] /\ k[n] = Before
        BY <1>2, <3>1
      <4>2. g[0] = Before
        BY <1>3, <1>4 DEF Passes
      <4> QED BY <4>1, <4>2
    <3>2. CASE n # 0 /\ n < m
      <4>1. n - 1 \in 0 .. m /\ n - 1 < m /\ n \in 0 .. m - 1
        BY <3>2
      <4>2. h[n] = g[n] /\ h[n - 1] = g[n - 1]
        BY <3>2, <4>1
      <4>3. g[n] = AddSample(g[n - 1], data[n])
        BY <1>4, <3>2, <4>1 DEF Passes
      <4>4. k[n] = AddSample(h[n - 1], data[n])
        BY <3>2
      <4> QED BY <4>2, <4>3, <4>4
    <3>3. CASE n = m
      <4>1. n # 0 /\ n - 1 \in 0 .. m /\ n - 1 < m
        BY <1>2, <3>3
      <4>2. h[n - 1] = g[m - 1] /\ h[n] = AddSample(g[m - 1], data[m])
        BY <3>3, <4>1
      <4>3. k[n] = AddSample(h[n - 1], data[n])
        BY <4>1
      <4> QED BY <3>3, <4>2, <4>3
    <3> QED BY <3>1, <3>2, <3>3
  <2>2. h = k
    BY <2>1
  <2> QED BY <2>2 DEF Passes
<1> QED BY <1>5

(* What Drawn is.                                                           *)
LEMMA DrawnIs ==
    ASSUME NEW data, Len(data) \in Nat
    PROVE  \E g : Passes(g, Len(data), data) /\ Drawn(data) = g[Len(data)]
<1> DEFINE f == CHOOSE g : Passes(g, Len(data), data)
<1>1. Passes(f, Len(data), data)
  BY DrawnPasses
<1>2. Drawn(data) = f[Len(data)]
  BY DEF Drawn, Passes, Before
<1> QED BY <1>1, <1>2

(* What one entry of the list does.                                         *)
Charted(drawn) ==
    /\ drawn.series \in [Devices -> 0 .. Points]
    /\ drawn.labels \in 0 .. Points

LEMMA AddSampleKeeps ==
    ASSUME NEW drawn, Charted(drawn), NEW d \in Devices
    PROVE  LET after == AddSample(drawn, d) IN
           /\ Charted(after)
           /\ after.labels <= drawn.labels /\ after.labels <= after.series[d]
           /\ \A e \in Devices : drawn.series[e] <= after.series[e]
           /\ drawn.labels = Points => after.labels = after.series[d]
<1> DEFINE n == PushPoint(drawn.series[d])
           after == AddSample(drawn, d)
<1>1. Points \in Nat \ {0}
  BY PageAssumption
<1>2. drawn.series[d] \in 0 .. Points /\ drawn.labels \in 0 .. Points
  BY DEF Charted
<1>3. n \in 1 .. Points /\ drawn.series[d] <= n
  BY <1>1, <1>2 DEF PushPoint
<1>4. after.series = [drawn.series EXCEPT ![d] = n]
  BY DEF AddSample
<1>5. after.labels = IF n < Points THEN Slice(drawn.labels, n) ELSE drawn.labels
  BY DEF AddSample
<1> HIDE DEF n, after
<1>6. after.series \in [Devices -> 0 .. Points] /\ after.series[d] = n
  BY <1>3, <1>4 DEF Charted
<1>7. \A e \in Devices : drawn.series[e] <= after.series[e]
  <2> SUFFICES ASSUME NEW e \in Devices PROVE drawn.series[e] <= after.series[e]
    OBVIOUS
  <2>1. drawn.series[e] \in 0 .. Points
    BY DEF Charted
  <2> QED BY <1>1, <1>3, <1>4, <2>1 DEF Charted
<1>8. /\ after.labels \in 0 .. Points
      /\ after.labels <= drawn.labels /\ after.labels <= n
      /\ drawn.labels = Points => after.labels = n
  <2>1. CASE n < Points
    BY <1>1, <1>2, <1>3, <1>5, <2>1 DEF Slice
  <2>2. CASE n = Points
    BY <1>1, <1>2, <1>5, <2>2
  <2> QED BY <1>1, <1>3, <2>1, <2>2
<1> QED BY <1>6, <1>7, <1>8 DEF Charted, after

(* After n passes no label lacks a point of the devices seen so far.        *)
Fits(drawn, n, data) ==
    Charted(drawn) /\ \A i \in 1 .. n : drawn.labels <= drawn.series[data[i]]

LEMMA PassesFit ==
    ASSUME Charted(Before), NEW N \in Nat, NEW data \in [1 .. N -> Devices],
           NEW g, Passes(g, N, data), NEW n \in 0 .. N
    PROVE  Fits(g[n], n, data)
<1> DEFINE T == {m \in 0 .. N : ~Fits(g[m], m, data)}
<1> SUFFICES ASSUME T # {} PROVE FALSE
  OBVIOUS
<1>1. PICK m \in T : \A k \in T : m <= k
  <2>1. T \subseteq Nat
    OBVIOUS
  <2> HIDE DEF T
  <2> QED BY <2>1, LeastElement
<1>2. g[0] = Before
  BY DEF Passes
<1>3. Fits(Before, 0, data)
  BY DEF Fits
<1>4. m \in 1 .. N /\ m - 1 \in 0 .. N /\ m - 1 \notin T
  BY <1>1, <1>2, <1>3
<1>5. Fits(g[m - 1], m - 1, data)
  BY <1>4
<1>6. g[m] = AddSample(g[m - 1], data[m])
  BY <1>4 DEF Passes
<1>7. data[m] \in Devices
  BY <1>4
<1> DEFINE drawn == g[m - 1]
           after == AddSample(drawn, data[m])
<1>8. /\ Charted(after)
      /\ after.labels <= drawn.labels /\ after.labels <= after.series[data[m]]
      /\ \A e \in Devices : drawn.series[e] <= after.series[e]
  BY <1>5, <1>7, AddSampleKeeps DEF Fits
<1>9. \A i \in 1 .. m : after.labels <= after.series[data[i]]
  <2> SUFFICES ASSUME NEW i \in 1 .. m PROVE after.labels <= after.series[data[i]]
    OBVIOUS
  <2>1. CASE i = m
    BY <1>8, <2>1
  <2>2. CASE i # m
    <3>1. i \in 1 .. m - 1 /\ data[i] \in Devices
      BY <1>4, <2>2
    <3>2. drawn.labels <= drawn.series[data[i]] /\ drawn.series[data[i]] <= after.series[data[i]]
      BY <1>5, <1>8, <3>1 DEF Fits
    <3>3. drawn.labels \in Nat /\ drawn.series[data[i]] \in Nat
      <4> HIDE DEF drawn
      <4>1. Charted(drawn)
        BY <1>5 DEF Fits, drawn
      <4> QED BY <3>1, <4>1, PageAssumption DEF Charted
    <3>4. after.labels \in Nat /\ after.series[data[i]] \in Nat
      BY <1>8, <3>1, PageAssumption DEF Charted
    <3> HIDE DEF drawn, after
    <3> QED BY <1>8, <3>2, <3>3, <3>4
  <2> QED BY <2>1, <2>2
<1> QED BY <1>1, <1>6, <1>8, <1>9 DEF Fits

(* What is drawn fits.                                                      *)
LEMMA DrawnFits ==
    ASSUME Charted(Before), NEW data \in Data
    PROVE  /\ DOMAIN data = 1 .. Len(data) /\ Len(data) \in Nat
           /\ Fits(Drawn(data), Len(data), data)
           /\ Len(data) = 1 => Drawn(data).labels = Drawn(data).series[data[1]]
<1>1. PICK N \in 0 .. MaxEntries : data \in [1 .. N -> Devices]
  BY DEF Data
<1>2. N \in Nat /\ data \in Seq(Devices)
  BY <1>1, PageAssumption
<1>3. Len(data) = N /\ DOMAIN data = 1 .. N
  BY <1>1, <1>2
<1>4. PICK g : Passes(g, N, data) /\ Drawn(data) = g[N]
  BY <1>2, <1>3, DrawnIs
<1>5. Fits(Drawn(data), N, data)
  BY <1>1, <1>2, <1>4, PassesFit
<1>6. ASSUME N = 1 PROVE Drawn(data).labels = Drawn(data).series[data[1]]
  <2>1. g[0] = Before /\ g[1] = AddSample(g[0], data[1])
    BY <1>4, <1>6 DEF Passes
  <2>2. data[1] \in Devices /\ Before.labels = Points
    BY <1>1, <1>6 DEF Before
  <2> QED BY <1>4, <1>6, <2>1, <2>2, AddSampleKeeps
<1> QED BY <1>2, <1>3, <1>5, <1>6

ChartInv ==
    /\ seriesData \in [Devices -> 0 .. Points] /\ timespans \in 0 .. Points
    /\ shown \in Data /\ AxisFits

PageInv ==
    /\ request \in {"none", "pending", "resolved", "rejected"}
    /\ timers \in 0 .. MaxTimers /\ up \in BOOLEAN
    /\ ChartInv

LEMMA RenderKeeps ==
    ASSUME ChartInv, NEW data \in Data, renderStats(data)
    PROVE  ChartInv'
<1>1. Charted(Before)
  <2>1. Before.series = seriesData /\ Before.labels = Points
    BY DEF Before
  <2> QED BY <2>1, PageAssumption DEF ChartInv, Charted
<1>2. /\ seriesData' = Drawn(data).series /\ timespans' = Drawn(data).labels
      /\ shown' = data
  BY DEF renderStats
<1>3. /\ DOMAIN data = 1 .. Len(data) /\ Fits(Drawn(data), Len(data), data)
      /\ Len(data) = 1 => Drawn(data).labels = Drawn(data).series[data[1]]
  BY <1>1, DrawnFits
<1> QED BY <1>2, <1>3 DEF ChartInv, AxisFits, Fits, Charted

LEMMA PageStep == PInv /\ PageInv /\ [Next]_vars => PageInv'
<1> SUFFICES ASSUME PInv, PageInv, [Next]_vars PROVE PageInv'
  OBVIOUS
<1>1. CASE UNCHANGED chart
  <2>1. ChartInv'
    BY <1>1 DEF PageInv, ChartInv, AxisFits
  <2>2. request' \in {"none", "pending", "resolved", "rejected"} /\ up' \in BOOLEAN
    BY DEF PageInv, Next, vars, getMinerData, Answered, Resolve, Reject, ready, TimerFires,
           SocketFails, SocketCloses, SocketEnds, onopen, onmessage, Miner
  <2>3. timers' \in 0 .. MaxTimers
    <3>1. timers \in 0 .. MaxTimers /\ MaxTimers \in Nat
      BY PageAssumption DEF PageInv
    <3>2. CASE TimerFires
      BY <3>1, <3>2 DEF TimerFires
    <3>3. ASSUME NEW i, NEW handlers \in {1, 2}, SocketEnds(i, handlers)
          PROVE  timers' \in 0 .. MaxTimers
      BY <3>1, <3>3 DEF SocketEnds, Lost
    <3>4. CASE SocketFails \/ SocketCloses
      BY <3>3, <3>4 DEF SocketFails, SocketCloses
    <3>5. CASE UNCHANGED timers
      BY <3>1, <3>5
    <3> QED BY <3>2, <3>4, <3>5 DEF Next, vars, getMinerData, Answered, ready, onopen,
               onmessage, Miner
  <2> QED BY <2>1, <2>2, <2>3 DEF PageInv
<1>2. ASSUME NEW data \in Data, renderStats(data), Answered \/ onmessage PROVE PageInv'
  <2>1. ChartInv'
    BY <1>2, RenderKeeps DEF PageInv
  <2>2. /\ request' \in {"none", "pending", "resolved", "rejected"}
        /\ timers' = timers /\ up' = up
    BY <1>2 DEF PageInv, Answered, Resolve, Reject, onmessage
  <2> QED BY <2>1, <2>2 DEF PageInv
<1>3. CASE Answered
  BY <1>1, <1>2, <1>3 DEF Answered, Resolve, Reject
<1>4. CASE onmessage
  BY <1>2, <1>4 DEF onmessage
<1>5. CASE ~(Answered \/ onmessage)
  <2>1. UNCHANGED chart
    BY <1>5 DEF Next, vars, getMinerData, ready, TimerFires, SocketFails, SocketCloses,
           SocketEnds, onopen, Miner
  <2> QED BY <1>1, <2>1
<1> QED BY <1>3, <1>4, <1>5

LEMMA PageInvariant == Spec => [](PInv /\ PageInv)
<1>1. Init => PageInv
  <2> SUFFICES ASSUME Init PROVE PageInv
    OBVIOUS
  <2>1. shown = <<>> /\ shown \in [1 .. 0 -> Devices] /\ 0 \in 0 .. MaxEntries
    BY PageAssumption DEF Init
  <2>2. shown \in Data
    BY <2>1 DEF Data
  <2>3. AxisFits
    BY <2>1 DEF AxisFits
  <2>4. seriesData \in [Devices -> 0 .. Points] /\ timespans \in 0 .. Points
    BY PageAssumption DEF Init
  <2> QED BY <2>2, <2>3, <2>4, PageAssumption DEF Init, PageInv, ChartInv
<1> QED BY <1>1, PageStep, ConnectionInvariant, PTL DEF Spec

(* The types; a history never has more than Points points (fun.js:46-50).   *)
THEOREM TypeCorrect == Spec => []TypeOK
<1>1. PInv /\ PageInv => TypeOK
  BY DEF PInv, Connected, PageInv, ChartInv, TypeOK
<1> QED BY <1>1, PageInvariant, PTL

(* However long the list of devices and however often a name comes in it,   *)
(* the axis of the chart has no label without a point, and with one device  *)
(* a label for every point (fun.js:37-63).                                  *)
THEOREM AxisAlwaysFits == Spec => []AxisFits
<1>1. PInv /\ PageInv => AxisFits
  BY DEF PageInv, ChartInv
<1> QED BY <1>1, PageInvariant, PTL

(* The days, hours, minutes and seconds that are printed add up to the time *)
(* that is needed, also at the boundaries, where sixty minutes and          *)
(* twenty-four hours stay what they are (fun.js:18-28).                     *)
THEOREM DistanceAddsUp ==
    ASSUME NEW second \in Nat \ {0}
    PROVE  LET t == CalcDistance(second) IN
           /\ 86400 * t.day + 3600 * t.hour + 60 * t.minute + t.second = second
           /\ t.hour <= 24 /\ t.minute <= 60 /\ t.second < 60
<1> DEFINE minutes == second \div 60
           hours   == minutes \div 60
<1>1. minutes \in Nat /\ second = 60 * minutes + (second % 60) /\ second % 60 < 60
  OBVIOUS
<1>2. hours \in Nat /\ minutes = 60 * hours + (minutes % 60) /\ minutes % 60 < 60
  BY <1>1
<1>3. hours = 24 * (hours \div 24) + (hours % 24) /\ hours % 24 < 24
  BY <1>2
<1> QED BY <1>1, <1>2, <1>3 DEF CalcDistance
=============================================================================
