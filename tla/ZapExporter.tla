----------------------------- MODULE ZapExporter -----------------------------
(***************************************************************************)
(* The ZAP exporter (exporter/zapexporter): consumers of the sending queue *)
(* push batches over one node, which they share: its peer is dialed by one *)
(* of them, calls that park in the kernel are abandoned, and a node that   *)
(* made no progress several times is rebuilt with a new identity.          *)
(*                                                                         *)
(* Of the nodes there have been only the one in e.node is followed: conn,  *)
(* held and retired are about it, and "old" stands for any before it.      *)
(***************************************************************************)
EXTENDS Naturals, FiniteSets, SequencesExt

CONSTANTS
  Consumer,            \* goroutines that push
  Telemetry,           \* set of [Consumer -> its payload: signal and resources]
  StallsBeforeReset,   \* stallsBeforeReset
  MinResetInterval,    \* minResetInterval, in ticks that are longer than a call may take
  MaxZapFaults,        \* bound: faults of receiver and network
  MaxSlips             \* bound: calls that are slow or fail without such a fault, and dials
                       \* that return in the middle of a rebuild

VARIABLES
  load,       \* what the consumers push: one of Telemetry
  zpc,        \* where a consumer, or Start, is in send
  batches,    \* the batches its push still has to send
  mine,       \* the node its call read from e.node: "cur" or "old"
  pid,        \* whether the peer ID it works with is not ""
  hasPeer,    \* e.peerID # ""
  nodeSet,    \* e.node # nil
  dialing,    \* e.dialing
  dials,      \* the node the dial that a process began is running on, or "none"
  stalls,     \* e.stalls, which counts no further than StallsBeforeReset
  floor,      \* ticks of minResetInterval that have not passed since e.lastReset
  spanning,   \* processes whose call began before the last tick
  unchanged,  \* processes whose reading of e.lastReset is still its value
  conn,       \* the connection of the node: "none", "up" or "wedged"
  held,       \* the receiver holds a registration of the node's identity
  retired,    \* Stop of the node: "no", "called" or "done"
  receiver,   \* "up", "down" or "deaf": it accepts sockets and answers nothing
  faults,
  slips,
  wire,       \* batches that a consumer's push, or a try of it before, wrote to a connection (history)
  pushed,     \* consumers whose last push returned nil (history)
  zshut       \* Shutdown has returned

call == <<load, zpc, batches, mine, pid>>
reset == <<stalls, floor, spanning, unchanged>>
network == <<conn, held, retired, receiver, faults, slips>>
zapVars == <<call, hasPeer, nodeSet, dialing, dials, reset, network, wire, pushed, zshut>>

Process == Consumer \cup {"Start"}

-----------------------------------------------------------------------------
(* pdata -> wire: a payload is [signal, resources], a resource a set of spans or    *)
(* records, or of metrics [name, type, points]; a histogram point has the number of *)
(* its bounds and the counts of its buckets.                                        *)

tracesToBatches(resources) == SelectSeq(resources, LAMBDA r : r # {})
logsToBatches(resources) == SelectSeq(resources, LAMBDA r : r # {})

Cumulative_CumOutside(points, k) ==
  LET before == FoldLeft(+, 0, FlattenSeq([j \in 1 .. k - 1 |-> points[j].counts])) IN
  [i \in 1 .. points[k].bounds |-> before + FoldLeft(+, 0, SubSeq(points[k].counts, 1, i))]

\* The buckets of the k-th point: counts are per bucket, the wire wants them cumulative.
Cumulative(points, k) ==
  LET n == points[k].bounds m == Len(points[k].counts) IN
  [i \in 1 .. (IF n < m THEN n ELSE m) |-> FoldLeft(+, 0, SubSeq(points[k].counts, 1, i))]

translateMetric(m) ==
  [name |-> m.name, type |-> IF m.type = "sum" THEN "counter" ELSE m.type,
   metrics |-> [k \in DOMAIN m.points |->
     IF m.type = "histogram" THEN [count |-> m.points[k].count, buckets |-> Cumulative(m.points, k)]
     ELSE [count |-> 0, buckets |-> << >>]],
   nan |-> m.nan]

Translates(m) == m.type \in {"gauge", "sum", "histogram"} /\ m.points # << >>

metricsToBatches(resources) ==
  SelectSeq([i \in DOMAIN resources |-> {translateMetric(m) : m \in {x \in resources[i] : Translates(x)}}],
            LAMBDA b : b # {})

toBatches(t) ==
  CASE t.signal = "traces" -> tracesToBatches(t.resources)
    [] t.signal = "logs" -> logsToBatches(t.resources)
    [] OTHER -> metricsToBatches(t.resources)

\* encode: JSON has no NaN; "nan" is a span or a record with one among its attributes.
Encodes(t, b) == IF t.signal = "metrics" THEN \A family \in b : ~family.nan ELSE "nan" \notin b

-----------------------------------------------------------------------------
ZapInit ==
  /\ load \in Telemetry
  /\ zpc = [c \in Process |-> IF c = "Start" THEN "peer" ELSE "idle"]
  /\ batches = [c \in Consumer |-> << >>]
  /\ mine = [c \in Process |-> "cur"] /\ pid = [c \in Process |-> FALSE]
  /\ hasPeer = FALSE /\ nodeSet = TRUE /\ dialing = FALSE /\ dials = [c \in Process |-> "none"]
  /\ stalls = 0 /\ floor = 0 /\ spanning = {} /\ unchanged = {}
  /\ conn = "none" /\ held = FALSE /\ retired = "no"
  /\ receiver \in {"up", "down", "deaf"} /\ faults = (IF receiver = "up" THEN 0 ELSE 1) /\ slips = 0
  /\ wire = {} /\ pushed = {} /\ zshut = FALSE

Waiting == {c \in Process : zpc[c] \in {"idle", "backoff", "started"}}

Go(c, label) == zpc' = [zpc EXCEPT ![c] = label]

\* A call ends with an error: Start logs it, a push returns it to be retried, and counts
\* it before if it is not one of the two that say "ask again".
Fails(c) == Go(c, IF c = "Start" THEN "started" ELSE "backoff")
Stalls(c) == Go(c, IF c = "Start" THEN "started" ELSE "stalled")

\* pushTraces, pushLogs, pushMetrics, called by the queue or again by the retry.
Push(c) ==
  /\ zpc[c] \in {"idle", "backoff"} /\ zpc["Start"] = "started" /\ ~zshut
  /\ Go(c, "batch") /\ batches' = [batches EXCEPT ![c] = toBatches(load[c])]
  /\ wire' = IF zpc[c] = "idle" THEN {w \in wire : w[1] # c} ELSE wire
  /\ pushed' = pushed \ {c} /\ spanning' = spanning \ {c}
  /\ UNCHANGED <<load, mine, pid, hasPeer, nodeSet, dialing, dials, stalls, floor, unchanged, network, zshut>>

NextBatch_Skips(c) ==
  /\ zpc[c] = "batch"
  /\ CASE batches[c] = << >> -> Go(c, "idle") /\ pushed' = pushed \cup {c} /\ UNCHANGED batches
       [] batches[c] # << >> /\ ~Encodes(load[c], Head(batches[c])) ->
            batches' = [batches EXCEPT ![c] = Tail(@)] /\ UNCHANGED <<zpc, pushed>>
       [] OTHER -> Go(c, "peer") /\ UNCHANGED <<pushed, batches>>
  /\ UNCHANGED <<load, mine, pid, hasPeer, nodeSet, dialing, dials, reset, network, wire, zshut>>

\* The next batch; an error of encode is permanent: the push is not retried.
NextBatch(c) ==
  /\ zpc[c] = "batch"
  /\ CASE batches[c] = << >> -> Go(c, "idle") /\ pushed' = pushed \cup {c}
       [] batches[c] # << >> /\ ~Encodes(load[c], Head(batches[c])) -> Go(c, "idle") /\ UNCHANGED pushed
       [] OTHER -> Go(c, "peer") /\ UNCHANGED pushed
  /\ batches' = IF zpc'[c] = "idle" THEN [batches EXCEPT ![c] = << >>] ELSE batches
  /\ UNCHANGED <<load, mine, pid, hasPeer, nodeSet, dialing, dials, reset, network, wire, zshut>>

-----------------------------------------------------------------------------
(* peer *)

\* It has the peer ID, or a node to dial with.
ReadPeer(c) ==
  /\ zpc[c] = "peer"
  /\ IF hasPeer THEN Go(c, IF c = "Start" THEN "started" ELSE "node")
     ELSE IF nodeSet THEN Go(c, "dial") ELSE Fails(c)
  /\ pid' = [pid EXCEPT ![c] = hasPeer /\ c # "Start"] /\ mine' = [mine EXCEPT ![c] = "cur"]
  /\ UNCHANGED <<load, batches, hasPeer, nodeSet, dialing, dials, reset, network, wire, pushed, zshut>>

Dial_NoSwap(c) ==
  /\ zpc[c] = "dial" /\ Go(c, "dialing")
  /\ dialing' = TRUE /\ dials' = [dials EXCEPT ![c] = mine[c]] /\ mine' = [mine EXCEPT ![c] = "cur"]
  /\ UNCHANGED <<load, batches, pid, hasPeer, nodeSet, reset, network, wire, pushed, zshut>>

Dial_Counts(c) ==
  /\ zpc[c] = "dial"
  /\ IF dialing THEN Stalls(c) /\ UNCHANGED <<dialing, dials>>
     ELSE Go(c, "dialing") /\ dialing' = TRUE /\ dials' = [dials EXCEPT ![c] = mine[c]]
  /\ mine' = [mine EXCEPT ![c] = "cur"]
  /\ UNCHANGED <<load, batches, pid, hasPeer, nodeSet, reset, network, wire, pushed, zshut>>

\* The compare-and-swap of e.dialing: one dial at a time, the others ask again later.
Dial(c) ==
  /\ zpc[c] = "dial"
  /\ IF dialing THEN Fails(c) /\ UNCHANGED <<dialing, dials>>
     ELSE Go(c, "dialing") /\ dialing' = TRUE /\ dials' = [dials EXCEPT ![c] = mine[c]]
  /\ mine' = [mine EXCEPT ![c] = "cur"]
  /\ UNCHANGED <<load, batches, pid, hasPeer, nodeSet, reset, network, wire, pushed, zshut>>

\* ConnectDirect: it returns the connection there is, a receiver that holds the identity
\* refuses it, one that is deaf leaves it parked; a node that has stopped fails.
Connects(n) == n = "old" \/ conn # "none" \/ (retired # "done" /\ receiver = "up" /\ ~held)
Refuses(n) == n = "old" \/ (conn = "none" /\ (retired = "done" \/ receiver = "down" \/ held))
Parks(n) == receiver = "deaf" /\ (n = "old" \/ conn = "none")

DialedPeer_AnyNode(n) == TRUE

\* The dial sets the peer ID if its node is still the one in use.
DialedPeer(n) == hasPeer \/ (n = "cur" /\ nodeSet)

\* What happens only so often is counted.
Seldom(rare) == IF rare THEN slips < MaxSlips /\ slips' = slips + 1 ELSE UNCHANGED slips

Rebuilding == \E c \in Consumer : zpc[c] \in {"rebuild", "install"}

\* The dial of c returns, and tells c if c still waits for it.
DialReturns(c) ==
  LET n == dials[c] waiting == zpc[c] = "dialing" IN
  /\ n # "none" /\ dials' = [dials EXCEPT ![c] = "none"] /\ dialing' = FALSE
  /\ \/ /\ Connects(n) /\ ~Parks(n) /\ hasPeer' = DialedPeer(n)
        /\ conn' = IF n = "cur" /\ conn = "none" THEN "up" ELSE conn
        /\ held' = (held \/ (n = "cur" /\ conn = "none"))
        /\ IF waiting THEN Go(c, "dialed") ELSE UNCHANGED zpc
        /\ Seldom(Rebuilding /\ n = "cur")
     \/ /\ Refuses(n) /\ ~Parks(n) /\ UNCHANGED <<hasPeer, conn, held, slips>>
        /\ IF waiting THEN Stalls(c) ELSE UNCHANGED zpc
  /\ UNCHANGED <<load, batches, mine, pid, nodeSet, reset, retired, receiver, faults, wire, pushed, zshut>>

\* peer returns e.peerID, which may be another one by now, or none.
PeerReturns(c) ==
  /\ zpc[c] = "dialed" /\ Go(c, IF c = "Start" THEN "started" ELSE "node")
  /\ pid' = [pid EXCEPT ![c] = hasPeer /\ c # "Start"]
  /\ UNCHANGED <<load, batches, mine, hasPeer, nodeSet, dialing, dials, reset, network, wire, pushed, zshut>>

\* within gives a call up at its deadline: one that is parked, or a slow one.
AbandonDial(c) ==
  /\ zpc[c] = "dialing" /\ Stalls(c) /\ Seldom(~Parks(dials[c]))
  /\ UNCHANGED <<load, batches, mine, pid, hasPeer, nodeSet, dialing, dials, reset,
                 conn, held, retired, receiver, faults, wire, pushed, zshut>>

-----------------------------------------------------------------------------
(* send *)

ReadNode(c) ==
  /\ zpc[c] = "node" /\ mine' = [mine EXCEPT ![c] = "cur"]
  /\ IF nodeSet THEN Go(c, "sending") ELSE Fails(c)
  /\ UNCHANGED <<load, batches, pid, hasPeer, nodeSet, dialing, dials, reset, network, wire, pushed, zshut>>

forget(c) == hasPeer' = (hasPeer /\ ~pid[c])

\* The locals of a call that is over.
Discard(c) == pid' = [pid EXCEPT ![c] = FALSE] /\ mine' = [mine EXCEPT ![c] = "cur"]

SendReturns(c) ==
  /\ zpc[c] = "sending"
  /\ \/ /\ mine[c] = "old" \/ (pid[c] /\ conn = "up")
        /\ wire' = wire \cup {<<c, Head(batches[c])>>}
        /\ batches' = [batches EXCEPT ![c] = Tail(@)]
        /\ stalls' = 0 /\ Go(c, "batch") /\ UNCHANGED hasPeer
     \/ /\ mine[c] = "old" \/ ~pid[c] \/ conn = "none"
        /\ forget(c) /\ Stalls(c) /\ UNCHANGED <<wire, batches, stalls>>
  /\ Discard(c)
  /\ UNCHANGED <<load, nodeSet, dialing, dials, floor, spanning, unchanged, network, pushed, zshut>>

AbandonSend(c) ==
  /\ zpc[c] = "sending" /\ forget(c) /\ Stalls(c) /\ Discard(c)
  /\ Seldom(mine[c] = "cur" /\ ~(pid[c] /\ conn = "wedged"))
  /\ UNCHANGED <<load, batches, nodeSet, dialing, dials, reset,
                 conn, held, retired, receiver, faults, wire, pushed, zshut>>

-----------------------------------------------------------------------------
(* noteStall, resetNode *)

noteStall_Equal(c) ==
  /\ zpc[c] = "stalled" /\ stalls' = stalls + 1
  /\ IF stalls' = StallsBeforeReset /\ floor = 0
     THEN Go(c, "swap") /\ unchanged' = unchanged \cup {c}
     ELSE Fails(c) /\ UNCHANGED unchanged
  /\ UNCHANGED <<load, batches, mine, pid, hasPeer, nodeSet, dialing, dials, floor, spanning,
                 network, wire, pushed, zshut>>

\* The count, and the reading of the clock and of e.lastReset if it is high enough.
noteStall(c) ==
  /\ zpc[c] = "stalled"
  /\ stalls' = IF stalls < StallsBeforeReset THEN stalls + 1 ELSE stalls
  /\ IF stalls' >= StallsBeforeReset /\ floor = 0
     THEN Go(c, "swap") /\ unchanged' = unchanged \cup {c}
     ELSE Fails(c) /\ UNCHANGED unchanged
  /\ UNCHANGED <<load, batches, mine, pid, hasPeer, nodeSet, dialing, dials, floor, spanning,
                 network, wire, pushed, zshut>>

SwapLastReset_Store(c) ==
  /\ zpc[c] = "swap" /\ Go(c, "clear") /\ floor' = MinResetInterval /\ unchanged' = unchanged \ {c}
  /\ UNCHANGED <<load, batches, mine, pid, hasPeer, nodeSet, dialing, dials, stalls, spanning,
                 network, wire, pushed, zshut>>

\* The compare-and-swap of e.lastReset: one of the callers that read the same goes on.
SwapLastReset(c) ==
  /\ zpc[c] = "swap"
  /\ IF c \in unchanged THEN Go(c, "clear") /\ floor' = MinResetInterval /\ unchanged' = {}
     ELSE Fails(c) /\ UNCHANGED <<floor, unchanged>>
  /\ UNCHANGED <<load, batches, mine, pid, hasPeer, nodeSet, dialing, dials, stalls, spanning,
                 network, wire, pushed, zshut>>

\* The peer ID is dropped, and Stop of the node begins.
ClearPeer(c) ==
  /\ zpc[c] = "clear" /\ Go(c, "rebuild")
  /\ hasPeer' = FALSE /\ retired' = IF retired = "no" THEN "called" ELSE retired
  /\ UNCHANGED <<load, batches, mine, pid, nodeSet, dialing, dials, reset,
                 conn, held, receiver, faults, slips, wire, pushed, zshut>>

startNode(c) ==
  /\ zpc[c] = "rebuild"
  /\ \/ Go(c, "install") /\ UNCHANGED slips
     \/ Fails(c) /\ Seldom(TRUE)
  /\ UNCHANGED <<load, batches, mine, pid, hasPeer, nodeSet, dialing, dials, reset,
                 conn, held, retired, receiver, faults, wire, pushed, zshut>>

NewIdentityHeld_PerProcess == held
\* newIncarnation: no receiver has seen the identity.
NewIdentityHeld == FALSE

\* The new node takes the place of the old one; stalls are counted from zero.
InstallNode(c) ==
  /\ zpc[c] = "install" /\ Fails(c)
  /\ conn' = "none" /\ held' = NewIdentityHeld /\ retired' = "no"
  /\ mine' = [x \in Process |-> IF zpc[x] \in {"dial", "sending"} THEN "old" ELSE "cur"]
  /\ dials' = [x \in Process |-> IF dials[x] = "cur" THEN "old" ELSE dials[x]]
  /\ stalls' = 0
  /\ UNCHANGED <<load, batches, pid, hasPeer, nodeSet, dialing, floor, spanning, unchanged,
                 receiver, faults, slips, wire, pushed, zshut>>

\* A tick of minResetInterval passes: the deadline of a call is shorter, so none spans
\* two, and the rebuild is over.
Tick ==
  /\ floor > 0 /\ floor' = floor - 1 /\ ~zshut
  /\ \A c \in Consumer : zpc[c] \notin {"clear", "rebuild", "install"}
  /\ spanning \subseteq Waiting
  /\ spanning' = IF floor' = 0 THEN {} ELSE Process \ Waiting
  /\ UNCHANGED <<call, hasPeer, nodeSet, dialing, dials, stalls, unchanged, network, wire, pushed, zshut>>

\* The queue has stopped and no retry is under way when Shutdown is called.
Shutdown ==
  /\ ~zshut /\ zpc["Start"] = "started" /\ \A c \in Consumer : zpc[c] \in {"idle", "backoff"}
  /\ nodeSet' = FALSE /\ hasPeer' = FALSE /\ conn' = "none" /\ retired' = "done" /\ zshut' = TRUE
  /\ UNCHANGED <<call, dialing, dials, reset, held, receiver, faults, slips, wire, pushed>>

-----------------------------------------------------------------------------
(* luxfi/zap, the network and the receiver *)

others == <<call, hasPeer, nodeSet, dialing, dials, reset, wire, pushed, zshut>>

\* Stop closes the connection, sooner or later.
NodeStops ==
  /\ retired = "called" /\ retired' = "done" /\ conn' = "none"
  /\ UNCHANGED <<others, held, receiver, faults, slips>>

\* The receiver goes down, goes deaf, or stops to read one connection; a connection is
\* cut and the receiver does not know.
NetworkFault ==
  /\ faults < MaxZapFaults /\ faults' = faults + 1 /\ ~zshut
  /\ \/ receiver' = "down" /\ conn' = "none" /\ held' = FALSE
     \/ receiver' = "deaf" /\ UNCHANGED held /\ conn' = IF conn = "up" THEN "wedged" ELSE conn
     \/ conn = "up" /\ conn' = "wedged" /\ UNCHANGED <<receiver, held>>
     \/ conn # "none" /\ conn' = "none" /\ UNCHANGED <<receiver, held>>
  /\ UNCHANGED <<others, retired, slips>>

ComesUp == receiver # "up" /\ receiver' = "up" /\ UNCHANGED <<others, conn, held, retired, faults, slips>>

Reap == held /\ conn = "none" /\ held' = FALSE /\ UNCHANGED <<others, conn, retired, receiver, faults, slips>>

send(c) ==
  \/ ReadPeer(c) \/ Dial(c) \/ AbandonDial(c) \/ PeerReturns(c)
  \/ noteStall(c) \/ SwapLastReset(c) \/ ClearPeer(c) \/ startNode(c) \/ InstallNode(c)
  \/ ReadNode(c) \/ SendReturns(c) \/ AbandonSend(c)

ZapNext ==
  \/ \E c \in Consumer : Push(c) \/ NextBatch(c) \/ send(c)
  \/ ReadPeer("Start") \/ Dial("Start") \/ AbandonDial("Start") \/ PeerReturns("Start")
  \/ \E c \in Process : DialReturns(c)
  \/ Tick \/ Shutdown \/ NodeStops \/ NetworkFault \/ ComesUp \/ Reap

\* Goroutines run, a parked call ends once the receiver answers or is gone ("the
\* goroutine ends when the kernel finally gives up on the socket"), a receiver comes
\* back, and time passes.  Registrations need not be reaped.
ZapFairness ==
  /\ \A c \in Consumer : WF_zapVars(Push(c) \/ NextBatch(c) \/ send(c))
  /\ WF_zapVars(ReadPeer("Start") \/ Dial("Start") \/ AbandonDial("Start") \/ PeerReturns("Start"))
  /\ WF_zapVars(\E c \in Process : DialReturns(c))
  /\ WF_zapVars(ComesUp) /\ WF_zapVars(Tick)

-----------------------------------------------------------------------------
(* Properties *)

\* The values the state can have; e.stalls is compared with its limit only.
ZapTypeOK ==
  /\ stalls \in 0 .. StallsBeforeReset /\ unchanged \subseteq {c \in Consumer : zpc[c] = "swap"}
  /\ conn \in {"none", "up", "wedged"} /\ retired \in {"no", "called", "done"}
  /\ \A c \in Process : zpc[c] = "dialing" => dials[c] # "none"

\* dialing is set exactly while a dial runs, which may be one that everyone gave up
\* waiting for, and no second one runs then.
OneDial ==
  /\ Cardinality({c \in Process : dials[c] # "none"}) <= 1
  /\ dialing = \E c \in Process : dials[c] # "none"

\* Concurrent stalls produce one rebuild: a rebuild that has its new node replaces the
\* node that it stopped, so no node is left running that nobody will stop.
OneRebuild == \A c \in Consumer : zpc[c] = "install" => retired # "no"

\* Consumers that meet a dial in flight, or each other's peer ID come and go, count no
\* stall: while receiver and network are well no node is given up.
HealthyNeverStalls == faults + slips = 0 => stalls = 0 /\ \A c \in Consumer : zpc[c] # "stalled"

\* A dial that returns after Shutdown, or after a rebuild, does not bring a peer back.
NoPeerWithoutNode == hasPeer => nodeSet

\* Dials, rebuilds and the peer: one of each at a time, a peer only on a node, and
\* no rebuild without a fault.
ZapInv == ZapTypeOK /\ OneDial /\ OneRebuild /\ HealthyNeverStalls /\ NoPeerWithoutNode

\* A push that returned nil has put on the wire all the payload has that the wire has a
\* form for, whatever was sent, abandoned and sent again before.
PushedIsWhole ==
  \A c \in pushed : \A i \in DOMAIN toBatches(load[c]) : <<c, toBatches(load[c])[i]>> \in wire

\* The buckets of a histogram on the wire never decrease and never pass its count.
BucketsFit ==
  \A w \in wire : load[w[1]].signal = "metrics" =>
    \A family \in w[2] : \A k \in DOMAIN family.metrics :
      LET m == family.metrics[k] IN
      family.type = "histogram" =>
        \A i \in DOMAIN m.buckets :
          m.buckets[i] <= m.count /\ (i > 1 => m.buckets[i - 1] <= m.buckets[i])

\* What a push sent is complete, and each histogram in it is one.
SentIsSound == PushedIsWhole /\ BucketsFit

\* However the receiver was down, deaf, or held on to a registration, and whatever was
\* abandoned meanwhile: a push that is retried ends, and it ends with nil or because it
\* cannot be encoded.
EveryPushEnds == \A c \in Consumer : zpc[c] # "idle" ~> zpc[c] = "idle" \/ zshut
=============================================================================
