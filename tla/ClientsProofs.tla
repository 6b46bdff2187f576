--------------------------- MODULE ClientsProofs ----------------------------
(***************************************************************************)
(* Proofs about Clients: for all windows, queues, vectors and tiles, the   *)
(* programs keep their window of reads, and the accelerator computes a     *)
(* tile when its loads have returned, stores it once and loads nothing     *)
(* while it stores.                                                        *)
(***************************************************************************)
EXTENDS Clients, TLAPS

Storing == phase \in {"draining", "barrier"}

\* TypeOK without the range of what is stored, which follows from Tiled.
Counters ==
    /\ program \in Programs
    /\ phase \in {"issuing", "stepping", "running", "draining", "barrier",
                  "returned"}
    /\ outstanding \in Int
    /\ toIssue \in Nat /\ loads \in Nat /\ computes \in Nat
    /\ processed \in Nat /\ loaded \in Nat /\ storesDue \in Nat
    /\ lane \in Nat /\ tile \in Nat
    /\ reads \in 0 .. ReadQueue /\ writes \in 0 .. WriteQueue

\* Only the accelerator stores.
NoStores ==
    program # "accel" =>
        /\ loads = 0 /\ computes = 0
        /\ writes = 0 /\ storesDue = 0
        /\ stored = {} /\ ~Storing

\* The first n elements.
Before(n) == 0 .. n - 1

\* Where the accelerator is in the vector: the tiles before the current one
\* are stored, and behind the last lane nothing is left to do.
Tiled ==
    program = "accel" =>
        /\ tile < ElemsPerLane /\ lane <= NumLanes
        /\ stored \subseteq Before(lane * ElemsPerLane + tile)
        /\ phase = "barrier" => toIssue = 0
        /\ lane = NumLanes =>
              /\ tile = 0 /\ toIssue = 0 /\ reads + loaded = 0
              /\ computes = 0 /\ ~Storing

\* The order of loads, compute and stores, as in StoresFollowLoads.
Phased ==
    program = "accel" =>
        /\ computes <= 1
        /\ computes > 0 \/ Storing => reads + loaded = 0
        /\ computes > 0 => ~Storing
        /\ ~Storing => writes = 0

ClientsInv == Counters /\ NoStores /\ WindowKept /\ Tiled /\ Phased

-----------------------------------------------------------------------------
LEMMA Constants ==
    /\ NumRequests \in Nat \ {0} /\ Window \in Nat \ {0}
    /\ MaxEvents \in Nat \ {0} /\ TileSize \in Nat \ {0}
    /\ ReadQueue \in Nat \ {0} /\ WriteQueue \in Nat \ {0}
    /\ NumLanes \in Nat \ {0} /\ VectorSize \in Nat \ {0}
  BY ClientsAssumption

\* A vector is cut into lanes that are not empty.
LEMMA LaneSize ==
    /\ ElemsPerLane \in Nat \ {0}
    /\ NumLanes * ElemsPerLane = VectorSize
<1>1. VectorSize \in Nat \ {0} /\ NumLanes \in Nat \ {0}
      /\ NumLanes * (VectorSize \div NumLanes) = VectorSize
  BY ClientsAssumption
<1>2. VectorSize \div NumLanes \in Nat
  BY <1>1
<1> QED
  BY <1>1, <1>2 DEF ElemsPerLane

\* A tile in a lane has at least one element and ends within the lane.
LEMMA TileCountBounds ==
    ASSUME NEW start \in Nat, start < ElemsPerLane
    PROVE  TileCount(start) \in 1 .. ElemsPerLane - start
  BY LaneSize, Constants DEF TileCount, Least

\* The issue loop takes no more than it has, than the DRAM has room for, and
\* than the window leaves.
LEMMA AcceptedBounds ==
    ASSUME reads \in 0 .. ReadQueue,
           NEW pending \in Nat, NEW outs \in Int
    PROVE  /\ Accepted(pending, outs) \in 0 .. pending
           /\ reads + Accepted(pending, outs) <= ReadQueue
           /\ program # "latency" /\ outs <= Window =>
                 outs + Accepted(pending, outs) <= Window
  BY Constants DEF Accepted, Limit, Least

LEMMA InitClients == Init => ClientsInv
<1> SUFFICES ASSUME Init PROVE ClientsInv
  OBVIOUS
<1>1. ElemsPerLane \in Nat \ {0} /\ TileCount(0) \in Nat
  BY LaneSize, TileCountBounds
<1> DEFINE pending == IF program = "accel" THEN 2 * TileCount(0)
                      ELSE NumRequests
           n == IF Stepper THEN 0
                ELSE Least(Least(pending, Window), ReadQueue)
<1>2. pending \in Nat
  BY <1>1, Constants
<1>3. n \in 0 .. pending /\ n <= Window /\ n <= ReadQueue
  BY <1>2, Constants DEF Least
<1>4. /\ toIssue = pending - n /\ outstanding = n /\ reads = n
      /\ loads = IF program = "accel" THEN n ELSE 0
      /\ loaded = 0 /\ computes = 0 /\ writes = 0 /\ storesDue = 0
      /\ lane = 0 /\ tile = 0 /\ processed = 0 /\ stored = {}
      /\ program \in Programs
      /\ phase = IF Stepper THEN "issuing" ELSE "running"
  BY DEF Init
<1> HIDE DEF pending, n
<1>5. Counters
  BY <1>2, <1>3, <1>4, Constants DEF Counters
<1>6. ~Storing
  BY <1>4 DEF Storing
<1>7. NoStores /\ WindowKept /\ Phased
  BY <1>2, <1>3, <1>4, <1>6 DEF NoStores, WindowKept, Phased
<1>8. Tiled
  BY <1>1, <1>4, <1>6, Constants DEF Tiled, Storing
<1> QED
  BY <1>5, <1>7, <1>8 DEF ClientsInv

\* The benchmarks issue between events.
LEMMA IssueStep ==
    ASSUME ClientsInv, IssueLatency \/ IssueBandwidth
    PROVE  ClientsInv'
<1> DEFINE n == Accepted(toIssue, outstanding)
<1>1. /\ program \in {"latency", "bandwidth"}
      /\ toIssue' = toIssue - n
      /\ outstanding' = outstanding + n
      /\ reads' = reads + n
      /\ phase' \in {"running", "stepping"}
      /\ UNCHANGED <<program, lane, tile, stored, loads, computes, processed,
                     loaded, writes, storesDue>>
  BY DEF IssueLatency, IssueBandwidth, IssueReads, control
<1>2. Counters /\ NoStores /\ WindowKept
  BY DEF ClientsInv
<1>3. /\ n \in 0 .. toIssue /\ reads + n <= ReadQueue
      /\ program # "latency" /\ outstanding <= Window =>
            outstanding + n <= Window
  BY <1>2, AcceptedBounds DEF Counters
<1> HIDE DEF n
<1>4. Counters'
  BY <1>1, <1>2, <1>3, Constants DEF Counters
<1>5. NoStores' /\ Tiled' /\ Phased'
  BY <1>1, <1>2 DEF NoStores, Tiled, Phased, Storing
<1>6. WindowKept'
  BY <1>1, <1>2, <1>3, Constants DEF WindowKept, Counters
<1> QED
  BY <1>4, <1>5, <1>6 DEF ClientsInv

LEMMA ReturnStep ==
    ASSUME ClientsInv, ReturnBandwidth
    PROVE  ClientsInv'
<1>1. /\ program = "bandwidth" /\ phase' = "returned"
      /\ UNCHANGED <<control, dram, toIssue, outstanding, loads, computes,
                     processed>>
  BY DEF ReturnBandwidth
<1> QED
  BY <1>1 DEF ClientsInv, Counters, NoStores, WindowKept, Tiled, Phased,
              Storing, control, dram, ElemsPerLane

\* A step leads from "stepping" back to the loop and no other phase anywhere.
LEMMA SteppedFacts ==
    ASSUME Counters, Stepped
    PROVE  /\ phase' \in {"issuing", "stepping", "running", "draining",
                          "barrier", "returned"}
           /\ Storing' = Storing
           /\ phase' = "barrier" <=> phase = "barrier"
           /\ processed' \in Nat
  BY DEF Stepped, Counters, Storing

LEMMA TickStep ==
    ASSUME ClientsInv, NEW r \in Nat, NEW w \in Nat, Tick(r, w)
    PROVE  ClientsInv'
<1>1. /\ r <= reads /\ w <= writes
      /\ reads' = reads - r /\ loaded' = loaded + r /\ writes' = writes - w
      /\ Stepped
      /\ UNCHANGED <<program, lane, tile, stored, toIssue, outstanding, loads,
                     computes, storesDue>>
  BY DEF Tick, control
<1>2. Counters /\ NoStores /\ WindowKept /\ Tiled /\ Phased
  BY DEF ClientsInv
<1>3. /\ phase' \in {"issuing", "stepping", "running", "draining",
                      "barrier", "returned"}
      /\ Storing' = Storing
      /\ phase' = "barrier" <=> phase = "barrier"
      /\ processed' \in Nat
  BY <1>1, <1>2, SteppedFacts
<1>4. Counters'
  BY <1>1, <1>2, <1>3, Constants DEF Counters
<1>5. reads' + loaded' = reads + loaded
  BY <1>1, <1>2, Constants DEF Counters
<1>6. NoStores'
  BY <1>1, <1>2, <1>3, Constants DEF NoStores, Counters
<1>7. WindowKept' /\ Phased'
  BY <1>1, <1>2, <1>3, <1>5, Constants DEF WindowKept, Phased, Counters
<1>8. Tiled'
  BY <1>1, <1>2, <1>3, <1>5 DEF Tiled, ElemsPerLane
<1> QED
  BY <1>4, <1>6, <1>7, <1>8 DEF ClientsInv

\* A read returns: the accelerator counts it as a load, and computes when it
\* was the last one.
LEMMA OnCompleteStep ==
    ASSUME ClientsInv, OnComplete
    PROVE  ClientsInv'
<1> DEFINE n == IF Stepper THEN 0 ELSE Accepted(toIssue, outstanding - 1)
<1>1. /\ loaded > 0 /\ loaded' = loaded - 1
      /\ toIssue' = toIssue - n
      /\ outstanding' = outstanding - 1 + n
      /\ reads' = reads + n
      /\ loads' = IF program = "accel" THEN loads - 1 + n ELSE
                  IF Stepper THEN loads ELSE 0
      /\ computes' = IF /\ program = "accel"
                        /\ toIssue - n = 0 /\ loads - 1 + n = 0
                       THEN computes + 1 ELSE computes
      /\ Stepped
      /\ UNCHANGED <<program, lane, tile, stored, writes, storesDue>>
  <2>1. Counters
    BY DEF ClientsInv
  <2>2. CASE Stepper
    BY <2>1, <2>2, Constants DEF OnComplete, control, Stepper, Counters
  <2>3. CASE ~Stepper
    BY <2>1, <2>3
       DEF OnComplete, Pump, IssueReads, ComputeDue, control, Stepper, Counters
  <2> QED
    BY <2>2, <2>3
<1>2. Counters /\ NoStores /\ WindowKept /\ Tiled /\ Phased
  BY DEF ClientsInv
<1>3. /\ n \in 0 .. toIssue /\ reads + n <= ReadQueue
      /\ program # "latency" /\ outstanding - 1 <= Window =>
            outstanding - 1 + n <= Window
  <2>1. toIssue \in Nat /\ outstanding - 1 \in Int /\ reads \in 0 .. ReadQueue
    BY <1>2 DEF Counters
  <2>2. CASE Stepper
    BY <2>1, <2>2, Constants
  <2>3. CASE ~Stepper
    BY <2>1, <2>3, AcceptedBounds
  <2> QED
    BY <2>2, <2>3
<1> HIDE DEF n
<1>4. /\ phase' \in {"issuing", "stepping", "running", "draining",
                      "barrier", "returned"}
      /\ Storing' = Storing
      /\ phase' = "barrier" <=> phase = "barrier"
      /\ processed' \in Nat
  BY <1>1, <1>2, SteppedFacts
<1>5. program = "accel" => loads > 0 /\ computes = 0 /\ ~Storing /\ writes = 0
  BY <1>1, <1>2, Constants DEF Counters, WindowKept, Phased
<1>6. Counters'
  BY <1>1, <1>2, <1>3, <1>4, <1>5, Constants DEF Counters, NoStores
<1>7. NoStores'
  BY <1>1, <1>2, <1>4 DEF NoStores
<1>8. WindowKept'
  BY <1>1, <1>2, <1>3, Constants DEF WindowKept, Counters, NoStores
<1>9. Phased'
  BY <1>1, <1>2, <1>3, <1>4, <1>5, Constants DEF Phased, WindowKept, Counters
<1>10. Tiled'
  <2>1. program = "accel" => lane # NumLanes /\ phase # "barrier"
    BY <1>1, <1>2, <1>5, Constants DEF Tiled, Counters, Storing
  <2> QED
    BY <2>1, <1>1, <1>2, <1>4 DEF Tiled, ElemsPerLane
<1> QED
  BY <1>6, <1>7, <1>8, <1>9, <1>10 DEF ClientsInv

LEMMA OnStoreDoneStep ==
    ASSUME ClientsInv, OnStoreDone
    PROVE  ClientsInv'
<1>1. /\ storesDue > 0
      /\ storesDue' = storesDue - 1 /\ outstanding' = outstanding - 1
      /\ UNCHANGED <<control, phase, toIssue, loads, computes, processed, reads,
                     loaded, writes>>
  BY DEF OnStoreDone
<1>2. Counters /\ NoStores /\ WindowKept /\ Tiled /\ Phased
  BY DEF ClientsInv
<1>3. program = "accel"
  BY <1>1, <1>2 DEF NoStores
<1>4. Counters'
  BY <1>1, <1>2 DEF Counters, control
<1>5. NoStores' /\ WindowKept' /\ Tiled' /\ Phased'
  BY <1>1, <1>2, <1>3
     DEF NoStores, WindowKept, Tiled, Phased, Storing, ElemsPerLane, control
<1> QED
  BY <1>4, <1>5 DEF ClientsInv

\* The store loop, entered with pending writes and nothing else under way.
LEMMA StoreWritesStep ==
    ASSUME ClientsInv, NEW pending \in Nat, StoreWrites(pending),
           program = "accel", reads + loaded = 0, lane # NumLanes,
           computes' = 0
    PROVE  ClientsInv'
<1> DEFINE n == Least(pending, WriteQueue - writes)
<1>1. /\ toIssue' = pending - n
      /\ writes' = writes + n
      /\ storesDue' = storesDue + n
      /\ phase' = IF n = pending THEN "barrier" ELSE "draining"
      /\ UNCHANGED <<program, lane, tile, stored, outstanding, loads, processed,
                     reads, loaded>>
  BY DEF StoreWrites, control
<1>2. Counters /\ NoStores /\ WindowKept /\ Tiled /\ Phased
  BY DEF ClientsInv
<1>3. n \in 0 .. pending /\ writes + n <= WriteQueue
  BY <1>2, Constants DEF Counters, Least
<1> HIDE DEF n
<1>4. Counters'
  BY <1>1, <1>2, <1>3, Constants DEF Counters
<1>5. Storing' /\ (phase' = "barrier" => toIssue' = 0)
  BY <1>1, <1>3 DEF Storing
<1>6. NoStores' /\ WindowKept' /\ Phased'
  BY <1>1, <1>2, <1>5 DEF NoStores, WindowKept, Phased
<1>7. Tiled'
  BY <1>1, <1>2, <1>5 DEF Tiled, ElemsPerLane
<1> QED
  BY <1>4, <1>6, <1>7 DEF ClientsInv

LEMMA StoreTileStep ==
    ASSUME ClientsInv, StoreTile \/ MakeRoom
    PROVE  ClientsInv'
<1>1. Counters /\ NoStores /\ WindowKept /\ Tiled /\ Phased
  BY DEF ClientsInv
<1>2. CASE StoreTile
  <2>1. computes > 0 /\ computes' = computes - 1 /\ StoreWrites(TileCount(tile))
    BY <1>2 DEF StoreTile
  <2>2. program = "accel" /\ computes = 1
    BY <2>1, <1>1 DEF NoStores, Phased, Counters
  <2>3. reads + loaded = 0 /\ lane # NumLanes
    BY <2>2, <1>1 DEF Phased, Tiled
  <2>4. TileCount(tile) \in Nat
    <3>1. tile \in Nat /\ tile < ElemsPerLane
      BY <2>2, <1>1 DEF Counters, Tiled
    <3> QED
      BY <3>1, TileCountBounds, LaneSize
  <2> QED
    BY <2>1, <2>2, <2>3, <2>4, StoreWritesStep
<1>3. CASE MakeRoom
  <2>1. phase = "draining" /\ StoreWrites(toIssue) /\ computes' = computes
    BY <1>3 DEF MakeRoom
  <2>2. program = "accel" /\ Storing
    BY <2>1, <1>1 DEF NoStores, Storing
  <2>3. reads + loaded = 0 /\ lane # NumLanes /\ computes = 0
    BY <2>2, <1>1 DEF Phased, Tiled, Counters
  <2>4. toIssue \in Nat
    BY <1>1 DEF Counters
  <2> QED
    BY <2>1, <2>2, <2>3, <2>4, StoreWritesStep
<1> QED
  BY <1>2, <1>3

\* The accelerator turns to the tile of lane l that starts at start.
LEMMA LoadTileStep ==
    ASSUME ClientsInv, NEW l \in Nat, NEW start \in Nat, LoadTile(l, start),
           program = "accel", phase = "barrier",
           l < NumLanes, start < ElemsPerLane,
           phase' = "running",
           stored' \subseteq Before(l * ElemsPerLane + start),
           reads + writes = 0,
           UNCHANGED <<program, processed, loaded, writes, storesDue>>
    PROVE  ClientsInv'
<1> DEFINE pending == 2 * TileCount(start)
           n == Accepted(pending, outstanding)
<1>1. /\ lane' = l /\ tile' = start
      /\ toIssue' = pending - n
      /\ outstanding' = outstanding + n
      /\ reads' = reads + n
      /\ loads' = 0 + n
      /\ computes' = IF pending - n = 0 /\ 0 + n = 0
                       THEN computes + 1 ELSE computes
  BY DEF LoadTile, Pump, IssueReads, ComputeDue
<1>2. pending \in Nat \ {0}
  BY TileCountBounds, LaneSize
<1>3. Counters /\ Phased
  BY DEF ClientsInv
<1> HIDE DEF pending
<1>4. n \in 0 .. pending /\ reads + n <= ReadQueue
  BY <1>2, <1>3, AcceptedBounds DEF Counters
<1> HIDE DEF n
<1>5. reads = 0 /\ writes = 0 /\ loaded = 0 /\ computes = 0
  BY <1>3, Constants DEF Phased, Counters, Storing
<1>6. computes' = 0
  BY <1>1, <1>2, <1>4, <1>5
<1>7. Counters'
  BY <1>1, <1>2, <1>3, <1>4, <1>5, <1>6, Constants DEF Counters
<1>8. ~Storing' /\ phase' # "barrier"
  BY DEF Storing
<1>9. NoStores' /\ WindowKept' /\ Phased'
  BY <1>1, <1>4, <1>5, <1>6, <1>8 DEF NoStores, WindowKept, Phased
<1>10. Tiled'
  BY <1>1, <1>8, Constants DEF Tiled, ElemsPerLane
<1> QED
  BY <1>7, <1>9, <1>10 DEF ClientsInv

LEMMA NextTileStep ==
    ASSUME ClientsInv, NextTile
    PROVE  ClientsInv'
<1> DEFINE start == tile + TileCount(tile)
<1>1. /\ phase = "barrier" /\ reads + writes = 0
      /\ stored' = stored \cup Tile
      /\ phase' = "running"
      /\ UNCHANGED <<program, processed, loaded, writes, storesDue>>
  BY DEF NextTile, Flushed
<1>2. Counters /\ NoStores /\ WindowKept /\ Tiled /\ Phased
  BY DEF ClientsInv
<1>3. program = "accel" /\ Storing
  BY <1>1, <1>2 DEF NoStores, Storing
<1>4. /\ lane \in Nat /\ lane < NumLanes
      /\ tile \in Nat /\ tile < ElemsPerLane
      /\ toIssue = 0 /\ reads + loaded = 0 /\ computes = 0
  BY <1>1, <1>2, <1>3, Constants DEF Tiled, Phased, Counters
<1>5. TileCount(tile) \in 1 .. ElemsPerLane - tile /\ ElemsPerLane \in Nat \ {0}
  BY <1>4, TileCountBounds, LaneSize
<1>6. start \in Nat /\ start <= ElemsPerLane
  BY <1>4, <1>5
<1>7. stored' \subseteq Before(lane * ElemsPerLane + start)
  <2> DEFINE base == lane * ElemsPerLane
  <2>1. base \in Nat
    BY <1>4, <1>5
  <2>2. stored \subseteq Before(base + tile)
    BY <1>2, <1>3 DEF Tiled
  <2>3. Tile = {base + tile + k : k \in 0 .. TileCount(tile) - 1}
    BY DEF Tile
  <2> HIDE DEF base
  <2>4. Tile \subseteq Before(base + start)
    BY <2>1, <2>3, <1>4, <1>5 DEF Before
  <2>5. stored \subseteq Before(base + start)
    BY <2>1, <2>2, <1>4, <1>5 DEF Before
  <2> QED
    BY <2>4, <2>5, <1>1 DEF base
<1> HIDE DEF start
<1>8. CASE start < ElemsPerLane
  <2>1. LoadTile(lane, start)
    BY <1>8 DEF NextTile, start
  <2> QED
    BY <2>1, <1>1, <1>3, <1>4, <1>6, <1>7, <1>8, LoadTileStep
<1>9. CASE ~(start < ElemsPerLane)
  <2>1. start = ElemsPerLane
    BY <1>5, <1>6, <1>9
  <2>2. lane * ElemsPerLane + start = (lane + 1) * ElemsPerLane + 0
    BY <2>1, <1>4, <1>5
  <2>3. stored' \subseteq Before((lane + 1) * ElemsPerLane + 0)
    BY <2>2, <1>7
  <2>4. CASE lane + 1 < NumLanes
    <3>1. LoadTile(lane + 1, 0)
      BY <1>9, <2>4 DEF NextTile, start
    <3>2. lane + 1 \in Nat /\ 0 \in Nat /\ 0 < ElemsPerLane
      BY <1>4, <1>5
    <3> QED
      BY <3>1, <3>2, <2>3, <2>4, <1>1, <1>3, LoadTileStep
  <2>5. CASE ~(lane + 1 < NumLanes)
    <3>1. /\ lane' = lane + 1 /\ tile' = 0
          /\ UNCHANGED <<toIssue, outstanding, loads, computes, reads>>
      BY <1>9, <2>5 DEF NextTile, start
    <3>2. lane + 1 = NumLanes
      BY <1>4, <2>5, Constants
    <3>3. Counters'
      BY <3>1, <1>1, <1>2, Constants DEF Counters
    <3>4. ~Storing' /\ phase' # "barrier"
      BY <1>1 DEF Storing
    <3>5. writes' = 0
      BY <1>1, <1>2, Constants DEF Counters
    <3>6. NoStores' /\ WindowKept' /\ Phased'
      BY <3>1, <3>4, <3>5, <1>1, <1>2, <1>3, <1>4
         DEF NoStores, WindowKept, Phased
    <3>7. Tiled'
      BY <3>1, <3>2, <3>4, <2>3, <1>1, <1>4, <1>5, Constants
         DEF Tiled, ElemsPerLane
    <3> QED
      BY <3>3, <3>6, <3>7 DEF ClientsInv
  <2> QED
    BY <2>4, <2>5
<1> QED
  BY <1>8, <1>9

LEMMA ClientsInvariant == Spec => []ClientsInv
<1>1. ClientsInv /\ [Next]_vars => ClientsInv'
  <2> SUFFICES ASSUME ClientsInv, [Next]_vars
               PROVE  ClientsInv'
    OBVIOUS
  <2>1. CASE IssueLatency \/ IssueBandwidth
    BY <2>1, IssueStep
  <2>2. CASE ReturnBandwidth
    BY <2>2, ReturnStep
  <2>3. CASE TickServing(FALSE)
    <3>1. PICK r \in 0 .. ReadQueue, w \in 0 .. WriteQueue : Tick(r, w)
      BY <2>3 DEF TickServing
    <3>2. r \in Nat /\ w \in Nat
      BY <3>1, Constants
    <3> QED
      BY <3>1, <3>2, TickStep
  <2>4. CASE OnComplete
    BY <2>4, OnCompleteStep
  <2>5. CASE OnStoreDone
    BY <2>5, OnStoreDoneStep
  <2>6. CASE StoreTile \/ MakeRoom
    BY <2>6, StoreTileStep
  <2>7. CASE NextTile
    BY <2>7, NextTileStep
  <2>8. CASE UNCHANGED vars
    BY <2>8 DEF vars, control, dram, ClientsInv, Counters, NoStores,
               WindowKept, Tiled, Phased, Storing, ElemsPerLane
  <2> QED
    BY <2>1, <2>2, <2>3, <2>4, <2>5, <2>6, <2>7, <2>8 DEF Next, Finished
<1> QED
  BY <1>1, InitClients, PTL DEF Spec

\* The programs' counts stay counts, within the queues, and nothing is stored
\* outside of the vector (_next_tile(), accel_sim.py).
THEOREM CountsInRange == Spec => []TypeOK
<1>1. ClientsInv => TypeOK
  <2> SUFFICES ASSUME ClientsInv PROVE TypeOK
    OBVIOUS
  <2>1. Counters /\ NoStores /\ Tiled
    BY DEF ClientsInv
  <2>2. stored \subseteq 0 .. VectorSize - 1
    <3>1. CASE program # "accel"
      BY <3>1, <2>1 DEF NoStores
    <3>2. CASE program = "accel"
      <4> DEFINE size == lane * ElemsPerLane + tile
      <4>1. /\ lane \in Nat /\ lane <= NumLanes
            /\ tile \in Nat /\ tile < ElemsPerLane
            /\ lane = NumLanes => tile = 0
        BY <3>2, <2>1 DEF Counters, Tiled
      <4>3. stored \subseteq Before(size)
        BY <3>2, <2>1 DEF Tiled
      <4>2. size \in Nat /\ size <= VectorSize
        <5>1. CASE lane = NumLanes
          BY <5>1, <4>1, LaneSize, Constants
        <5>2. CASE lane + 1 <= NumLanes
          <6>1. (lane + 1) * ElemsPerLane <= NumLanes * ElemsPerLane
            BY <5>2, <4>1, LaneSize, Constants
          <6>2. (lane + 1) * ElemsPerLane = lane * ElemsPerLane + ElemsPerLane
            BY <4>1, LaneSize
          <6>3. lane * ElemsPerLane \in Nat
            BY <4>1, LaneSize
          <6> QED
            BY <6>1, <6>2, <6>3, <4>1, LaneSize, Constants
        <5> QED
          BY <5>1, <5>2, <4>1, Constants
      <4> HIDE DEF size
      <4> QED
        BY <4>2, <4>3, Constants DEF Before
    <3> QED
      BY <3>1, <3>2
  <2> QED
    BY <2>1, <2>2 DEF TypeOK, Counters
<1> QED
  BY <1>1, ClientsInvariant, PTL

\* The reads in flight are those the programs count, and no more than the
\* window (_issue() of SpMM, benchmark_bandwidth(), _pump_loads()).
THEOREM WindowCorrect == Spec => []WindowKept
<1>1. ClientsInv => WindowKept
  BY DEF ClientsInv
<1> QED
  BY <1>1, ClientsInvariant, PTL

\* Loads, compute and stores of a tile follow each other, and every tile is
\* stored once (_pump_loads(), _store_tile(), _next_tile()).
THEOREM BarrierCorrect == Spec => []StoresFollowLoads
<1>1. ClientsInv => StoresFollowLoads
  <2> SUFFICES ASSUME ClientsInv, program = "accel"
               PROVE  StoresFollowLoads
    BY DEF StoresFollowLoads
  <2>1. Counters /\ Tiled /\ Phased
    BY DEF ClientsInv
  <2>2. Tile \cap stored = {}
    <3> DEFINE base == lane * ElemsPerLane
    <3>1. base \in Nat /\ tile \in Nat
      BY <2>1, LaneSize DEF Counters
    <3>2. TileCount(tile) \in Int
      BY <2>1, TileCountBounds, LaneSize DEF Counters, Tiled
    <3>3. Tile = {base + tile + k : k \in 0 .. TileCount(tile) - 1}
      BY DEF Tile
    <3>4. stored \subseteq Before(base + tile)
      BY <2>1 DEF Tiled
    <3> HIDE DEF base
    <3> QED
      BY <3>1, <3>2, <3>3, <3>4 DEF Before
  <2> QED
    BY <2>1, <2>2 DEF StoresFollowLoads, Phased, Storing
<1> QED
  BY <1>1, ClientsInvariant, PTL
=============================================================================
