--------------------------- MODULE IndexerProofs ---------------------------
(***************************************************************************)
(* Theorems about Indexer, for every chain, every fault bound and every    *)
(* DB_FILL_STOP_BLOCK: first the headers and the caches of the loop, then  *)
(* the rows of all tables.                                                 *)
(***************************************************************************)
EXTENDS Indexer, FiniteSetTheorems, WellFoundedInduction, TLAPS

-----------------------------------------------------------------------------
(* Lemmas about the newest header.                                         *)

(* A bounded non-empty set of naturals has a largest element: the distance *)
(* to the bound has a smallest one.                                        *)
LEMMA LargestExists ==
    ASSUME NEW N \in Nat, NEW S \in SUBSET (0 .. N), S # {}
    PROVE  Largest(S) \in S /\ \A y \in S : y <= Largest(S)
<1> DEFINE R == {ss \in Nat \X Nat : ss[1] < ss[2]}
           T == {N - x : x \in S}
<1>1. IsWellFoundedOn(R, Nat)
  BY NatLessThanWellFounded DEF OpToRel
<1>2. T \subseteq Nat /\ T # {}
  <2>1. \A x \in S : x \in 0 .. N /\ N - x \in Nat
    OBVIOUS
  <2> QED BY <2>1, Zenon
<1>3. PICK t \in T : \A u \in T : <<u, t>> \notin R
  <2> HIDE DEF R, T
  <2> QED BY <1>1, <1>2, WFMin
<1>4. PICK x \in S : t = N - x
  BY <1>3
<1>5. \A y \in S : y <= x
  <2>1. SUFFICES ASSUME NEW y \in S, y > x PROVE FALSE
    OBVIOUS
  <2>2. N - y \in T /\ N - y \in Nat /\ N - x \in Nat /\ N - y < N - x
    BY <2>1
  <2>3. <<N - y, t>> \in R
    BY <2>2, <1>4
  <2> QED BY <2>2, <2>3, <1>3
<1> QED BY <1>5 DEF Largest

(* The largest element of the first m numbers is m - 1.                    *)
LEMMA LargestOfPrefix ==
    ASSUME NEW m \in Nat, m # 0
    PROVE  Largest(0 .. (m - 1)) = m - 1
<1>1. m - 1 \in 0 .. (m - 1) /\ 0 .. (m - 1) \in SUBSET (0 .. m)
  OBVIOUS
<1>2. /\ Largest(0 .. (m - 1)) \in 0 .. (m - 1)
      /\ \A y \in 0 .. (m - 1) : y <= Largest(0 .. (m - 1))
  BY <1>1, LargestExists, Zenon
<1> QED BY <1>1, <1>2

-----------------------------------------------------------------------------
(* Type correctness.                                                       *)

TypeInv == TypeOK /\ Working

(* The parts of the assumptions the steps need, each on its own.           *)
LEMMA Bounds ==
    MaxBlock \in Nat /\ MaxFaults \in Nat /\ FillStopBlock \in Nat /\ RowCap \in Nat \ {0}
  BY ChainShape, FaultModel

LEMMA EpochsAreBlocks == \A b \in Blocks : EpochOf[b] \in Blocks
  BY ChainShape

LEMMA EventsTyped ==
    ASSUME NEW b \in Blocks, NEW i \in Nat \ {0}, i <= Len(EventsOf[b])
    PROVE  EventsOf[b][i] \in Event
<1>1. EventsOf[b] \in Seq(Event)
  BY ChainShape
<1> QED BY <1>1

LEMMA NoRows == [e \in EventId |-> 0] \in [EventId -> 0 .. RowCap]
  BY Bounds

(* The tables one by one, and replacing one of them.                       *)
LEMMA TableTypes ==
    ASSUME NEW d \in Tables
    PROVE  /\ d.headers \in SUBSET HeaderRow
           /\ d.nodes \in SUBSET NodeRow
           /\ d.epochs \in SUBSET EpochRow
           /\ d.epochNodes \in SUBSET EpochNodeRow
           /\ d.avail \in SUBSET AvailableRow
           /\ d.hist \in HistCounts
  BY DEF Tables

LEMMA WithHeaders ==
    ASSUME NEW d \in Tables, NEW x \in SUBSET HeaderRow
    PROVE  [d EXCEPT !.headers = x] \in Tables
  BY DEF Tables

LEMMA WithNodes ==
    ASSUME NEW d \in Tables, NEW x \in SUBSET NodeRow
    PROVE  [d EXCEPT !.nodes = x] \in Tables
  BY DEF Tables

LEMMA WithEpochNodes ==
    ASSUME NEW d \in Tables, NEW x \in SUBSET EpochNodeRow
    PROVE  [d EXCEPT !.epochNodes = x] \in Tables
  BY DEF Tables

LEMMA WithEpochs ==
    ASSUME NEW d \in Tables, NEW x \in SUBSET EpochRow, NEW y \in SUBSET EpochNodeRow
    PROVE  [d EXCEPT !.epochs = x, !.epochNodes = y] \in Tables
  BY DEF Tables

LEMMA WithAvail ==
    ASSUME NEW d \in Tables, NEW x \in SUBSET AvailableRow
    PROVE  [d EXCEPT !.avail = x] \in Tables
  BY DEF Tables

LEMMA WithHist ==
    ASSUME NEW d \in Tables, NEW x \in HistCounts
    PROVE  [d EXCEPT !.hist = x] \in Tables
  BY DEF Tables

LEMMA EmptyDbTyped == EmptyDb \in Tables
<1>1. [k \in Pools \X Blocks |-> 0] \in HistCounts
  BY DEF HistCounts
<1> QED BY <1>1 DEF EmptyDb, Tables

(* What the tables say about their blocks, epochs and pools.               *)
LEMMA TableRanges ==
    ASSUME NEW d \in Tables
    PROVE  /\ HeaderBlocks(d) \in SUBSET Blocks
           /\ EpochIds(d) \in SUBSET Blocks
           /\ NodePools(d) \in SUBSET Pools
<1>1. HeaderBlocks(d) \in SUBSET Blocks
  BY TableTypes DEF HeaderBlocks, HeaderRow
<1>2. EpochIds(d) \in SUBSET Blocks
  BY TableTypes DEF EpochIds, EpochRow
<1>3. NodePools(d) \in SUBSET Pools
  BY TableTypes DEF NodePools, NodeRow
<1> QED BY <1>1, <1>2, <1>3

LEMMA TypeInit == Init => TypeInv
<1> SUFFICES ASSUME Init PROVE TypeInv
  OBVIOUS
<1>1. db \in Tables /\ work \in Tables /\ stakeTx \in [EventId -> 0 .. RowCap]
  BY EmptyDbTyped, NoRows DEF Init
<1>2. pc = "down" /\ aborted \in BOOLEAN /\ known \subseteq Pools
  BY DEF Init
<1>3. /\ chainHead \in Blocks /\ cur \in 0 .. (MaxBlock + 1) /\ latest \in Blocks
      /\ lastEpoch \in -1 .. MaxBlock /\ epochAfter \in -1 .. MaxBlock
      /\ before \in -1 .. MaxBlock /\ nextEvent \in Nat \ {0} /\ faults \in 0 .. MaxFaults
  BY Bounds DEF Init, Blocks
<1> QED BY <1>1, <1>2, <1>3 DEF TypeInv, TypeOK, Working, InTx, Running

LEMMA RowRecorded ==
    ASSUME stakeTx \in [EventId -> 0 .. RowCap], RecordStakeTransaction
    PROVE  stakeTx' \in [EventId -> 0 .. RowCap]
<1>1. \A n \in 0 .. RowCap : (IF n < RowCap THEN n + 1 ELSE n) \in 0 .. RowCap
  BY Bounds
<1> QED BY <1>1 DEF RecordStakeTransaction

LEMMA CountUp ==
    ASSUME NEW K, NEW h \in [K -> 0 .. 2], NEW k \in K, h[k] # 2
    PROVE  [h EXCEPT ![k] = h[k] + 1] \in [K -> 0 .. 2]
<1>1. h[k] + 1 \in 0 .. 2
  OBVIOUS
<1> QED BY <1>1

LEMMA WithMovementTyped ==
    ASSUME NEW d \in Tables, NEW p \in Pools, cur \in Blocks, d.hist[<<p, cur>>] # 2
    PROVE  WithMovement(d, p) \in Tables
<1> DEFINE k == <<p, cur>>
           h == [d.hist EXCEPT ![k] = d.hist[k] + 1]
<1>1. k \in Pools \X Blocks /\ d.hist \in [Pools \X Blocks -> 0 .. 2]
  BY TableTypes DEF HistCounts
<1>2. h \in HistCounts
  <2> HIDE DEF k
  <2>1. d.hist[k] # 2
    BY DEF k
  <2> QED BY <1>1, <2>1, CountUp DEF HistCounts
<1>3. WithMovement(d, p) = [d EXCEPT !.hist = h]
  BY DEF WithMovement
<1> HIDE DEF h
<1> QED BY <1>2, <1>3, WithHist

LEMMA WithNodeTyped ==
    ASSUME NEW d \in Tables, NEW p \in Pools, cur \in Blocks
    PROVE  WithNode(d, p) \in Tables
<1>1. [pool |-> p, added |-> cur] \in NodeRow
  BY DEF NodeRow
<1> QED BY <1>1, TableTypes, WithNodes DEF WithNode

LEMMA TypeStep == TypeInv /\ [Next]_vars => TypeInv'
<1> SUFFICES ASSUME TypeInv, [Next]_vars PROVE TypeInv'
  OBVIOUS
<1> USE Bounds DEF Blocks, TypeInv
<1>1. CASE ChainGrows
  BY <1>1 DEF ChainGrows, TypeOK, Working, InTx, Running, memory
<1>2. CASE Startup
  <2>1. ResumeBlock \in 0 .. (MaxBlock + 1)
    <3>1. HeaderBlocks(db) \in SUBSET (0 .. MaxBlock)
      BY TableRanges DEF TypeOK
    <3>2. HeaderBlocks(db) # {} => Largest(HeaderBlocks(db)) \in 0 .. MaxBlock
      BY <3>1, LargestExists
    <3> QED BY <3>2 DEF ResumeBlock
  <2>2. ResumeEpoch \in -1 .. MaxBlock
    <3>1. EpochIds(db) \in SUBSET (0 .. MaxBlock)
      BY TableRanges DEF TypeOK
    <3>2. EpochIds(db) # {} => Largest(EpochIds(db)) \in 0 .. MaxBlock
      BY <3>1, LargestExists
    <3> QED BY <3>2 DEF ResumeEpoch
  <2>3. ResumeNodes \subseteq Pools
    BY TableRanges DEF TypeOK, ResumeNodes
  <2> QED BY <1>2, <2>1, <2>2, <2>3
        DEF Startup, ResumeBefore, TypeOK, Working, InTx, Running
<1>3. CASE InitCaches
  BY <1>3 DEF InitCaches, TypeOK, Working, InTx, Running, memory
<1>4. CASE InitFails
  BY <1>4 DEF InitFails, TypeOK, Working, InTx, Running, memory
<1>5. CASE LoopEnds
  BY <1>5 DEF LoopEnds, TypeOK, Working, InTx, Running, memory
<1>6. CASE AutoStop
  BY <1>6 DEF AutoStop, TypeOK, Working, InTx, Running, memory
<1>7. CASE BeginBlock
  BY <1>7 DEF BeginBlock, TypeOK, Working, InTx, Running, memory
<1>8. CASE InsertHeader
  <2>1. cur \in Blocks /\ EpochOf[cur] \in Blocks
    BY <1>8, EpochsAreBlocks DEF InsertHeader, TypeOK, Working, InTx
  <2>2. work' \in Tables
    <3>1. [block |-> cur, before |-> before] \in HeaderRow
      BY <2>1 DEF TypeOK, HeaderRow
    <3>2. HeaderRows(work) \in SUBSET HeaderRow
      BY <3>1, TableTypes DEF HeaderRows, TypeOK
    <3> QED BY <1>8, <3>2, WithHeaders DEF InsertHeader, TypeOK
  <2> QED BY <1>8, <2>1, <2>2 DEF InsertHeader, TypeOK, Working, InTx, Running
<1>9. ASSUME NEW p \in Pools, InsertNode(p) PROVE TypeInv'
  <2>1. cur \in Blocks
    BY <1>9 DEF InsertNode, TypeOK, Working, InTx
  <2>2. work' \in Tables
    BY <1>9, <2>1, WithNodeTyped DEF InsertNode, TypeOK
  <2> QED BY <1>9, <2>1, <2>2 DEF InsertNode, TypeOK, Working, InTx, Running
<1>10. CASE NodesInserted
  BY <1>10 DEF NodesInserted, TypeOK, Working, InTx, Running, memory
<1>11. CASE SameEpoch
  BY <1>11 DEF SameEpoch, TypeOK, Working, InTx, Running, memory
<1>12. CASE SwitchEpoch
  <2>1. cur \in Blocks /\ epochAfter \in Blocks
    BY <1>12, EpochsAreBlocks DEF SwitchEpoch, TypeOK, Working, InTx
  <2>2. work' \in Tables
    <3>1. EndStakingEpoch(work.epochs)
             \in SUBSET EpochRow
      BY <2>1, TableTypes DEF EndStakingEpoch, EpochRow, TypeOK
    <3>2. UpdateValidatorReward(work.epochNodes)
             \in SUBSET EpochNodeRow
      BY TableTypes DEF UpdateValidatorReward, EpochNodeRow, TypeOK
    <3>3. [id |-> epochAfter, start |-> cur, end |-> NULL] \in EpochRow
      BY <2>1 DEF EpochRow, NULL
    <3> QED BY <1>12, <3>1, <3>2, <3>3, WithEpochs DEF SwitchEpoch, TypeOK
  <2> QED BY <1>12, <2>1, <2>2 DEF SwitchEpoch, memory, TypeOK, Working, InTx, Running
<1>13. CASE SwitchEpochFails
  BY <1>13 DEF SwitchEpochFails, RollBack, Discard, TypeOK, Working, InTx, Running, memory, Inject
<1>14. ASSUME NEW p \in Pools, InsertEpochNode(p) PROVE TypeInv'
  <2>1. cur \in Blocks /\ epochAfter \in Blocks
    BY <1>14, EpochsAreBlocks DEF InsertEpochNode, TypeOK, Working, InTx
  <2>2. WithNode(work, p) \in Tables
    BY <2>1, WithNodeTyped DEF TypeOK
  <2>3. work' \in Tables
    <3> DEFINE d == IF p \in known THEN work ELSE WithNode(work, p)
               row == [epoch |-> epochAfter, pool |-> p, rewarded |-> FALSE]
    <3>1. d \in Tables
      BY <2>2 DEF TypeOK
    <3>2. row \in EpochNodeRow
      BY <2>1 DEF EpochNodeRow
    <3>3. work' = [d EXCEPT !.epochNodes = d.epochNodes \cup {row}]
      BY <1>14 DEF InsertEpochNode
    <3> HIDE DEF d, row
    <3> QED BY <3>1, <3>2, <3>3, TableTypes, WithEpochNodes
  <2> QED BY <1>14, <2>1, <2>3 DEF InsertEpochNode, TypeOK, Working, InTx, Running
<1>15. ASSUME NEW p \in Pools, InsertEpochNodeFails(p) PROVE TypeInv'
  BY <1>15 DEF InsertEpochNodeFails, RollBack, Discard, TypeOK, Working, InTx, Running, memory, Inject
<1>16. CASE ValidatorsInserted
  BY <1>16 DEF ValidatorsInserted, TypeOK, Working, InTx, Running, memory
<1>17. CASE VisitStakeEvent
  <2>1. cur \in Blocks /\ CurrentEvent \in Event
    BY <1>17, EventsTyped DEF VisitStakeEvent, Visiting, CurrentEvent, TypeOK, Working, InTx
  <2>2. stakeTx' \in [EventId -> 0 .. RowCap]
    BY <1>17, RowRecorded DEF VisitStakeEvent, TypeOK
  <2>3. work' \in Tables
    BY <1>17, <2>1, WithMovementTyped DEF VisitStakeEvent, StakeRefused, Event, TypeOK
  <2> QED BY <1>17, <2>1, <2>2, <2>3 DEF VisitStakeEvent, Visiting, TypeOK, Working, InTx, Running
<1>18. CASE VisitStakeEventFails
  <2>2. stakeTx' \in [EventId -> 0 .. RowCap]
    BY <1>18, RowRecorded DEF VisitStakeEventFails, TypeOK
  <2> QED BY <1>18, <2>2
        DEF VisitStakeEventFails, RollBack, Discard, TypeOK, Working, InTx, Running
<1>19. CASE VisitAvailabilityEvent
  <2>1. cur \in Blocks /\ CurrentEvent \in Event
    <3>1. cur \in Blocks /\ nextEvent \in Nat \ {0} /\ nextEvent <= Len(EventsOf[cur])
      BY <1>19 DEF VisitAvailabilityEvent, Visiting, TypeOK, Working, InTx
    <3> QED BY <3>1, EventsTyped DEF CurrentEvent
  <2>2. work' \in Tables
    <3>1. AvailRow \in AvailableRow
      BY <2>1 DEF AvailRow, AvailableRow, Event
    <3> QED BY <1>19, <3>1, TableTypes, WithAvail DEF VisitAvailabilityEvent, TypeOK
  <2>3. /\ UNCHANGED <<chainHead, db, stakeTx, aborted, pc, cur, latest, lastEpoch, epochAfter,
                       before, known, faults>>
        /\ nextEvent' = nextEvent + 1
    BY <1>19 DEF VisitAvailabilityEvent
  <2>4. TypeOK'
    BY <2>2, <2>3 DEF TypeOK
  <2>5. Working'
    BY <2>3 DEF TypeOK, Working, InTx, Running
  <2> QED BY <2>4, <2>5
<1>20. CASE VisitAvailabilityEventFails
  BY <1>20 DEF VisitAvailabilityEventFails, RollBack, Discard, TypeOK, Working, InTx, Running, memory, Inject
<1>21. CASE EventsVisited
  BY <1>21 DEF EventsVisited, TypeOK, Working, InTx, Running, memory
<1>22. CASE ObserveAndScore
  BY <1>22 DEF ObserveAndScore, TypeOK, Working, InTx, Running, memory
<1>23. CASE ScoreStatementSwallowed
  BY <1>23 DEF ScoreStatementSwallowed, Inject, TypeOK, Working, InTx, Running, memory
<1>24. CASE Commit
  <2>1. Committed \in Tables
    BY DEF Committed, TypeOK
  <2>2. cur \in Blocks /\ epochAfter = EpochOf[cur] /\ lastEpoch' \in -1 .. MaxBlock
    BY <1>24 DEF Commit, TypeOK, Working, InTx
  <2>3. db' \in Tables /\ work' \in Tables /\ aborted' \in BOOLEAN
    BY <1>24, <2>1 DEF Commit
  <2> QED BY <1>24, <2>2, <2>3 DEF Commit, TypeOK, Working, InTx, Running
<1>25. CASE CommitAnswerLost
  <2>1. Committed \in Tables
    BY DEF Committed, TypeOK
  <2>2. db' \in Tables /\ work' \in Tables /\ aborted' \in BOOLEAN
    BY <1>25, <2>1 DEF CommitAnswerLost
  <2>3. faults' \in 0 .. MaxFaults
    BY <1>25 DEF CommitAnswerLost, Inject, TypeOK
  <2> QED BY <1>25, <2>2, <2>3
        DEF CommitAnswerLost, TypeOK, Working, InTx, Running, memory
<1>26. CASE BlockFails
  <2>1. faults' \in 0 .. MaxFaults
    BY <1>26 DEF BlockFails, Inject, TypeOK
  <2>2. db' \in Tables /\ work' \in Tables /\ aborted' \in BOOLEAN
    BY <1>26 DEF BlockFails, RollBack, Discard, TypeOK
  <2> QED BY <1>26, <2>1, <2>2 DEF BlockFails, RollBack, Discard, TypeOK, Working, InTx, Running, memory
<1>27. CASE Advance
  BY <1>27 DEF Advance, TypeOK, Working, InTx, Running, memory
<1>28. CASE Poll
  BY <1>28 DEF Poll, TypeOK, Working, InTx, Running, memory
<1>29. CASE PollFails
  BY <1>29 DEF PollFails, Inject, TypeOK, Working, InTx, Running, memory
<1>30. CASE Crash
  <2>1. faults' \in 0 .. MaxFaults
    BY <1>30 DEF Crash, Inject, TypeOK
  <2>2. db' \in Tables /\ work' \in Tables /\ aborted' \in BOOLEAN
    BY <1>30 DEF Crash, Discard, TypeOK
  <2> QED BY <1>30, <2>1, <2>2 DEF Crash, Discard, TypeOK, Working, InTx, Running, memory
<1>31. CASE UNCHANGED vars
  BY <1>31 DEF vars, memory, TypeOK, Working, InTx, Running
<1>32. CASE ScoreStatementRefused
  BY <1>32 DEF ScoreStatementRefused, TypeOK, Working, InTx, Running, memory
<1> QED BY <1>1, <1>2, <1>3, <1>4, <1>5, <1>6, <1>7, <1>8, <1>9, <1>10, <1>11, <1>12, <1>13, <1>14, <1>15, <1>16, <1>17, <1>18, <1>19, <1>20, <1>21, <1>22, <1>23, <1>24, <1>25, <1>26, <1>27, <1>28, <1>29, <1>30, <1>31, <1>32
      DEF Next, Process, Fault

(* Every variable has its type in every reachable state, whatever faults   *)
(* the environment injects; in a transaction the process works on an       *)
(* existing block and knows its epoch.                                     *)
THEOREM TypeCorrect == Spec => []TypeInv
<1>1. Init => TypeInv
  BY TypeInit
<1>2. TypeInv /\ [Next]_vars => TypeInv'
  BY TypeStep
<1> QED BY <1>1, <1>2, PTL DEF Spec

(* The run's invariant TypeOK.                                             *)
THEOREM Typing == Spec => []TypeOK
<1>1. TypeInv => TypeOK
  BY DEF TypeInv
<1> QED BY <1>1, TypeCorrect, PTL

-----------------------------------------------------------------------------
(* The database is a prefix of the chain.  A swallowed statement error     *)
(* (fault "swallow") loses a block, so the theorem excludes it.            *)

NoSwallow == "swallow" \notin Faults

LEMMA EpochSteps ==
    ASSUME NEW m \in Blocks
    PROVE  /\ EpochBefore(m + 1) = EpochOf[m]
           /\ EpochBefore(m + 1) \in {EpochBefore(m), EpochBefore(m) + 1}
           /\ EpochBefore(m) \in -1 .. MaxBlock
           /\ EpochBefore(m + 1) \in 0 .. MaxBlock
<1>1. EpochOf[m] \in 0 .. MaxBlock
  BY EpochsAreBlocks DEF Blocks
<1>2. EpochBefore(m + 1) = EpochOf[m]
  BY Bounds DEF EpochBefore, Blocks
<1>3. CASE m = 0
  BY <1>1, <1>2, <1>3, EpochsCountUp, Bounds DEF EpochBefore
<1>4. CASE m # 0
  <2>1. m \in 1 .. MaxBlock /\ m - 1 \in Blocks
    BY <1>4, Bounds DEF Blocks
  <2>2. EpochOf[m] \in {EpochOf[m - 1], EpochOf[m - 1] + 1}
    BY <2>1, EpochsCountUp
  <2>3. EpochBefore(m) = EpochOf[m - 1] /\ EpochOf[m - 1] \in 0 .. MaxBlock
    BY <1>4, <2>1, EpochsAreBlocks DEF EpochBefore, Blocks
  <2> QED BY <1>1, <1>2, <2>2, <2>3
<1> QED BY <1>3, <1>4

(* Holds looks at the headers and the epoch numbers only.                  *)
LEMMA HoldsSame ==
    ASSUME NEW d, NEW e, NEW m, NEW k,
           e.headers = d.headers, EpochIds(e) = EpochIds(d), Holds(d, m, k)
    PROVE  Holds(e, m, k)
  BY DEF Holds, HeaderBlocks

LEMMA NodeKeeps ==
    ASSUME NEW d \in Tables, NEW p
    PROVE  WithNode(d, p).headers = d.headers /\ EpochIds(WithNode(d, p)) = EpochIds(d)
  BY DEF WithNode, Tables, EpochIds

LEMMA MovementKeeps ==
    ASSUME NEW d \in Tables, NEW p
    PROVE  /\ WithMovement(d, p).headers = d.headers
           /\ EpochIds(WithMovement(d, p)) = EpochIds(d)
  BY DEF WithMovement, Tables, EpochIds

(* The header of the block in hand extends the prefix, or is there.        *)
LEMMA HeaderExtends ==
    ASSUME TypeOK, cur \in Blocks, NEW m \in 0 .. (MaxBlock + 1), NEW k,
           Holds(work, m, k), Caches(m)
    PROVE  Holds([work EXCEPT !.headers = HeaderRows(work)], Longer(m), k)
<1> DEFINE w == [work EXCEPT !.headers = HeaderRows(work)]
<1>1. w.headers = HeaderRows(work) /\ EpochIds(w) = EpochIds(work)
  BY DEF TypeOK, Tables, EpochIds
<1>2. CASE cur = m
  <2>1. before = cur - 1 /\ cur \notin HeaderBlocks(work)
    BY <1>2, Bounds DEF Caches, Holds, Blocks
  <2>2. w.headers = work.headers \cup {[block |-> cur, before |-> cur - 1]}
    BY <1>1, <2>1 DEF HeaderRows
  <2>3. HeaderBlocks(w) = HeaderBlocks(work) \cup {cur}
    <3> DEFINE r == [block |-> cur, before |-> cur - 1]
    <3>2. r.block = cur
      OBVIOUS
    <3> HIDE DEF w, r
    <3>3. \A b : b \in HeaderBlocks(w) <=> \E h \in w.headers : b = h.block
      BY DEF HeaderBlocks
    <3>4. \A b : b \in HeaderBlocks(work) <=> \E h \in work.headers : b = h.block
      BY DEF HeaderBlocks
    <3>5. w.headers = work.headers \cup {r}
      BY <2>2 DEF r
    <3>6. \A b : b \in HeaderBlocks(w) <=> b \in HeaderBlocks(work) \cup {cur}
      BY <3>2, <3>3, <3>4, <3>5
    <3> QED BY <3>6
  <2>4. HeaderBlocks(w) = 0 .. (m + 1 - 1)
    <3>1. m \in Nat /\ HeaderBlocks(w) = (0 .. (m - 1)) \cup {m}
      BY <1>2, <2>3, Bounds DEF Holds, Blocks
    <3> HIDE DEF w
    <3> QED BY <3>1
  <2>5. \A h \in w.headers : h.before = h.block - 1
    BY <2>2 DEF Holds
  <2> QED BY <1>1, <1>2, <2>4, <2>5 DEF Holds, Longer
<1>3. CASE cur # m
  <2>1. cur \in HeaderBlocks(work)
    BY <1>3, Bounds DEF Caches, Holds, Blocks
  <2> QED BY <1>1, <1>3, <2>1, HoldsSame DEF HeaderRows, Longer
<1> QED BY <1>2, <1>3

(* What the process believes about the epoch of the block in hand.         *)
LEMMA EpochInHand ==
    ASSUME TypeOK, cur \in Blocks, NEW m \in 0 .. (MaxBlock + 1), Caches(m),
           epochAfter = EpochOf[cur]
    PROVE  /\ epochAfter \in 0 .. MaxBlock
           /\ lastEpoch \in -1 .. MaxBlock
           /\ cur = m => /\ epochAfter = EpochBefore(m + 1)
                         /\ lastEpoch = EpochBefore(m)
                         /\ epochAfter \in {lastEpoch, lastEpoch + 1}
           /\ cur = m - 1 => /\ epochAfter = EpochBefore(m)
                             /\ lastEpoch \in {epochAfter, epochAfter - 1}
<1>1. epochAfter \in 0 .. MaxBlock /\ lastEpoch \in -1 .. MaxBlock
  BY EpochsAreBlocks DEF TypeOK, Blocks
<1>2. CASE cur = m
  <2>1. lastEpoch = EpochBefore(m)
    BY <1>2, Bounds DEF Caches
  <2>2. cur # m - 1
    BY <1>2, Bounds
  <2> QED BY <1>1, <1>2, <2>1, <2>2, EpochSteps
<1>3. CASE cur = m - 1
  <2>1. cur # m /\ cur + 1 = m
    BY <1>3, Bounds
  <2>2. lastEpoch \in {EpochBefore(cur), EpochBefore(m)}
    BY <1>3, <2>1 DEF Caches
  <2>3. /\ EpochBefore(m) = EpochOf[cur]
        /\ EpochBefore(m) \in {EpochBefore(cur), EpochBefore(cur) + 1}
        /\ EpochBefore(cur) \in -1 .. MaxBlock
    BY <2>1, EpochSteps
  <2> QED BY <1>1, <2>1, <2>2, <2>3, Bounds
<1>4. cur = m \/ cur = m - 1
  BY DEF Caches
<1> QED BY <1>2, <1>3, <1>4

(* A block of the running epoch opens none.                                *)
LEMMA EpochStays ==
    ASSUME TypeOK, cur \in Blocks, NEW m \in 0 .. (MaxBlock + 1), Caches(m),
           epochAfter = EpochOf[cur], epochAfter <= lastEpoch,
           Holds(work, Longer(m), m)
    PROVE  Holds(work, Longer(m), Longer(m))
<1>1. CASE cur = m
  <2>1. EpochBefore(m + 1) = EpochBefore(m)
    BY <1>1, EpochInHand
  <2> QED BY <1>1, <2>1 DEF Holds, Longer
<1>2. CASE cur # m
  BY <1>2 DEF Longer
<1> QED BY <1>1, <1>2

(* The primary key of posdao_epoch admits a new epoch only together with a *)
(* new block, and it is the next one.                                      *)
LEMMA EpochOpened ==
    ASSUME TypeOK, cur \in Blocks, NEW m \in 0 .. (MaxBlock + 1), Caches(m),
           epochAfter = EpochOf[cur], epochAfter > lastEpoch,
           epochAfter \notin EpochIds(work), Holds(work, Longer(m), m),
           NEW d, d.headers = work.headers, EpochIds(d) = EpochIds(work) \cup {epochAfter}
    PROVE  Holds(d, Longer(m), Longer(m))
<1>1. cur = m \/ cur = m - 1
  BY DEF Caches
<1>2. EpochIds(work) = 0 .. EpochBefore(m)
  BY DEF Holds
<1>3. cur = m
  <2>1. SUFFICES ASSUME cur = m - 1 PROVE FALSE
    BY <1>1
  <2>2. epochAfter = EpochBefore(m) /\ epochAfter \in 0 .. MaxBlock
    BY <2>1, EpochInHand
  <2> QED BY <1>2, <2>2, Bounds
<1>4. /\ epochAfter = EpochBefore(m + 1) /\ epochAfter = EpochBefore(m) + 1
      /\ epochAfter \in 0 .. MaxBlock /\ EpochBefore(m) \in -1 .. MaxBlock
  BY <1>3, EpochInHand, Bounds
<1>5. EpochIds(d) = 0 .. EpochBefore(m + 1)
  BY <1>2, <1>4, Bounds
<1>6. Longer(m) = m + 1
  BY <1>3 DEF Longer
<1> QED BY <1>5, <1>6 DEF Holds, HeaderBlocks

(* endStakingEpoch and insertStakingEpoch.                                 *)
LEMMA EpochRows ==
    ASSUME TypeOK, NEW i
    PROVE  {r.id : r \in EndStakingEpoch(work.epochs)
                             \cup {[id |-> i, start |-> cur, end |-> NULL]}}
               = EpochIds(work) \cup {i}
<1> DEFINE r0 == [id |-> i, start |-> cur, end |-> NULL]
           f(r) == IF r.id = lastEpoch THEN [r EXCEPT !.end = cur - 1] ELSE r
           S == work.epochs
<1>1. \A r \in S : f(r).id = r.id
  BY TableRanges DEF TypeOK, EpochRow
<1>2. r0.id = i
  OBVIOUS
<1>3. EndStakingEpoch(S) = {f(r) : r \in S}
  BY DEF EndStakingEpoch
<1>4. EpochIds(work) = {r.id : r \in S}
  BY DEF EpochIds
<1> HIDE DEF f, r0, S
<1>5. \A e : e \in {r.id : r \in {f(r) : r \in S} \cup {r0}} <=> e \in {r.id : r \in S} \cup {i}
  BY <1>1, <1>2
<1>6. {r.id : r \in {f(r) : r \in S} \cup {r0}} = {r.id : r \in S} \cup {i}
  BY <1>5
<1> QED BY <1>3, <1>4, <1>6 DEF S, r0

(* Startup reads the end of the prefix from the database.                  *)
LEMMA Resumes ==
    ASSUME NEW m \in 0 .. (MaxBlock + 1), Holds(db, m, m)
    PROVE  ResumeBlock = m /\ ResumeEpoch = EpochBefore(m) /\ ResumeBefore = m - 1
<1>1. m \in Nat /\ HeaderBlocks(db) = 0 .. (m - 1) /\ EpochIds(db) = 0 .. EpochBefore(m)
  BY Bounds DEF Holds
<1>2. CASE m = 0
  <2>1. 0 .. (m - 1) = {} /\ EpochBefore(m) = -1 /\ 0 .. EpochBefore(m) = {}
    BY <1>2 DEF EpochBefore
  <2> QED BY <1>1, <1>2, <2>1 DEF ResumeBlock, ResumeEpoch, ResumeBefore
<1>3. CASE m # 0
  <2>1. 0 .. (m - 1) # {} /\ Largest(0 .. (m - 1)) = m - 1
    BY <1>1, <1>3, LargestOfPrefix
  <2>2. m - 1 \in Blocks /\ (m - 1) + 1 = m
    BY <1>3, Bounds DEF Blocks
  <2>3. EpochBefore(m) \in Nat
    BY <2>2, EpochSteps, Bounds
  <2>4. PICK k \in Nat : k # 0 /\ k - 1 = EpochBefore(m)
    <3>1. PICK e \in Nat : e = EpochBefore(m)
      BY <2>3
    <3>2. e + 1 \in Nat /\ e + 1 # 0 /\ (e + 1) - 1 = e
      OBVIOUS
    <3> QED BY <3>1, <3>2
  <2>5. 0 .. EpochBefore(m) # {} /\ Largest(0 .. EpochBefore(m)) = EpochBefore(m)
    <3>1. Largest(0 .. (k - 1)) = k - 1
      BY <2>4, LargestOfPrefix
    <3> QED BY <2>3, <2>4, <3>1
  <2> QED BY <1>1, <2>1, <2>2, <2>5 DEF ResumeBlock, ResumeEpoch, ResumeBefore
<1> QED BY <1>2, <1>3

LEMMA PrefixInit == Init => PrefixInv
<1>1. 0 \in 0 .. (MaxBlock + 1) /\ EpochBefore(0) = -1 /\ 0 .. -1 = {}
  BY Bounds DEF EpochBefore
<1>2. Init => Holds(EmptyDb, 0, 0)
  BY <1>1 DEF EmptyDb, Holds, HeaderBlocks, EpochIds
<1> QED BY <1>1, <1>2 DEF Init, PrefixInv, PrefixAt, InTx

(* A failure inside the transaction leaves the prefix where it was.        *)
LEMMA RollBackKeeps ==
    ASSUME NEW m, PrefixAt(m), pc \in InTx, RollBack
    PROVE  PrefixAt(m)' /\ aborted' = FALSE /\ work' = db'
  BY DEF PrefixAt, Caches, Longer, InTx, RollBack, Discard

(* A step inside the transaction that leaves headers and epochs alone.     *)
LEMMA WorkKeeps ==
    ASSUME NEW m, PrefixAt(m), PrefixInv,
           pc \in {"nodes", "validators", "events"}, pc' = pc,
           work'.headers = work.headers, EpochIds(work)' = EpochIds(work),
           UNCHANGED <<db, aborted, cur, lastEpoch, before>>
    PROVE  PrefixAt(m)' /\ aborted' = FALSE
<1>1. \A k : Holds(work, Longer(m), k) => Holds(work', Longer(m), k)
  BY DEF Holds, HeaderBlocks, EpochIds
<1>2. Longer(m)' = Longer(m)
  BY DEF Longer
<1>3. Caches(m)' = Caches(m)
  BY DEF Caches
<1> QED BY <1>1, <1>2, <1>3 DEF PrefixAt, PrefixInv, InTx

LEMMA PrefixStep == NoSwallow /\ TypeInv /\ PrefixInv /\ [Next]_vars => PrefixInv'
<1> SUFFICES ASSUME NoSwallow, TypeInv, PrefixInv, [Next]_vars
             PROVE  PrefixInv'
  OBVIOUS
<1> USE DEF TypeInv
<1>0. PICK m \in 0 .. (MaxBlock + 1) : PrefixAt(m)
  BY DEF PrefixInv
<1>a. SUFFICES /\ aborted' = FALSE
               /\ pc' \notin InTx \ {"header"} => work' = db'
               /\ \E k \in 0 .. (MaxBlock + 1) : PrefixAt(k)'
  BY DEF PrefixInv
<1>b. pc \in InTx \cup {"poll"} => cur \in Blocks
  BY DEF TypeOK, Working, Blocks
<1>1. CASE ChainGrows
  BY <1>0, <1>1 DEF ChainGrows, PrefixInv, PrefixAt, Caches, Longer, InTx, memory
<1>2. CASE InitCaches
  BY <1>0, <1>2 DEF InitCaches, PrefixInv, PrefixAt, Caches, Longer, InTx, memory
<1>3. CASE InitFails
  BY <1>0, <1>3 DEF InitFails, PrefixInv, PrefixAt, Caches, Longer, InTx, memory
<1>4. CASE LoopEnds
  BY <1>0, <1>4 DEF LoopEnds, PrefixInv, PrefixAt, Caches, Longer, InTx, memory
<1>5. CASE AutoStop
  BY <1>0, <1>5 DEF AutoStop, PrefixInv, PrefixAt, Caches, Longer, InTx, memory
<1>6. CASE NodesInserted
  BY <1>0, <1>6 DEF NodesInserted, PrefixInv, PrefixAt, Caches, Longer, InTx, memory
<1>7. CASE ValidatorsInserted
  BY <1>0, <1>7 DEF ValidatorsInserted, PrefixInv, PrefixAt, Caches, Longer, InTx, memory
<1>8. CASE EventsVisited
  BY <1>0, <1>8 DEF EventsVisited, PrefixInv, PrefixAt, Caches, Longer, InTx, memory
<1>9. CASE ObserveAndScore
  BY <1>0, <1>9 DEF ObserveAndScore, PrefixInv, PrefixAt, Caches, Longer, InTx, memory
<1>10. CASE Poll
  BY <1>0, <1>10 DEF Poll, PrefixInv, PrefixAt, Caches, Longer, InTx, memory
<1>11. CASE SwitchEpochFails
  <2>1. RollBack /\ pc \in InTx
    BY <1>11 DEF SwitchEpochFails, Visiting, InTx
  <2> QED BY <1>0, <2>1, RollBackKeeps
<1>12. CASE VisitStakeEventFails
  <2>1. RollBack /\ pc \in InTx
    BY <1>12 DEF VisitStakeEventFails, Visiting, InTx
  <2> QED BY <1>0, <2>1, RollBackKeeps
<1>13. CASE VisitAvailabilityEventFails
  <2>1. RollBack /\ pc \in InTx
    BY <1>13 DEF VisitAvailabilityEventFails, Visiting, InTx
  <2> QED BY <1>0, <2>1, RollBackKeeps
<1>14. CASE BlockFails
  <2>1. RollBack /\ pc \in InTx
    BY <1>14 DEF BlockFails, Visiting, InTx
  <2> QED BY <1>0, <2>1, RollBackKeeps
<1>15. CASE Startup
  <2>1. cur' = m /\ lastEpoch' = EpochBefore(m) /\ before' = m - 1
    BY <1>0, <1>15, Resumes DEF Startup, PrefixAt
  <2> QED BY <1>0, <2>1, <1>15 DEF Startup, PrefixInv, PrefixAt, Caches, InTx
<1>16. CASE BeginBlock
  <2>1. Holds(work, m, m) /\ Caches(m)
    BY <1>0, <1>16 DEF BeginBlock, PrefixInv, PrefixAt, InTx
  <2> QED BY <1>0, <2>1, <1>16 DEF BeginBlock, PrefixInv, PrefixAt, Caches, InTx
<1>17. CASE InsertHeader
  <2>1. Holds(work, m, m) /\ Caches(m) /\ cur \in Blocks
    BY <1>0, <1>b, <1>17 DEF InsertHeader, PrefixInv, PrefixAt, InTx
  <2>2. Holds(work', Longer(m), m)
    BY <2>1, <1>17, HeaderExtends DEF InsertHeader
  <2>3. Longer(m)' = Longer(m) /\ Caches(m)'
    BY <2>1, <1>17 DEF InsertHeader, Longer, Caches
  <2> QED BY <1>0, <2>2, <2>3, <1>17 DEF InsertHeader, PrefixInv, PrefixAt, InTx
<1>18. CASE \E p \in Pools : InsertNode(p)
  <2>1. work'.headers = work.headers /\ EpochIds(work)' = EpochIds(work)
    BY <1>18, NodeKeeps DEF InsertNode, TypeOK, EpochIds
  <2> QED BY <1>0, <2>1, <1>18, WorkKeeps DEF InsertNode, InTx
<1>19. CASE SameEpoch
  <2>1. Holds(work, Longer(m), m) /\ Caches(m) /\ cur \in Blocks /\ epochAfter = EpochOf[cur]
    BY <1>0, <1>b, <1>19 DEF SameEpoch, PrefixAt, InTx, Working
  <2>2. Holds(work, Longer(m), Longer(m))
    BY <2>1, <1>19, EpochStays DEF SameEpoch
  <2>3. Longer(m)' = Longer(m) /\ Caches(m)'
    BY <2>1, <1>19 DEF SameEpoch, memory, Longer, Caches
  <2> QED BY <1>0, <2>2, <2>3, <1>19 DEF SameEpoch, PrefixInv, PrefixAt, InTx, memory
<1>20. CASE SwitchEpoch
  <2>1. Holds(work, Longer(m), m) /\ Caches(m) /\ cur \in Blocks /\ epochAfter = EpochOf[cur]
    BY <1>0, <1>b, <1>20 DEF SwitchEpoch, PrefixAt, InTx, Working
  <2>2. epochAfter > lastEpoch /\ epochAfter \notin EpochIds(work)
    BY <1>20 DEF SwitchEpoch, EpochRowsRefused
  <2>3. /\ work'.headers = work.headers
        /\ work'.epochs = EndStakingEpoch(work.epochs)
                              \cup {[id |-> epochAfter, start |-> cur, end |-> NULL]}
    BY <1>20 DEF SwitchEpoch, TypeOK, Tables
  <2>4. EpochIds(work') = EpochIds(work) \cup {epochAfter}
    <3>1. EpochIds(work') = {r.id : r \in work'.epochs}
      BY DEF EpochIds
    <3> QED BY <2>3, <3>1, EpochRows
  <2>5. Holds(work', Longer(m), Longer(m))
    BY <2>1, <2>2, <2>3, <2>4, EpochOpened
  <2>6. Longer(m)' = Longer(m) /\ Caches(m)'
    BY <2>1, <1>20 DEF SwitchEpoch, memory, Longer, Caches
  <2> QED BY <1>0, <2>5, <2>6, <1>20 DEF SwitchEpoch, PrefixInv, PrefixAt, InTx, memory
<1>21. CASE \E p \in Pools : InsertEpochNode(p)
  <2> PICK p \in Pools : InsertEpochNode(p)
    BY <1>21
  <2> DEFINE d == IF p \in known THEN work ELSE WithNode(work, p)
             e == [d EXCEPT !.epochNodes = @ \cup
                       {[epoch |-> epochAfter, pool |-> p, rewarded |-> FALSE]}]
  <2>1. work' = e /\ pc = "validators" /\ pc' = pc /\ UNCHANGED <<db, aborted, cur, lastEpoch, before>>
    BY DEF InsertEpochNode
  <2>2. d.headers = work.headers /\ EpochIds(d) = EpochIds(work)
    BY NodeKeeps DEF TypeOK
  <2>3. e.headers = d.headers /\ e.epochs = d.epochs
    BY DEF WithNode, TypeOK, Tables
  <2> HIDE DEF d, e
  <2>4. work'.headers = work.headers /\ EpochIds(work)' = EpochIds(work)
    BY <2>1, <2>2, <2>3 DEF EpochIds
  <2> QED BY <1>0, <2>1, <2>4, WorkKeeps DEF InTx
<1>22. CASE \E p \in Pools : InsertEpochNodeFails(p)
  <2>1. RollBack /\ pc \in InTx
    BY <1>22 DEF InsertEpochNodeFails, InTx
  <2> QED BY <1>0, <2>1, RollBackKeeps
<1>23. CASE VisitStakeEvent
  <2>1. work'.headers = work.headers /\ EpochIds(work)' = EpochIds(work)
    <3>1. work' = WithMovement(work, CurrentEvent.pool)
      BY <1>23 DEF VisitStakeEvent
    <3> QED BY <3>1, MovementKeeps DEF TypeOK, EpochIds
  <2> QED BY <1>0, <2>1, <1>23, WorkKeeps DEF VisitStakeEvent, Visiting, InTx
<1>24. CASE VisitAvailabilityEvent
  <2>1. work'.headers = work.headers /\ EpochIds(work)' = EpochIds(work)
    BY <1>24 DEF VisitAvailabilityEvent, TypeOK, Tables, EpochIds
  <2> QED BY <1>0, <2>1, <1>24, WorkKeeps DEF VisitAvailabilityEvent, Visiting, InTx
<1>25. CASE ScoreStatementSwallowed
  BY <1>25 DEF ScoreStatementSwallowed, Inject, NoSwallow
<1>26. CASE Commit
  <2>1. Holds(work, Longer(m), Longer(m)) /\ Caches(m) /\ cur \in Blocks /\ epochAfter = EpochOf[cur]
    BY <1>0, <1>b, <1>26 DEF Commit, PrefixAt, InTx, Working
  <2>2. db' = work /\ work' = work /\ aborted' = FALSE
    BY <1>26 DEF Commit, Committed, PrefixInv
  <2>3. CASE cur = m
    <3>1. m + 1 \in 0 .. (MaxBlock + 1) /\ m + 1 - 1 = m /\ Longer(m) = m + 1
      BY <2>1, <2>3, Bounds DEF Blocks, Longer
    <3>2. lastEpoch' = EpochBefore(m + 1)
      BY <2>1, <2>3, <1>26, EpochInHand, Bounds DEF Commit
    <3> QED BY <2>1, <2>2, <2>3, <3>1, <3>2, <1>26 DEF Commit, PrefixAt, Caches, InTx, memory
  <2>4. CASE cur = m - 1
    <3>1. m \in Nat /\ cur # m /\ Longer(m) = m
      BY <2>4, Bounds DEF Longer
    <3>2. lastEpoch' = EpochBefore(m)
      BY <2>1, <2>4, <1>26, EpochInHand, Bounds DEF Commit
    <3> QED BY <2>1, <2>2, <2>4, <3>1, <3>2, <1>26 DEF Commit, PrefixAt, Caches, InTx, memory
  <2> QED BY <2>1, <2>3, <2>4 DEF Caches
<1>27. CASE CommitAnswerLost
  <2>1. Holds(work, Longer(m), Longer(m)) /\ Caches(m) /\ cur \in Blocks /\ epochAfter = EpochOf[cur]
    BY <1>0, <1>b, <1>27 DEF CommitAnswerLost, PrefixAt, InTx, Working
  <2>2. db' = work /\ work' = work /\ aborted' = FALSE
    BY <1>27 DEF CommitAnswerLost, Committed, PrefixInv
  <2>3. CASE cur = m
    <3>1. m + 1 \in 0 .. (MaxBlock + 1) /\ m + 1 - 1 = m /\ Longer(m) = m + 1
      BY <2>1, <2>3, Bounds DEF Blocks, Longer
    <3>2. lastEpoch = EpochBefore(m) /\ lastEpoch' = lastEpoch
      BY <2>1, <2>3, <1>27, EpochInHand, Bounds DEF CommitAnswerLost, memory
    <3> QED BY <2>1, <2>2, <2>3, <3>1, <3>2, <1>27 DEF CommitAnswerLost, PrefixAt, Caches, InTx, memory
  <2>4. CASE cur = m - 1
    <3>1. m \in Nat /\ cur # m /\ Longer(m) = m
      BY <2>4, Bounds DEF Longer
    <3>2. lastEpoch' = lastEpoch /\ cur' = cur
      BY <2>1, <2>4, <1>27, EpochInHand, Bounds DEF CommitAnswerLost, memory
    <3> QED BY <2>1, <2>2, <2>4, <3>1, <3>2, <1>27 DEF CommitAnswerLost, PrefixAt, Caches, InTx, memory
  <2> QED BY <2>1, <2>3, <2>4 DEF Caches
<1>28. CASE Advance
  <2>1. cur = m - 1 /\ before = cur /\ lastEpoch = EpochBefore(m) /\ cur + 1 = m
    BY <1>0, <1>28, Bounds DEF Advance, PrefixAt
  <2> QED BY <1>0, <2>1, <1>28 DEF Advance, PrefixInv, PrefixAt, Caches, InTx
<1>29. CASE PollFails
  BY <1>0, <1>29 DEF PollFails, PrefixInv, PrefixAt, Caches, InTx
<1>30. CASE Crash
  BY <1>0, <1>30 DEF Crash, Discard, PrefixInv, PrefixAt, Caches, InTx, memory
<1>31. CASE UNCHANGED vars
  BY <1>0, <1>31 DEF vars, memory, PrefixInv, PrefixAt, Caches, Longer, InTx
<1>32. CASE ScoreStatementRefused
  <2>1. Holds(work, Longer(m), Longer(m)) /\ Caches(m) /\ cur \in Blocks
    BY <1>0, <1>b, <1>32 DEF ScoreStatementRefused, PrefixAt, InTx
  <2>2. cur # 0 => cur - 1 \in 0 .. (Longer(m) - 1)
    BY <2>1, Bounds DEF Blocks, Caches, Longer
  <2> QED BY <2>1, <2>2, <1>32 DEF ScoreStatementRefused, Holds
<1> QED BY <1>1, <1>2, <1>3, <1>4, <1>5, <1>6, <1>7, <1>8, <1>9, <1>10, <1>11, <1>12, <1>13, <1>14, <1>15, <1>16, <1>17, <1>18, <1>19, <1>20, <1>21, <1>22, <1>23, <1>24, <1>25, <1>26, <1>27, <1>28, <1>29, <1>30, <1>31, <1>32 DEF Next, Process, Fault

(* Without swallowed errors the database is at every moment a prefix of    *)
(* the chain: no crash, failed statement, lost commit answer or failed     *)
(* poll makes runFillDb skip a header or open an epoch twice.              *)
THEOREM PrefixAlways ==
    ASSUME NoSwallow
    PROVE  Spec => []PrefixInv
<1>1. Init => PrefixInv
  BY PrefixInit
<1>2. TypeInv /\ PrefixInv /\ [Next]_vars => PrefixInv'
  BY PrefixStep
<1> QED BY <1>1, <1>2, TypeCorrect, PTL DEF Spec

(* What the cited property needs of the invariant.                         *)
LEMMA PrefixGives ==
    ASSUME TypeInv, PrefixInv
    PROVE  ProcessesEachBlock
<1>1. PICK m \in 0 .. (MaxBlock + 1) : PrefixAt(m)
  BY DEF PrefixInv
<1>2. ASSUME pc = "loop" PROVE \A b \in 0 .. (cur - 1) : b \in HeaderBlocks(db)
  <2>1. HeaderBlocks(db) = 0 .. (m - 1) /\ (cur = m \/ cur = m - 1)
    BY <1>1, <1>2 DEF PrefixAt, Holds, Caches
  <2> QED BY <2>1, Bounds
<1> QED BY <1>2 DEF ProcessesEachBlock

(* No block below the current one is missing.  With swallowed errors one   *)
(* is: Postgres rolls the aborted transaction back at its COMMIT.          *)
THEOREM NoBlockSkipped ==
    ASSUME NoSwallow
    PROVE  Spec => []ProcessesEachBlock
<1>1. TypeInv /\ PrefixInv => ProcessesEachBlock
  BY PrefixGives
<1> QED BY <1>1, TypeCorrect, PrefixAlways, PTL

-----------------------------------------------------------------------------
(* Refinement of ChainMirror.                                              *)

LEMMA MirroredIs ==
    ASSUME NEW m \in 0 .. (MaxBlock + 1), NEW d, HeaderBlocks(d) = 0 .. (m - 1)
    PROVE  (IF HeaderBlocks(d) = {} THEN 0 ELSE Largest(HeaderBlocks(d)) + 1) = m
<1>1. m \in Nat
  BY Bounds
<1>2. CASE m = 0
  BY <1>2
<1>3. CASE m # 0
  <2>1. Largest(0 .. (m - 1)) = m - 1
    BY <1>1, <1>3, LargestOfPrefix
  <2>2. 0 \in 0 .. (m - 1) /\ (m - 1) + 1 = m
    BY <1>1, <1>3
  <2> QED BY <1>1, <2>1, <2>2
<1> QED BY <1>2, <1>3

(* Only a commit that takes effect changes the tables.                     *)
LEMMA TablesChange ==
    ASSUME [Next]_vars
    PROVE  db' = db \/ (pc = "commit" /\ db' = Committed)
  BY DEF Next, Process, Fault, ChainGrows, Startup, InitCaches, InitFails, LoopEnds, AutoStop,
         BeginBlock, InsertHeader, InsertNode, NodesInserted, SameEpoch, SwitchEpoch,
         SwitchEpochFails, InsertEpochNode, InsertEpochNodeFails, ValidatorsInserted,
         VisitStakeEvent, VisitStakeEventFails, VisitAvailabilityEvent,
         VisitAvailabilityEventFails, EventsVisited, ObserveAndScore,
         ScoreStatementSwallowed, ScoreStatementRefused, Commit, CommitAnswerLost,
         BlockFails, Advance, Poll, PollFails, Crash, RollBack, vars

LEMMA MirrorStep ==
    ASSUME TypeInv, PrefixInv, [Next]_vars
    PROVE  [M!OneMoreBlock]_Mirrored
<1>1. PICK m \in 0 .. (MaxBlock + 1) : PrefixAt(m)
  BY DEF PrefixInv
<1>2. Mirrored = m
  BY <1>1, MirroredIs DEF PrefixAt, Holds, Mirrored
<1>3. CASE db' = db
  BY <1>3 DEF Mirrored
<1>4. CASE pc = "commit" /\ db' = Committed
  <2>1. /\ db' = work /\ Holds(work, Longer(m), Longer(m)) /\ Caches(m)
        /\ cur \in 0 .. MaxBlock
    BY <1>1, <1>4 DEF PrefixInv, PrefixAt, Committed, InTx, TypeInv, TypeOK, Working
  <2>2. CASE cur = m
    <3>1. PICK k \in 0 .. (MaxBlock + 1) : k = m + 1 /\ m <= MaxBlock
      BY <2>1, <2>2, Bounds
    <3>2. HeaderBlocks(db') = 0 .. (k - 1)
      BY <2>1, <2>2, <3>1 DEF Holds, Longer
    <3>3. Mirrored' = k
      BY <3>2, MirroredIs DEF Mirrored, HeaderBlocks
    <3> QED BY <1>2, <3>1, <3>3 DEF M!OneMoreBlock
  <2>3. CASE cur # m
    <3>1. HeaderBlocks(db') = 0 .. (m - 1)
      BY <2>1, <2>3 DEF Holds, Longer
    <3>2. Mirrored' = m
      BY <3>1, MirroredIs DEF Mirrored, HeaderBlocks
    <3> QED BY <1>2, <3>2
  <2> QED BY <2>2, <2>3
<1> QED BY <1>3, <1>4, TablesChange

-----------------------------------------------------------------------------
(* The stop block.                                                         *)

Below(d) == \A b \in HeaderBlocks(d) : b <= FillStopBlock

(* Whatever a transaction may store lies at or below the stop block.       *)
StopInv ==
    /\ Below(db) /\ Below(work)
    /\ pc \in InTx => cur <= FillStopBlock

(* Only the header step touches the headers of the transaction, and only   *)
(* with the block in hand; every other way to change them copies db.       *)
LEMMA HeadersChange ==
    ASSUME TypeOK, [Next]_vars
    PROVE  \/ work'.headers = work.headers
           \/ work' = db /\ db' = db
           \/ pc = "commit" /\ work' = Committed /\ db' = Committed
           \/ InsertHeader
<1>1. ASSUME NEW p PROVE WithNode(work, p).headers = work.headers
  BY DEF WithNode, TypeOK, Tables
<1>2. ASSUME NEW p PROVE WithMovement(work, p).headers = work.headers
  BY DEF WithMovement, TypeOK, Tables
<1>3. CASE \E p \in Pools : InsertNode(p)
  BY <1>1, <1>3 DEF InsertNode
<1>4. CASE \E p \in Pools : InsertEpochNode(p)
  <2>1. PICK p \in Pools : InsertEpochNode(p)
    BY <1>4
  <2> QED BY <1>1, <2>1 DEF InsertEpochNode, TypeOK, Tables, WithNode
<1>5. CASE SwitchEpoch
  BY <1>5 DEF SwitchEpoch, TypeOK, Tables
<1>6. CASE VisitStakeEvent
  BY <1>2, <1>6 DEF VisitStakeEvent
<1>7. CASE VisitAvailabilityEvent
  BY <1>7 DEF VisitAvailabilityEvent, TypeOK, Tables
<1>8. CASE \/ SwitchEpochFails \/ VisitStakeEventFails \/ VisitAvailabilityEventFails
           \/ BlockFails \/ Crash \/ \E p \in Pools : InsertEpochNodeFails(p)
  BY <1>8 DEF SwitchEpochFails, VisitStakeEventFails, VisitAvailabilityEventFails, BlockFails,
              Crash, InsertEpochNodeFails, RollBack, Discard
<1>9. CASE Commit \/ CommitAnswerLost
  BY <1>9 DEF Commit, CommitAnswerLost
<1>10. CASE \/ Startup \/ InitCaches \/ InitFails \/ LoopEnds \/ AutoStop \/ BeginBlock
            \/ NodesInserted \/ SameEpoch \/ ValidatorsInserted \/ EventsVisited
            \/ ObserveAndScore \/ ScoreStatementRefused \/ ScoreStatementSwallowed
            \/ Advance \/ Poll \/ PollFails \/ ChainGrows \/ UNCHANGED vars
  BY <1>10 DEF Startup, InitCaches, InitFails, LoopEnds, AutoStop, BeginBlock, NodesInserted,
               SameEpoch, ValidatorsInserted, EventsVisited, ObserveAndScore,
               ScoreStatementRefused, ScoreStatementSwallowed, Advance, Poll, PollFails,
               ChainGrows, vars
<1> QED BY <1>3, <1>4, <1>5, <1>6, <1>7, <1>8, <1>9, <1>10 DEF Next, Process, Fault

(* A transaction begins below the stop block and keeps its block.          *)
LEMMA BlockInHand ==
    ASSUME TypeOK, [Next]_vars, pc' \in InTx
    PROVE  cur' = cur /\ (pc \in InTx \/ cur <= FillStopBlock)
  BY Bounds DEF Next, Process, Fault, ChainGrows, Startup, InitCaches, InitFails, LoopEnds, AutoStop,
         BeginBlock, InsertHeader, InsertNode, NodesInserted, SameEpoch, SwitchEpoch,
         SwitchEpochFails, InsertEpochNode, InsertEpochNodeFails, ValidatorsInserted,
         VisitStakeEvent, VisitStakeEventFails, VisitAvailabilityEvent,
         VisitAvailabilityEventFails, EventsVisited, ObserveAndScore, Inject,
         ScoreStatementSwallowed, ScoreStatementRefused, Commit, CommitAnswerLost,
         BlockFails, Advance, Poll, PollFails, Crash, RollBack, vars, memory, InTx, PastStop,
         TypeOK

(* Nothing above DB_FILL_STOP_BLOCK is imported, under any faults, lost    *)
(* blocks included: the poll may raise latest_known_block past it, but the *)
(* loop stops there.                                                       *)
THEOREM StopsThere == Spec => []StopsAtFillStop
<1>1. Init => StopInv
  BY DEF Init, StopInv, Below, HeaderBlocks, EmptyDb, InTx
<1>2. TypeInv /\ StopInv /\ [Next]_vars => StopInv'
  <2> SUFFICES ASSUME TypeInv, StopInv, [Next]_vars PROVE StopInv'
    OBVIOUS
  <2>1. Below(Committed)
    BY DEF Committed, StopInv
  <2>2. Below(db)'
    BY <2>1, TablesChange DEF StopInv, Below
  <2>3. (pc \in InTx => cur <= FillStopBlock)'
    BY BlockInHand DEF StopInv, TypeInv
  <2>4. Below(work)'
    <3>1. CASE InsertHeader
      <4>1. cur <= FillStopBlock
        BY <3>1 DEF InsertHeader, StopInv, InTx
      <4>2. work'.headers = HeaderRows(work)
        BY <3>1 DEF InsertHeader, TypeInv, TypeOK, Tables
      <4>3. \A h \in HeaderRows(work) : h \in work.headers \/ h.block = cur
        BY DEF HeaderRows
      <4> QED BY <4>1, <4>2, <4>3 DEF StopInv, Below, HeaderBlocks
    <3>2. CASE work'.headers = work.headers
      BY <3>2 DEF StopInv, Below, HeaderBlocks
    <3>3. CASE work' = db \/ work' = Committed
      BY <2>1, <3>3 DEF StopInv, Below
    <3> QED BY <3>1, <3>2, <3>3, HeadersChange DEF TypeInv
  <2> QED BY <2>2, <2>3, <2>4 DEF StopInv
<1>3. StopInv => StopsAtFillStop
  BY DEF StopInv, Below, StopsAtFillStop
<1> QED BY <1>1, <1>2, <1>3, TypeCorrect, PTL DEF Spec

-----------------------------------------------------------------------------
(* The time of the parent block.  Rollbacks, lost blocks, restarts and     *)
(* lost answers of COMMIT keep blockBeforeTimestamp one block behind the   *)
(* block in hand.  A poll that fails does not: the cache is then the time  *)
(* of the very block that is taken again, which does no harm as long as    *)
(* that block is stored.                                                   *)

Parents(d) == \A h \in d.headers : h.before = h.block - 1

CacheInv ==
    /\ Parents(db) /\ Parents(work)
    /\ pc \in {"init", "loop"} \cup InTx => before = cur - 1
    /\ pc = "poll" => before = cur

LEMMA CacheInit == Init => CacheInv
  BY DEF Init, CacheInv, Parents, EmptyDb, InTx

(* Without failing polls the cache moves with the current block.           *)
LEMMA CacheMoves ==
    ASSUME "poll" \notin Faults, TypeInv, CacheInv, [Next]_vars
    PROVE  /\ pc' \in {"init", "loop"} \cup InTx => before' = cur' - 1
           /\ pc' = "poll" => before' = cur'
<1>1. CASE Startup
  BY <1>1 DEF Startup, ResumeBefore
<1>2. CASE Commit
  BY <1>2 DEF Commit, InTx
<1>3. CASE Advance
  <2>1. cur \in Int /\ before = cur
    BY <1>3, Bounds DEF Advance, CacheInv, TypeInv, TypeOK
  <2> QED BY <1>3, <2>1 DEF Advance, InTx
<1>4. CASE PollFails
  BY <1>4 DEF PollFails, Inject
<1>5. CASE /\ cur' = cur /\ before' = before /\ pc' # "poll"
           /\ pc' = pc \/ pc \in {"init", "loop"} \cup InTx \/ pc' \in {"down", "done"}
  BY <1>5 DEF CacheInv, InTx
<1>6. CASE cur' = cur /\ before' = before /\ pc' = pc
  BY <1>6 DEF CacheInv
<1>7. CASE \/ SwitchEpochFails \/ VisitStakeEventFails \/ VisitAvailabilityEventFails
           \/ BlockFails \/ \E p \in Pools : InsertEpochNodeFails(p)
  <2>1. cur' = cur /\ before' = before /\ pc' = "loop" /\ pc \in InTx
    BY <1>7 DEF SwitchEpochFails, VisitStakeEventFails, VisitAvailabilityEventFails, Visiting,
                BlockFails, InsertEpochNodeFails, RollBack, InTx
  <2> QED BY <2>1, <1>5
<1>8. CASE \/ InitCaches \/ InitFails \/ LoopEnds \/ AutoStop \/ BeginBlock \/ InsertHeader
           \/ NodesInserted \/ SameEpoch \/ SwitchEpoch \/ ValidatorsInserted
           \/ EventsVisited \/ ObserveAndScore \/ ScoreStatementSwallowed
           \/ ScoreStatementRefused \/ CommitAnswerLost \/ Crash
  <2>1. /\ cur' = cur /\ before' = before /\ pc' # "poll"
        /\ pc' = pc \/ pc \in {"init", "loop"} \cup InTx \/ pc' \in {"down", "done"}
    BY <1>8 DEF InitCaches, InitFails, LoopEnds, AutoStop, BeginBlock, InsertHeader,
         NodesInserted, SameEpoch, SwitchEpoch, ValidatorsInserted, EventsVisited,
         ObserveAndScore, ScoreStatementSwallowed, ScoreStatementRefused, CommitAnswerLost,
         Crash, memory, InTx
  <2> QED BY <2>1, <1>5
<1>9. CASE \/ ChainGrows \/ VisitStakeEvent \/ VisitAvailabilityEvent \/ Poll \/ UNCHANGED vars
           \/ \E p \in Pools : InsertNode(p) \/ InsertEpochNode(p)
  BY <1>6, <1>9 DEF ChainGrows, VisitStakeEvent, VisitAvailabilityEvent, Poll, InsertNode,
         InsertEpochNode, vars, memory
<1> QED BY <1>1, <1>2, <1>3, <1>4, <1>7, <1>8, <1>9 DEF Next, Process, Fault

LEMMA CacheStep ==
    ASSUME "poll" \notin Faults, TypeInv, CacheInv, [Next]_vars
    PROVE  CacheInv'
<1>1. Parents(Committed)
  BY DEF CacheInv, Committed
<1>2. Parents(db)'
  BY <1>1, TablesChange DEF CacheInv, Parents
<1>3. Parents(work)'
  <2>1. CASE InsertHeader
    <3>1. before = cur - 1 /\ work \in Tables
      BY <2>1 DEF InsertHeader, CacheInv, InTx, TypeInv, TypeOK
    <3>2. work'.headers = HeaderRows(work)
      BY <2>1, <3>1 DEF InsertHeader, Tables
    <3>3. [block |-> cur, before |-> cur - 1].before = [block |-> cur, before |-> cur - 1].block - 1
      OBVIOUS
    <3> QED BY <3>1, <3>2, <3>3 DEF HeaderRows, CacheInv, Parents
  <2>2. CASE work'.headers = work.headers
    BY <2>2 DEF CacheInv, Parents
  <2>3. CASE work' = db \/ work' = Committed
    BY <2>3, <1>1 DEF CacheInv, Parents
  <2> QED BY <2>1, <2>2, <2>3, HeadersChange DEF TypeInv
<1> QED BY <1>2, <1>3, CacheMoves DEF CacheInv

(* block_duration is measured from the parent block in every row of        *)
(* headers, also after swallowed errors that lose whole blocks, crashes    *)
(* and lost answers of COMMIT (runFillDb.ts 221-223, 428).  It takes both  *)
(* a swallowed error and a poll that fails right after it to break: the    *)
(* lost block is then taken again with its own time in the cache.          *)
THEOREM DurationsRight ==
    ASSUME ~({"swallow", "poll"} \subseteq Faults)
    PROVE  Spec => []DurationFromParent
<1>1. CASE "poll" \notin Faults
  <2>1. Init => CacheInv
    BY CacheInit
  <2>2. TypeInv /\ CacheInv /\ [Next]_vars => CacheInv'
    BY <1>1, CacheStep
  <2>3. CacheInv => DurationFromParent
    BY DEF CacheInv, Parents, DurationFromParent
  <2> QED BY <2>1, <2>2, <2>3, TypeCorrect, PTL DEF Spec
<1>2. CASE "swallow" \notin Faults
  <2>1. PrefixInv => DurationFromParent
    BY DEF PrefixInv, PrefixAt, Holds, DurationFromParent
  <2>2. Spec => []PrefixInv
    BY <1>2, PrefixAlways DEF NoSwallow
  <2> QED BY <2>1, <2>2, PTL
<1> QED BY <1>1, <1>2

-----------------------------------------------------------------------------
(* Known nodes.                                                            *)

(* Memory is ahead of the tables and never behind them; before and during  *)
(* the start of the process the tables are the committed ones.             *)
KnownInv ==
    /\ KnownCoversDatabase
    /\ pc \in {"down", "init"} => work = db

(* A restart reads all nodes; a node that is inserted becomes known in the *)
(* same step; a rollback keeps what is known and drops rows only.          *)
LEMMA KnownStep ==
    ASSUME TypeOK, KnownInv, [Next]_vars
    PROVE  KnownInv'
<1> USE DEF KnownInv, KnownCoversDatabase
<1>1. NodePools(Committed) \subseteq NodePools(db) \cup NodePools(work)
  BY DEF Committed
<1>2. ASSUME NEW p PROVE NodePools(WithNode(work, p)) = NodePools(work) \cup {p}
  <2> DEFINE row == [pool |-> p, added |-> cur]
  <2>1. WithNode(work, p).nodes = work.nodes \cup {row} /\ row.pool = p
    BY DEF WithNode, TypeOK, Tables
  <2> QED BY <2>1 DEF NodePools
<1>3. ASSUME NEW p PROVE WithMovement(work, p).nodes = work.nodes
  BY DEF WithMovement, TypeOK, Tables
<1>4. CASE Startup
  BY <1>4 DEF Startup, ResumeNodes, Running
<1>5. CASE \E p \in Pools : InsertNode(p)
  BY <1>2, <1>5 DEF InsertNode, Running, InTx
<1>6. CASE \E p \in Pools : InsertEpochNode(p)
  <2>1. PICK p \in Pools : InsertEpochNode(p)
    BY <1>6
  <2>2. NodePools(work') \subseteq NodePools(work) \cup {p}
    <3>1. CASE p \in known
      BY <2>1, <3>1 DEF InsertEpochNode, NodePools, TypeOK, Tables
    <3>2. CASE p \notin known
      <4>1. work'.nodes = WithNode(work, p).nodes
        BY <2>1, <3>2 DEF InsertEpochNode, WithNode, TypeOK, Tables
      <4> QED BY <1>2, <4>1 DEF NodePools
    <3> QED BY <3>1, <3>2
  <2> QED BY <2>1, <2>2 DEF InsertEpochNode, Running, InTx
<1>7. CASE InsertHeader \/ SwitchEpoch \/ VisitAvailabilityEvent
  <2>1. work'.nodes = work.nodes
    BY <1>7 DEF InsertHeader, SwitchEpoch, VisitAvailabilityEvent, TypeOK, Tables
  <2>2. /\ db' = db /\ known' = known
        /\ pc \in Running /\ pc' \notin {"down", "init"}
    BY <1>7 DEF InsertHeader, SwitchEpoch, VisitAvailabilityEvent, Visiting, Running, InTx, memory
  <2> QED BY <2>1, <2>2 DEF NodePools
<1>8. CASE VisitStakeEvent
  BY <1>3, <1>8 DEF VisitStakeEvent, Visiting, NodePools, Running, InTx
<1>9. CASE \/ SwitchEpochFails \/ VisitStakeEventFails \/ VisitAvailabilityEventFails
           \/ BlockFails \/ Crash \/ \E p \in Pools : InsertEpochNodeFails(p)
  BY <1>9 DEF SwitchEpochFails, VisitStakeEventFails, VisitAvailabilityEventFails, BlockFails,
              Crash, InsertEpochNodeFails, RollBack, Discard, Visiting, Running, InTx, memory
<1>10. CASE Commit \/ CommitAnswerLost
  BY <1>1, <1>10 DEF Commit, CommitAnswerLost, Running, InTx, memory
<1>11. CASE InitCaches \/ InitFails \/ LoopEnds \/ AutoStop \/ UNCHANGED vars
  BY <1>11 DEF InitCaches, InitFails, LoopEnds, AutoStop, vars, memory, Running
<1>12. CASE \/ BeginBlock \/ NodesInserted \/ SameEpoch \/ ValidatorsInserted
            \/ EventsVisited \/ ObserveAndScore \/ ScoreStatementRefused
            \/ ScoreStatementSwallowed \/ Advance \/ Poll \/ PollFails \/ ChainGrows
  BY <1>12 DEF BeginBlock, NodesInserted, SameEpoch, ValidatorsInserted, EventsVisited,
               ObserveAndScore, ScoreStatementRefused, ScoreStatementSwallowed, Advance,
               Poll, PollFails, ChainGrows, Running, InTx, memory
<1> QED BY <1>4, <1>5, <1>6, <1>7, <1>8, <1>9, <1>10, <1>11, <1>12 DEF Next, Process, Fault

(* Every row of node, stored or about to be, is known to the running       *)
(* process, so that insertNode never meets its own primary key.  The       *)
(* converse is what IndexerStaleNodes refutes.                             *)
THEOREM NodesKnown == Spec => []KnownCoversDatabase
<1>1. Init => KnownInv
  BY DEF Init, KnownInv, KnownCoversDatabase, Running, InTx
<1>2. TypeInv /\ KnownInv /\ [Next]_vars => KnownInv'
  BY KnownStep DEF TypeInv
<1>3. KnownInv => KnownCoversDatabase
  BY DEF KnownInv
<1> QED BY <1>1, <1>2, <1>3, TypeCorrect, PTL DEF Spec

-----------------------------------------------------------------------------
(***************************************************************************)
(* What the indexer stores of a block, row by row, for every chain and     *)
(* every number of faults: Indexer implements ChainMirror, every stake     *)
(* movement has its row in stake_transactions, and the ledger of stakes    *)
(* counts each movement once.                                              *)
(***************************************************************************)

(* Epochs of the chain.                                                    *)

LEMMA LeastExists ==
    ASSUME NEW S \in SUBSET Nat, S # {}
    PROVE  \E x \in S : \A y \in S : x <= y
<1> DEFINE R == {ss \in Nat \X Nat : ss[1] < ss[2]}
<1>1. IsWellFoundedOn(R, Nat)
  BY NatLessThanWellFounded DEF OpToRel
<1>2. PICK x \in S : \A y \in S : <<y, x>> \notin R
  <2> HIDE DEF R
  <2> QED BY <1>1, WFMin
<1>3. \A y \in S : x <= y
  <2>1. SUFFICES ASSUME NEW y \in S, y < x PROVE FALSE
    OBVIOUS
  <2>2. <<y, x>> \in R
    BY <2>1
  <2> QED BY <1>2, <2>2
<1> QED BY <1>3

LEMMA Neighbours ==
    ASSUME NEW b \in Blocks, b # 0
    PROVE  /\ b - 1 \in Blocks
           /\ EpochOf[b] \in Nat /\ EpochOf[b - 1] \in Nat
           /\ EpochOf[b] = IF StartsEpoch(b) THEN EpochOf[b - 1] + 1 ELSE EpochOf[b - 1]
<1>1. b \in 1 .. MaxBlock /\ b - 1 \in Blocks
  BY Bounds DEF Blocks
<1>2. EpochOf[b] \in {EpochOf[b - 1], EpochOf[b - 1] + 1}
  BY <1>1, EpochsCountUp
<1>3. EpochOf[b] \in Nat /\ EpochOf[b - 1] \in Nat
  BY <1>1, EpochsAreBlocks DEF Blocks
<1> QED BY <1>1, <1>2, <1>3 DEF StartsEpoch

(* Between two blocks the epoch never falls, and it stays where no block   *)
(* opens one.                                                              *)
LEMMA EpochsNeverFall ==
    ASSUME NEW b \in Blocks, NEW c \in Blocks, b <= c
    PROVE  EpochOf[b] <= EpochOf[c]
<1> DEFINE S == {d \in Blocks : b <= d /\ ~(EpochOf[b] <= EpochOf[d])}
<1>1. SUFFICES ASSUME S # {} PROVE FALSE
  OBVIOUS
<1>2. PICK d \in S : \A y \in S : d <= y
  <2>1. S \in SUBSET Nat
    BY DEF Blocks
  <2> HIDE DEF S
  <2> QED BY <1>1, <2>1, LeastExists
<1>3. /\ d \in Blocks /\ b \in Nat /\ d \in Nat /\ b <= d
      /\ EpochOf[b] \in Nat /\ EpochOf[d] \in Nat /\ EpochOf[d] < EpochOf[b]
  BY EpochsAreBlocks DEF Blocks
<1>4. d # b /\ d # 0 /\ b <= d - 1 /\ d - 1 < d
  BY <1>3
<1>5. d - 1 \in Blocks /\ EpochOf[d - 1] \in Nat /\ EpochOf[d - 1] <= EpochOf[d]
  BY <1>3, <1>4, Neighbours
<1>6. d - 1 \in S
  BY <1>3, <1>4, <1>5
<1> QED BY <1>2, <1>3, <1>4, <1>6

LEMMA EpochStaysUntilStart ==
    ASSUME NEW b \in Blocks, NEW c \in Blocks, b <= c,
           \A d \in Blocks : b < d /\ d <= c => ~StartsEpoch(d)
    PROVE  EpochOf[c] = EpochOf[b]
<1> DEFINE S == {d \in Blocks : b <= d /\ d <= c /\ EpochOf[d] # EpochOf[b]}
<1>1. SUFFICES ASSUME S # {} PROVE FALSE
  <2>1. c <= c
    BY Bounds DEF Blocks
  <2> QED BY <2>1
<1>2. PICK d \in S : \A y \in S : d <= y
  <2>1. S \in SUBSET Nat
    BY DEF Blocks
  <2> HIDE DEF S
  <2> QED BY <1>1, <2>1, LeastExists
<1>3. d \in Blocks /\ b \in Nat /\ d \in Nat /\ c \in Nat /\ b <= d /\ d <= c /\ d # b
  BY DEF Blocks
<1>4. d # 0 /\ b < d /\ b <= d - 1 /\ d - 1 <= c /\ d - 1 < d
  BY <1>3
<1>5. d - 1 \in Blocks /\ EpochOf[d - 1] = EpochOf[d]
  BY <1>3, <1>4, Neighbours
<1>6. d - 1 \in S
  BY <1>3, <1>4, <1>5
<1> QED BY <1>2, <1>3, <1>4, <1>6

LEMMA StartOpensNext ==
    ASSUME NEW b \in Blocks, NEW c \in Blocks, b < c, StartsEpoch(c)
    PROVE  EpochOf[b] < EpochOf[c]
<1>1. b \in Nat /\ c \in Nat /\ c # 0 /\ b <= c - 1
  BY DEF Blocks
<1>2. c - 1 \in Blocks /\ EpochOf[c] = EpochOf[c - 1] + 1 /\ EpochOf[c - 1] \in Nat
  BY <1>1, Neighbours
<1>3. EpochOf[b] <= EpochOf[c - 1] /\ EpochOf[b] \in Nat
  BY <1>1, <1>2, EpochsNeverFall, EpochsAreBlocks DEF Blocks
<1> QED BY <1>2, <1>3

-----------------------------------------------------------------------------
(* The rows of ChainMirror as the number of blocks grows.                  *)

LEMMA StartsGrow ==
    ASSUME NEW m \in Blocks
    PROVE  /\ M!Starts(m) \subseteq Blocks
           /\ \A b \in M!Starts(m) : b < m /\ StartsEpoch(b)
           /\ M!Starts(m + 1) = M!Starts(m) \cup (IF StartsEpoch(m) THEN {m} ELSE {})
<1>1. m \in Nat /\ 0 .. ((m + 1) - 1) = (0 .. (m - 1)) \cup {m}
  BY Bounds DEF Blocks
<1>2. \A b \in 0 .. (m - 1) : b \in Blocks /\ b < m
  BY <1>1, Bounds DEF Blocks
<1>3. \A k, b : b \in M!Starts(k) <=> b \in 0 .. (k - 1) /\ StartsEpoch(b)
  BY DEF M!Starts, M!StartsEpoch, StartsEpoch
<1> QED BY <1>1, <1>2, <1>3

Later(b, m) == {c \in M!Starts(m) : c > b}

LEMMA LastOfIs ==
    ASSUME NEW b \in Nat, NEW m
    PROVE  /\ Later(b, m) = {} => M!LastOf(b, m) = -1
           /\ \A c \in Later(b, m) : (\A d \in Later(b, m) : c <= d) /\ c \in Nat
                                        => M!LastOf(b, m) = c - 1
<1> DEFINE L == Later(b, m)
<1>1. M!LastOf(b, m) = IF L = {} THEN -1 ELSE (CHOOSE c \in L : \A d \in L : c <= d) - 1
  BY DEF M!LastOf, M!NULL, Later
<1>2. \A d \in L : d \in Int
  BY DEF Later, M!Starts
<1> HIDE DEF L
<1>3. ASSUME NEW c \in L, \A d \in L : c <= d, c \in Nat
      PROVE  (CHOOSE x \in L : \A d \in L : x <= d) = c
  <2> DEFINE least == CHOOSE x \in L : \A d \in L : x <= d
  <2>1. least \in L /\ \A d \in L : least <= d
    BY <1>3
  <2>2. least <= c /\ c <= least /\ least \in Int
    BY <1>2, <1>3, <2>1
  <2> HIDE DEF least
  <2>3. least = c
    BY <1>3, <2>2
  <2> QED BY <2>3 DEF least
<1> QED BY <1>1, <1>3 DEF L

(* The epoch that was the newest before block m is open until a block      *)
(* opens the next one, and then ends with the block before; the ends of    *)
(* older epochs are fixed.                                                 *)
LEMMA EpochEnds ==
    ASSUME NEW m \in Blocks, NEW b \in M!Starts(m)
    PROVE  /\ m # 0 /\ b \in Blocks /\ EpochBefore(m) = EpochOf[m - 1]
           /\ EpochOf[b] = EpochBefore(m) => M!LastOf(b, m) = -1
           /\ EpochOf[b] # EpochBefore(m) => M!LastOf(b, m) # -1
           /\ StartsEpoch(m) /\ EpochOf[b] = EpochBefore(m) => M!LastOf(b, m + 1) = m - 1
           /\ ~StartsEpoch(m) \/ EpochOf[b] # EpochBefore(m)
                 => M!LastOf(b, m + 1) = M!LastOf(b, m)
           /\ StartsEpoch(m) => EpochOf[b] # EpochOf[m]
<1>1. b \in Blocks /\ b < m /\ b \in Nat /\ m \in Nat /\ m # 0
  BY StartsGrow DEF Blocks
<1>2. m - 1 \in Blocks /\ b <= m - 1 /\ EpochBefore(m) = EpochOf[m - 1]
  BY <1>1, Bounds DEF Blocks, EpochBefore
<1>3. \A c \in Later(b, m) : c \in Blocks /\ c \in Nat /\ b < c /\ c <= m - 1 /\ c < m /\ StartsEpoch(c)
  BY <1>1, StartsGrow DEF Later, Blocks
<1>4. Later(b, m + 1) = Later(b, m) \cup (IF StartsEpoch(m) THEN {m} ELSE {})
  BY <1>1, StartsGrow DEF Later
<1>5. CASE Later(b, m) = {}
  <2>1. ASSUME NEW d \in Blocks, b < d, d <= m - 1 PROVE ~StartsEpoch(d)
    <3>1. d \in 0 .. (m - 1)
      BY <1>1, <2>1 DEF Blocks
    <3>2. d \in M!Starts(m) <=> StartsEpoch(d)
      BY <3>1 DEF M!Starts, M!StartsEpoch, StartsEpoch
    <3> QED BY <1>1, <1>5, <2>1, <3>2 DEF Later
  <2>2. EpochOf[b] = EpochBefore(m)
    BY <1>1, <1>2, <2>1, EpochStaysUntilStart
  <2>3. M!LastOf(b, m) = -1
    BY <1>1, <1>5, LastOfIs
  <2>4. StartsEpoch(m) => M!LastOf(b, m + 1) = m - 1
    BY <1>1, <1>4, <1>5, LastOfIs
  <2>5. ~StartsEpoch(m) => M!LastOf(b, m + 1) = -1
    BY <1>1, <1>4, <1>5, LastOfIs
  <2>6. StartsEpoch(m) => EpochOf[b] # EpochOf[m]
    BY <1>1, StartOpensNext, EpochsAreBlocks DEF Blocks
  <2> QED BY <1>1, <1>2, <2>2, <2>3, <2>4, <2>5, <2>6
<1>6. CASE Later(b, m) # {}
  <2>1. Later(b, m) \in SUBSET Nat
    BY <1>3
  <2>2. PICK c \in Later(b, m) : \A d \in Later(b, m) : c <= d
    BY <1>6, <2>1, LeastExists
  <2>3. M!LastOf(b, m) = c - 1 /\ c - 1 # -1
    BY <1>1, <1>3, <2>2, LastOfIs
  <2>4. c \in Later(b, m + 1) /\ \A d \in Later(b, m + 1) : c <= d
    BY <1>1, <1>3, <1>4, <2>2
  <2>5. M!LastOf(b, m + 1) = c - 1
    BY <1>1, <1>3, <2>4, LastOfIs
  <2>6. EpochOf[b] < EpochOf[c] /\ EpochOf[c] <= EpochOf[m - 1]
    BY <1>1, <1>2, <1>3, StartOpensNext, EpochsNeverFall
  <2>7. EpochOf[b] # EpochBefore(m)
    BY <1>1, <1>2, <1>3, <2>6, EpochsAreBlocks DEF Blocks
  <2>8. StartsEpoch(m) => EpochOf[b] # EpochOf[m]
    BY <1>1, StartOpensNext, EpochsAreBlocks DEF Blocks
  <2> QED BY <1>1, <1>2, <2>3, <2>5, <2>7, <2>8
<1> QED BY <1>5, <1>6

(* The epoch block m opens is open.                                        *)
LEMMA NewestIsOpen ==
    ASSUME NEW m \in Blocks
    PROVE  M!LastOf(m, m + 1) = -1
<1>1. Later(m, m + 1) = {}
  BY Bounds DEF Later, M!Starts, Blocks
<1> QED BY <1>1, LastOfIs DEF Blocks

-----------------------------------------------------------------------------
(* posdao_epoch and posdao_epoch_node.                                     *)

EpochRowOf(b, m) == [id |-> EpochOf[b], start |-> b, end |-> M!LastOf(b, m)]

Rewards(b, p, m) ==
    [epoch |-> EpochOf[b], pool |-> p,
     rewarded |-> M!LastOf(b, m) # -1 /\ p \in AllPoolsOf[M!LastOf(b, m)]]

(* A validator's row while its epoch is open.                              *)
NewRow(m, p) == [epoch |-> EpochOf[m], pool |-> p, rewarded |-> FALSE]

(* The rows of the epochs before block m after block m has opened one.     *)
OldRows(m) == UNION {{Rewards(b, p, m + 1) : p \in ValidatorsOf[b]} : b \in M!Starts(m)}

LEMMA EpochsAre ==
    ASSUME NEW m
    PROVE  \A r : r \in M!Mirror(m).epochs <=> \E b \in M!Starts(m) : r = EpochRowOf(b, m)
<1>1. M!Mirror(m).epochs = {EpochRowOf(b, m) : b \in M!Starts(m)}
  BY DEF M!Mirror, EpochRowOf
<1> QED BY <1>1

LEMMA EpochNodesAre ==
    ASSUME NEW m
    PROVE  \A r : r \in M!Mirror(m).epochNodes
                    <=> \E b \in M!Starts(m) : \E p \in ValidatorsOf[b] : r = Rewards(b, p, m)
<1>1. M!Mirror(m).epochNodes
        = UNION {{Rewards(b, p, m) : p \in ValidatorsOf[b]} : b \in M!Starts(m)}
  BY DEF M!Mirror, Rewards, M!NULL
<1> QED BY <1>1

LEMMA OldRowsAre ==
    ASSUME NEW m
    PROVE  \A r : r \in OldRows(m)
                    <=> \E b \in M!Starts(m) : \E p \in ValidatorsOf[b] : r = Rewards(b, p, m + 1)
  BY DEF OldRows

(* insertStakingEpoch and endStakingEpoch write the epochs of one block    *)
(* more.                                                                   *)
LEMMA EpochsGrow ==
    ASSUME NEW m \in Blocks, StartsEpoch(m), cur = m, lastEpoch = EpochBefore(m)
    PROVE  EndStakingEpoch(M!Mirror(m).epochs) \cup {[id |-> EpochOf[m], start |-> m, end |-> NULL]}
             = M!Mirror(m + 1).epochs
<1> DEFINE f(r) == IF r.id = lastEpoch THEN [r EXCEPT !.end = cur - 1] ELSE r
           new == [id |-> EpochOf[m], start |-> m, end |-> NULL]
<1>1. \A b \in M!Starts(m) : f(EpochRowOf(b, m)) = EpochRowOf(b, m + 1)
  <2> TAKE b \in M!Starts(m)
  <2>1. EpochRowOf(b, m).id = EpochOf[b]
    BY DEF EpochRowOf
  <2>2. CASE EpochOf[b] = lastEpoch
    <3>1. M!LastOf(b, m + 1) = cur - 1
      BY <2>2, EpochEnds
    <3> QED BY <2>2, <3>1 DEF EpochRowOf
  <2>3. CASE EpochOf[b] # lastEpoch
    <3>1. M!LastOf(b, m + 1) = M!LastOf(b, m)
      BY <2>3, EpochEnds
    <3> QED BY <2>1, <2>3, <3>1 DEF EpochRowOf
  <2> QED BY <2>2, <2>3
<1>2. new = EpochRowOf(m, m + 1)
  BY NewestIsOpen DEF EpochRowOf, NULL
<1>3. EndStakingEpoch(M!Mirror(m).epochs) = {f(r) : r \in M!Mirror(m).epochs}
  BY DEF EndStakingEpoch
<1>4. M!Starts(m + 1) = M!Starts(m) \cup {m}
  BY StartsGrow
<1> HIDE DEF f, new
<1>5. \A r : r \in EndStakingEpoch(M!Mirror(m).epochs)
               <=> \E b \in M!Starts(m) : r = EpochRowOf(b, m + 1)
  BY <1>1, <1>3, EpochsAre
<1>6. \A r : r \in M!Mirror(m + 1).epochs
               <=> r = new \/ \E b \in M!Starts(m) : r = EpochRowOf(b, m + 1)
  <2>1. \A r : r \in M!Mirror(m + 1).epochs
                 <=> \E b \in M!Starts(m + 1) : r = EpochRowOf(b, m + 1)
    BY EpochsAre
  <2> QED BY <1>2, <1>4, <2>1
<1>7. EndStakingEpoch(M!Mirror(m).epochs) \cup {new} = M!Mirror(m + 1).epochs
  BY <1>5, <1>6
<1> QED BY <1>7 DEF new

LEMMA RewardedRow ==
    ASSUME NEW e \in Blocks, NEW p \in Pools, NEW r \in EpochNodeRow, r.epoch = e, r.pool = p
    PROVE  [r EXCEPT !.rewarded = TRUE] = [epoch |-> e, pool |-> p, rewarded |-> TRUE]
<1> DEFINE q == [r EXCEPT !.rewarded = TRUE]
<1>1. q \in EpochNodeRow /\ q.epoch = e /\ q.pool = p
  BY DEF EpochNodeRow
<1>2. q.rewarded = TRUE
  BY DEF EpochNodeRow
<1> HIDE DEF q
<1>3. q = [epoch |-> q.epoch, pool |-> q.pool, rewarded |-> q.rewarded]
  BY <1>1 DEF EpochNodeRow
<1>4. q = [epoch |-> e, pool |-> p, rewarded |-> TRUE]
  BY <1>1, <1>2, <1>3
<1> QED BY <1>4 DEF q

(* updateValidatorReward rewards the validators of the epoch that ends and *)
(* no other ones.                                                          *)
LEMMA RewardsGrow ==
    ASSUME NEW m \in Blocks, StartsEpoch(m), cur = m, lastEpoch = EpochBefore(m)
    PROVE  UpdateValidatorReward(M!Mirror(m).epochNodes) = OldRows(m)
<1> DEFINE f(r) == IF r.epoch = lastEpoch /\ r.pool \in AllPoolsOf[cur - 1]
                   THEN [r EXCEPT !.rewarded = TRUE] ELSE r
<1>1. \A b \in M!Starts(m) : \A p \in ValidatorsOf[b] : f(Rewards(b, p, m)) = Rewards(b, p, m + 1)
  <2> TAKE b \in M!Starts(m)
  <2> TAKE p \in ValidatorsOf[b]
  <2> DEFINE r == Rewards(b, p, m)
  <2>1. r.epoch = EpochOf[b] /\ r.pool = p
    BY DEF Rewards
  <2>2. CASE EpochOf[b] = lastEpoch
    <3>1. M!LastOf(b, m) = -1 /\ M!LastOf(b, m + 1) = cur - 1 /\ cur - 1 # -1
      BY <2>2, EpochEnds DEF Blocks
    <3>2. r = [epoch |-> EpochOf[b], pool |-> p, rewarded |-> FALSE]
      BY <3>1 DEF Rewards
    <3>3. CASE p \in AllPoolsOf[cur - 1]
      <4>1. Rewards(b, p, m + 1) = [epoch |-> EpochOf[b], pool |-> p, rewarded |-> TRUE]
        <5>1. (M!LastOf(b, m + 1) # -1 /\ p \in AllPoolsOf[M!LastOf(b, m + 1)]) = TRUE
          BY <3>1, <3>3
        <5> QED BY <5>1 DEF Rewards
      <4>2. f(r) = [r EXCEPT !.rewarded = TRUE]
        BY <2>1, <2>2, <3>3
      <4> HIDE DEF f, r
      <4>3. [r EXCEPT !.rewarded = TRUE] = [epoch |-> EpochOf[b], pool |-> p, rewarded |-> TRUE]
        <5>1. p \in Pools /\ EpochOf[b] \in Blocks
          BY StartsGrow, ChainShape
        <5>2. r \in EpochNodeRow
          BY <3>2, <5>1 DEF EpochNodeRow
        <5>3. r.epoch = EpochOf[b] /\ r.pool = p
          BY <3>2
        <5> QED BY <5>1, <5>2, <5>3, RewardedRow
      <4>4. f(r) = Rewards(b, p, m + 1)
        BY <4>1, <4>2, <4>3
      <4> QED BY <4>4 DEF r
    <3>4. CASE p \notin AllPoolsOf[cur - 1]
      <4>1. Rewards(b, p, m + 1) = [epoch |-> EpochOf[b], pool |-> p, rewarded |-> FALSE]
        <5>1. (M!LastOf(b, m + 1) # -1 /\ p \in AllPoolsOf[M!LastOf(b, m + 1)]) = FALSE
          BY <3>1, <3>4
        <5> QED BY <5>1 DEF Rewards
      <4>2. f(r) = r
        BY <2>1, <3>4
      <4> QED BY <3>2, <4>1, <4>2
    <3> QED BY <3>3, <3>4
  <2>3. CASE EpochOf[b] # lastEpoch
    <3>1. M!LastOf(b, m + 1) = M!LastOf(b, m)
      BY <2>3, EpochEnds
    <3>2. f(r) = r
      BY <2>1, <2>3
    <3> QED BY <3>1, <3>2 DEF Rewards
  <2> QED BY <2>2, <2>3
<1>2. UpdateValidatorReward(M!Mirror(m).epochNodes) = {f(r) : r \in M!Mirror(m).epochNodes}
  BY DEF UpdateValidatorReward
<1> HIDE DEF f
<1>3. \A r : r \in UpdateValidatorReward(M!Mirror(m).epochNodes) <=> r \in OldRows(m)
  BY <1>1, <1>2, EpochNodesAre, OldRowsAre
<1> QED BY <1>3

LEMMA EpochNodesGrow ==
    ASSUME NEW m \in Blocks, StartsEpoch(m)
    PROVE  /\ M!Mirror(m + 1).epochNodes = OldRows(m) \cup {NewRow(m, p) : p \in ValidatorsOf[m]}
           /\ \A r \in OldRows(m) : r.epoch # EpochOf[m]
<1>1. \A p : Rewards(m, p, m + 1) = NewRow(m, p)
  BY NewestIsOpen DEF Rewards, NewRow
<1>2. M!Starts(m + 1) = M!Starts(m) \cup {m}
  BY StartsGrow
<1>3. \A r : r \in M!Mirror(m + 1).epochNodes
               <=> \/ \E b \in M!Starts(m) : \E p \in ValidatorsOf[b] : r = Rewards(b, p, m + 1)
                   \/ \E p \in ValidatorsOf[m] : r = NewRow(m, p)
  <2>1. \A r : r \in M!Mirror(m + 1).epochNodes
                 <=> \E b \in M!Starts(m + 1) : \E p \in ValidatorsOf[b] : r = Rewards(b, p, m + 1)
    BY EpochNodesAre
  <2> QED BY <1>1, <1>2, <2>1
<1>4. M!Mirror(m + 1).epochNodes = OldRows(m) \cup {NewRow(m, p) : p \in ValidatorsOf[m]}
  BY <1>3, OldRowsAre
<1>5. \A b \in M!Starts(m) : \A p : Rewards(b, p, m + 1).epoch # EpochOf[m]
  BY EpochEnds DEF Rewards
<1> QED BY <1>4, <1>5, OldRowsAre

(* A block of the running epoch leaves both tables alone.                  *)
LEMMA EpochRowsStay ==
    ASSUME NEW m \in Blocks, ~StartsEpoch(m)
    PROVE  /\ M!Mirror(m + 1).epochs = M!Mirror(m).epochs
           /\ M!Mirror(m + 1).epochNodes = M!Mirror(m).epochNodes
<1>1. M!Starts(m + 1) = M!Starts(m)
  BY StartsGrow
<1>2. \A b \in M!Starts(m) : M!LastOf(b, m + 1) = M!LastOf(b, m)
  BY EpochEnds
<1>3. \A b \in M!Starts(m) : EpochRowOf(b, m + 1) = EpochRowOf(b, m)
  BY <1>2 DEF EpochRowOf
<1>4. \A b \in M!Starts(m) : \A p : Rewards(b, p, m + 1) = Rewards(b, p, m)
  BY <1>2 DEF Rewards
<1>5. \A r : r \in M!Mirror(m + 1).epochs <=> r \in M!Mirror(m).epochs
  BY <1>1, <1>3, EpochsAre
<1>6. \A r : r \in M!Mirror(m + 1).epochNodes <=> r \in M!Mirror(m).epochNodes
  BY <1>1, <1>4, EpochNodesAre
<1> QED BY <1>5, <1>6

-----------------------------------------------------------------------------
(* node.                                                                   *)

(* The tables w hold, besides the nodes of d, only pools that block m is   *)
(* the first to mention, and those as added by it.                         *)
NewNodes(m, d, w) ==
    /\ d.nodes \subseteq w.nodes
    /\ \A r \in w.nodes \ d.nodes :
          r.added = m /\ r.pool \in M!Mentioned(m) /\ r.pool \notin NodePools(d)

LEMMA NodesAre ==
    ASSUME NEW m
    PROVE  \A r : r \in M!Mirror(m).nodes
                    <=> /\ r \in [pool : Pools, added : 0 .. (m - 1)]
                        /\ r.pool \in M!Mentioned(r.added)
                        /\ \A b \in 0 .. (r.added - 1) : r.pool \notin M!Mentioned(b)
  BY DEF M!Mirror

LEMMA MentionedIs ==
    ASSUME NEW b
    PROVE  M!Mentioned(b) = PoolsToInsert(b) \cup (IF StartsEpoch(b) THEN ValidatorsOf[b] ELSE {})
  BY DEF M!Mentioned, M!Stakers, M!StartsEpoch, StartsEpoch, PoolsToInsert, PoolsSet

(* A pool has a node row when one of the blocks mentions it.               *)
LEMMA NodePoolsMirror ==
    ASSUME NEW m \in 0 .. (MaxBlock + 1), NEW d, d.nodes = M!Mirror(m).nodes
    PROVE  /\ \A p \in NodePools(d) : \E b \in 0 .. (m - 1) : p \in M!Mentioned(b)
           /\ \A p \in Pools, b \in 0 .. (m - 1) : p \in M!Mentioned(b) => p \in NodePools(d)
<1>1. ASSUME NEW p \in NodePools(d)
      PROVE  \E b \in 0 .. (m - 1) : p \in M!Mentioned(b)
  <2>1. PICK r \in d.nodes : p = r.pool
    BY DEF NodePools
  <2>2. r.added \in 0 .. (m - 1) /\ r.pool \in M!Mentioned(r.added)
    BY NodesAre
  <2> QED BY <2>1, <2>2
<1>2. ASSUME NEW p \in Pools, NEW b \in 0 .. (m - 1), p \in M!Mentioned(b)
      PROVE  p \in NodePools(d)
  <2> DEFINE S == {c \in 0 .. (m - 1) : p \in M!Mentioned(c)}
  <2>1. PICK x \in S : \A y \in S : x <= y
    <3>1. S \in SUBSET Nat /\ S # {}
      BY <1>2
    <3> HIDE DEF S
    <3> QED BY <3>1, LeastExists
  <2> DEFINE r == [pool |-> p, added |-> x]
  <2>2. \A c \in 0 .. (x - 1) : p \notin M!Mentioned(c)
    <3> TAKE c \in 0 .. (x - 1)
    <3>1. c \in 0 .. (m - 1) /\ c < x
      BY <2>1, Bounds
    <3> QED BY <2>1, <3>1
  <2>3. r.pool = p /\ r.added = x /\ r \in [pool : Pools, added : 0 .. (m - 1)]
    OBVIOUS
  <2> HIDE DEF r
  <2>4. r \in d.nodes
    BY <2>1, <2>2, <2>3, NodesAre
  <2> QED BY <2>3, <2>4 DEF NodePools
<1> QED BY <1>1, <1>2

(* When every pool block m mentions has a row, the rows are those of the   *)
(* next block.                                                             *)
LEMMA NodesComplete ==
    ASSUME NEW m \in Blocks, NEW d, d.nodes = M!Mirror(m).nodes,
           NEW w, w.nodes \subseteq NodeRow, NewNodes(m, d, w),
           M!Mentioned(m) \subseteq NodePools(w)
    PROVE  w.nodes = M!Mirror(m + 1).nodes
<1>1. m \in Nat /\ (m + 1) - 1 = m /\ m \in 0 .. (MaxBlock + 1)
  BY Bounds DEF Blocks
<1>2. ASSUME NEW r \in w.nodes PROVE r \in M!Mirror(m + 1).nodes
  <2>1. r \in NodeRow /\ r.added \in Blocks
    BY DEF NodeRow
  <2>2. CASE r \in d.nodes
    <3>1. /\ r.added \in 0 .. (m - 1)
          /\ r.pool \in M!Mentioned(r.added)
          /\ \A b \in 0 .. (r.added - 1) : r.pool \notin M!Mentioned(b)
      BY <2>2, NodesAre
    <3>2. r \in [pool : Pools, added : 0 .. m]
      BY <1>1, <2>1, <3>1 DEF NodeRow
    <3> QED BY <1>1, <3>1, <3>2, NodesAre
  <2>3. CASE r \notin d.nodes
    <3>1. r.added = m /\ r.pool \in M!Mentioned(m) /\ r.pool \notin NodePools(d)
      BY <2>3 DEF NewNodes
    <3>2. \A b \in 0 .. (m - 1) : r.pool \notin M!Mentioned(b)
      BY <1>1, <2>1, <3>1, NodePoolsMirror DEF NodeRow
    <3>3. r \in [pool : Pools, added : 0 .. m]
      BY <1>1, <2>1, <3>1 DEF NodeRow
    <3> QED BY <1>1, <3>1, <3>2, <3>3, NodesAre
  <2> QED BY <2>2, <2>3
<1>3. ASSUME NEW r \in M!Mirror(m + 1).nodes PROVE r \in w.nodes
  <2>1. /\ r \in [pool : Pools, added : 0 .. m]
        /\ r.pool \in M!Mentioned(r.added)
        /\ \A b \in 0 .. (r.added - 1) : r.pool \notin M!Mentioned(b)
    BY <1>1, NodesAre
  <2>2. CASE r.added # m
    <3>1. r \in [pool : Pools, added : 0 .. (m - 1)]
      BY <1>1, <2>1, <2>2
    <3> QED BY <2>1, <3>1, NodesAre DEF NewNodes
  <2>3. CASE r.added = m
    <3>1. PICK q \in w.nodes : q.pool = r.pool
      BY <2>1, <2>3 DEF NodePools
    <3>2. r.pool \notin NodePools(d)
      BY <1>1, <2>1, <2>3, NodePoolsMirror
    <3>3. q \notin d.nodes
      BY <3>1, <3>2 DEF NodePools
    <3>4. q.added = m /\ q \in NodeRow
      BY <3>3 DEF NewNodes
    <3>5. q = r
      BY <2>1, <2>3, <3>1, <3>4 DEF NodeRow
    <3> QED BY <3>5
  <2> QED BY <2>2, <2>3
<1> QED BY <1>2, <1>3

(* One more row of the block in hand.                                      *)
LEMMA NodeAdded ==
    ASSUME NEW m, cur = m, NEW d, NEW w \in Tables, NewNodes(m, d, w),
           NEW p \in M!Mentioned(m), p \notin NodePools(d)
    PROVE  NewNodes(m, d, WithNode(w, p))
<1> DEFINE row == [pool |-> p, added |-> cur]
<1>1. WithNode(w, p).nodes = w.nodes \cup {row} /\ row.pool = p /\ row.added = m
  BY DEF WithNode, Tables
<1> HIDE DEF row
<1> QED BY <1>1 DEF NewNodes

-----------------------------------------------------------------------------
(* available_event.                                                        *)

(* The rows of the first k - 1 events of block b.                          *)
AvailRows(b, k) ==
    {[pool |-> EventsOf[b][i].pool, block |-> b] :
        i \in {j \in 1 .. (k - 1) : EventsOf[b][j].kind = "avail"}}

LEMMA AvailGrows ==
    ASSUME NEW b, NEW k \in Nat \ {0}
    PROVE  /\ AvailRows(b, 1) = {}
           /\ EventsOf[b][k].kind = "avail" =>
                 AvailRows(b, k + 1) = AvailRows(b, k) \cup {[pool |-> EventsOf[b][k].pool, block |-> b]}
           /\ EventsOf[b][k].kind # "avail" => AvailRows(b, k + 1) = AvailRows(b, k)
<1>1. 1 .. (1 - 1) = {} /\ 1 .. ((k + 1) - 1) = 1 .. (k - 1) \cup {k}
  OBVIOUS
<1>2. \A n, r : r \in AvailRows(b, n)
                   <=> \E j \in 1 .. (n - 1) : /\ EventsOf[b][j].kind = "avail"
                                               /\ r = [pool |-> EventsOf[b][j].pool, block |-> b]
  BY DEF AvailRows
<1>3. AvailRows(b, 1) = {}
  BY <1>1, <1>2
<1>4. \A r : r \in AvailRows(b, k + 1)
                <=> \/ r \in AvailRows(b, k)
                    \/ /\ EventsOf[b][k].kind = "avail"
                       /\ r = [pool |-> EventsOf[b][k].pool, block |-> b]
  BY <1>1, <1>2
<1> QED BY <1>3, <1>4

LEMMA AvailMirror ==
    ASSUME NEW m \in Blocks
    PROVE  M!Mirror(m + 1).avail = M!Mirror(m).avail \cup AvailRows(m, Len(EventsOf[m]) + 1)
<1> DEFINE A(b) == {[pool |-> EventsOf[b][i].pool, block |-> b] :
                       i \in {j \in DOMAIN EventsOf[b] : EventsOf[b][j].kind = "avail"}}
<1>1. \A k : M!Mirror(k).avail = UNION {A(b) : b \in 0 .. (k - 1)}
  BY DEF M!Mirror
<1>2. A(m) = AvailRows(m, Len(EventsOf[m]) + 1)
  <2>1. EventsOf[m] \in Seq(Event)
    BY ChainShape
  <2>2. DOMAIN EventsOf[m] = 1 .. Len(EventsOf[m])
    BY <2>1
  <2>3. 1 .. ((Len(EventsOf[m]) + 1) - 1) = 1 .. Len(EventsOf[m])
    BY <2>1
  <2> QED BY <2>2, <2>3 DEF AvailRows
<1>3. 0 .. ((m + 1) - 1) = 0 .. (m - 1) \cup {m}
  BY Bounds DEF Blocks
<1> HIDE DEF A
<1>4. UNION {A(b) : b \in 0 .. ((m + 1) - 1)} = (UNION {A(b) : b \in 0 .. (m - 1)}) \cup A(m)
  BY <1>3
<1> QED BY <1>1, <1>2, <1>4

-----------------------------------------------------------------------------
(* The invariant.  A pool that exists in the first block must come into    *)
(* the node table by an insert that a retry of block 0 cannot skip: it is  *)
(* a validator of the first epoch or moves stake.  Any other genesis pool  *)
(* is lost when block 0 fails after its insertNode, for knownNodes keeps   *)
(* it (see the run IndexerStaleNodes).                                     *)

GenesisPools == AllPoolsOf[0] \subseteq ValidatorsOf[0] \cup PoolsSet(0)

(* Tables d mirror the first m blocks.                                     *)
MirrorsAt(d, m) ==
    /\ d.nodes = M!Mirror(m).nodes
    /\ d.epochs = M!Mirror(m).epochs
    /\ d.epochNodes = M!Mirror(m).epochNodes
    /\ d.avail = M!Mirror(m).avail

SameRows(d, w) ==
    w.nodes = d.nodes /\ w.epochs = d.epochs /\ w.epochNodes = d.epochNodes /\ w.avail = d.avail

(* A transaction w on block m, on top of d, before its epoch transition.   *)
Collecting(m, d, w) ==
    /\ NewNodes(m, d, w)
    /\ w.epochs = d.epochs /\ w.epochNodes = d.epochNodes /\ w.avail = d.avail

(* While it attaches the validators of the epoch it has opened.            *)
Opening(m, d, w) ==
    /\ NewNodes(m, d, w)
    /\ StartsEpoch(m)
    /\ w.epochs = M!Mirror(m + 1).epochs
    /\ OldRows(m) \subseteq w.epochNodes
    /\ \A r \in w.epochNodes \ OldRows(m) :
          \E p \in ValidatorsOf[m] : r = NewRow(m, p) /\ p \in NodePools(w)
    /\ w.avail = d.avail

(* After it has visited the first k - 1 events.                            *)
StakersKnown(b, k, w) ==
    \A i \in 1 .. (k - 1) : EventsOf[b][i].kind = "stake" => EventsOf[b][i].pool \in NodePools(w)

Telling(m, d, w, k) ==
    /\ NewNodes(m, d, w)
    /\ w.epochs = M!Mirror(m + 1).epochs
    /\ w.epochNodes = M!Mirror(m + 1).epochNodes
    /\ StartsEpoch(m) => ValidatorsOf[m] \subseteq NodePools(w)
    /\ StakersKnown(m, k, w)
    /\ w.avail = d.avail \cup AvailRows(m, k)
    /\ k <= Len(EventsOf[m]) + 1

(* What the transaction holds of the block in hand, the first time, and    *)
(* that it holds nothing new when the block is stored already.             *)
TxInv(m) ==
    /\ cur = m =>
          /\ pc \in {"nodes", "epoch"} => Collecting(m, db, work) /\ nextEvent = 1
          /\ pc = "validators" => Opening(m, db, work) /\ nextEvent = 1
          /\ pc \in {"events", "observe", "commit"} => Telling(m, db, work, nextEvent)
          /\ pc \in {"observe", "commit"} => nextEvent = Len(EventsOf[m]) + 1
    /\ cur # m =>
          /\ pc \in InTx \ {"header"} => SameRows(db, work)
          /\ pc # "validators"

MirrorInv == MirrorsAt(db, Mirrored) /\ TxInv(Mirrored)

-----------------------------------------------------------------------------
(* The steps of the transaction, as lemmas about the tables.               *)

LEMMA PrefixIsMirrored ==
    ASSUME PrefixInv
    PROVE  Mirrored \in 0 .. (MaxBlock + 1) /\ PrefixAt(Mirrored)
<1>1. PICK m \in 0 .. (MaxBlock + 1) : PrefixAt(m)
  BY DEF PrefixInv
<1>2. Mirrored = m
  BY <1>1, MirroredIs DEF PrefixAt, Holds, Mirrored
<1> QED BY <1>1, <1>2

(* Whether block m opens an epoch, as the process sees it.                 *)
LEMMA StartSeen ==
    ASSUME TypeOK, cur \in Blocks, NEW m \in 0 .. (MaxBlock + 1), cur = m, Caches(m),
           epochAfter = EpochOf[cur]
    PROVE  /\ m \in Blocks /\ lastEpoch = EpochBefore(m)
           /\ epochAfter > lastEpoch <=> StartsEpoch(m)
<1>1. m \in Blocks /\ lastEpoch = EpochBefore(m)
  BY Bounds DEF Caches
<1>2. CASE m = 0
  BY <1>1, <1>2, EpochsCountUp DEF EpochBefore, StartsEpoch
<1>3. CASE m # 0
  BY <1>1, <1>3, Neighbours DEF EpochBefore
<1> QED BY <1>1, <1>2, <1>3

LEMMA SameEpochTells ==
    ASSUME NEW m \in Blocks, ~StartsEpoch(m), NEW d, NEW w, MirrorsAt(d, m), Collecting(m, d, w)
    PROVE  Telling(m, d, w, 1)
<1>1. 1 <= Len(EventsOf[m]) + 1
  <2>1. EventsOf[m] \in Seq(Event)
    BY ChainShape
  <2> QED BY <2>1
<1>2. StakersKnown(m, 1, w)
  BY DEF StakersKnown
<1>3. AvailRows(m, 1) = {}
  BY AvailGrows
<1> QED BY <1>1, <1>2, <1>3, EpochRowsStay DEF Telling, Collecting, MirrorsAt

LEMMA OpenedTells ==
    ASSUME NEW m \in Blocks, NEW d, NEW w, Opening(m, d, w),
           ValidatorsOf[m] \subseteq ValidatorsIn(w, EpochOf[m])
    PROVE  Telling(m, d, w, 1)
<1>1. 1 <= Len(EventsOf[m]) + 1
  <2>1. EventsOf[m] \in Seq(Event)
    BY ChainShape
  <2> QED BY <2>1
<1>2. StakersKnown(m, 1, w)
  BY DEF StakersKnown
<1>3. AvailRows(m, 1) = {}
  BY AvailGrows
<1>4. \A p \in ValidatorsOf[m] : NewRow(m, p) \in w.epochNodes /\ p \in NodePools(w)
  <2> TAKE p \in ValidatorsOf[m]
  <2>1. PICK r \in w.epochNodes : r.epoch = EpochOf[m] /\ r.pool = p
    BY DEF ValidatorsIn
  <2>2. r \notin OldRows(m)
    BY <2>1, EpochNodesGrow DEF Opening
  <2>3. PICK q \in ValidatorsOf[m] : r = NewRow(m, q) /\ q \in NodePools(w)
    BY <2>2 DEF Opening
  <2>4. q = p
    BY <2>1, <2>3 DEF NewRow
  <2> QED BY <2>3, <2>4
<1>5. w.epochNodes = M!Mirror(m + 1).epochNodes
  <2>1. w.epochNodes \subseteq OldRows(m) \cup {NewRow(m, p) : p \in ValidatorsOf[m]}
    BY DEF Opening
  <2>2. OldRows(m) \cup {NewRow(m, p) : p \in ValidatorsOf[m]} \subseteq w.epochNodes
    BY <1>4 DEF Opening
  <2>3. StartsEpoch(m)
    BY DEF Opening
  <2> QED BY <2>1, <2>2, <2>3, EpochNodesGrow
<1>6. ValidatorsOf[m] \subseteq NodePools(w)
  BY <1>4
<1>7. w.avail = d.avail \cup AvailRows(m, 1)
  BY <1>3 DEF Opening
<1>8. NewNodes(m, d, w) /\ w.epochs = M!Mirror(m + 1).epochs
  BY DEF Opening
<1> QED BY <1>1, <1>2, <1>5, <1>6, <1>7, <1>8 DEF Telling

(* Everything visited, the transaction holds the mirror of one more block. *)
LEMMA ToldMirrors ==
    ASSUME GenesisPools, NEW m \in Blocks, NEW d, NEW w \in Tables, MirrorsAt(d, m),
           Telling(m, d, w, Len(EventsOf[m]) + 1)
    PROVE  MirrorsAt(w, m + 1)
<1>1. PoolsSet(m) \subseteq NodePools(w)
  <2>1. EventsOf[m] \in Seq(Event)
    BY ChainShape
  <2>2. \A i \in DOMAIN EventsOf[m] : i \in 1 .. ((Len(EventsOf[m]) + 1) - 1)
    BY <2>1
  <2> QED BY <2>2 DEF PoolsSet, Telling, StakersKnown
<1>2. M!Mentioned(m) \subseteq NodePools(w)
  <2>1. m = 0 => StartsEpoch(m)
    BY DEF StartsEpoch
  <2> QED BY <1>1, <2>1, MentionedIs DEF PoolsToInsert, GenesisPools, Telling
<1>3. w.nodes = M!Mirror(m + 1).nodes
  BY <1>2, NodesComplete, TableTypes DEF Telling, MirrorsAt
<1>4. w.avail = M!Mirror(m + 1).avail
  BY AvailMirror DEF Telling, MirrorsAt
<1> QED BY <1>3, <1>4 DEF Telling, MirrorsAt

LEMMA AvailStored ==
    ASSUME NEW m, NEW b \in 0 .. (m - 1), NEW i \in DOMAIN EventsOf[b], EventsOf[b][i].kind = "avail"
    PROVE  [pool |-> EventsOf[b][i].pool, block |-> b] \in M!Mirror(m).avail
<1> DEFINE A(c) == {[pool |-> EventsOf[c][j].pool, block |-> c] :
                       j \in {k \in DOMAIN EventsOf[c] : EventsOf[c][k].kind = "avail"}}
<1>1. M!Mirror(m).avail = UNION {A(c) : c \in 0 .. (m - 1)}
  BY DEF M!Mirror
<1>2. [pool |-> EventsOf[b][i].pool, block |-> b] \in A(b)
  OBVIOUS
<1> HIDE DEF A
<1> QED BY <1>1, <1>2

(* The steps that leave the tables of the mirror and the block alone.      *)
LEMMA TxStays ==
    ASSUME NEW m, TxInv(m), cur' = cur, pc' = pc, nextEvent' = nextEvent,
           UNCHANGED <<db, work>>
    PROVE  TxInv(m)'
  BY DEF TxInv

LEMMA TxOver ==
    ASSUME NEW m, pc' \notin InTx \ {"header"}
    PROVE  TxInv(m)'
  BY DEF TxInv, InTx

LEMMA HeaderCollects ==
    ASSUME TypeInv, PrefixInv, NEW m, InsertHeader
    PROVE  TxInv(m)'
<1>1. /\ work = db /\ work' = [work EXCEPT !.headers = HeaderRows(work)]
      /\ db' = db /\ pc' = "nodes" /\ nextEvent' = 1 /\ cur' = cur
  BY DEF InsertHeader, PrefixInv
<1>2. SameRows(db, work')
  BY <1>1 DEF SameRows, TypeInv, TypeOK, Tables
<1>3. Collecting(m, db, work')
  BY <1>2 DEF Collecting, NewNodes, SameRows
<1> QED BY <1>1, <1>2, <1>3 DEF TxInv

(* insertNode: a pool the process does not know has no row; of a block     *)
(* that is stored it knows every pool.                                     *)
LEMMA NodeCollects ==
    ASSUME TypeInv, KnownInv, NEW m \in 0 .. (MaxBlock + 1), MirrorsAt(db, m), TxInv(m), Caches(m),
           NEW p \in Pools, InsertNode(p)
    PROVE  TxInv(m)'
<1>1. /\ pc = "nodes" /\ pc' = pc /\ p \in PoolsToInsert(cur) /\ p \notin known
      /\ work' = WithNode(work, p) /\ db' = db /\ cur' = cur /\ nextEvent' = nextEvent
  BY DEF InsertNode
<1>2. p \in M!Mentioned(cur)
  BY <1>1, MentionedIs
<1>3. p \notin NodePools(db)
  BY <1>1 DEF KnownInv, KnownCoversDatabase, Running, InTx
<1>4. cur = m
  <2>1. SUFFICES ASSUME cur = m - 1 PROVE FALSE
    BY DEF Caches
  <2>2. cur \in 0 .. (m - 1)
    BY <2>1, <1>1, Bounds DEF TypeInv, TypeOK
  <2> QED BY <1>2, <1>3, <2>2, NodePoolsMirror DEF MirrorsAt
<1>5. Collecting(m, db, work) /\ nextEvent = 1
  BY <1>1, <1>4 DEF TxInv
<1>6. NewNodes(m, db, WithNode(work, p))
  BY <1>2, <1>3, <1>4, <1>5, NodeAdded DEF Collecting, TypeInv, TypeOK
<1>7. /\ WithNode(work, p).epochs = work.epochs
      /\ WithNode(work, p).epochNodes = work.epochNodes
      /\ WithNode(work, p).avail = work.avail
  BY DEF WithNode, TypeInv, TypeOK, Tables
<1>8. Collecting(m, db, work')
  BY <1>1, <1>5, <1>6, <1>7 DEF Collecting
<1> QED BY <1>1, <1>4, <1>5, <1>8 DEF TxInv

LEMMA SameEpochKeeps ==
    ASSUME TypeInv, NEW m \in 0 .. (MaxBlock + 1), MirrorsAt(db, m), TxInv(m), Caches(m), SameEpoch
    PROVE  TxInv(m)'
<1>1. /\ pc = "epoch" /\ pc' = "events" /\ epochAfter <= lastEpoch
      /\ UNCHANGED <<db, work, cur, nextEvent>>
  BY DEF SameEpoch, memory
<1>2. ASSUME cur = m PROVE Telling(m, db, work, nextEvent)
  <2>1. Collecting(m, db, work) /\ nextEvent = 1
    BY <1>1, <1>2 DEF TxInv
  <2>2. cur \in Blocks /\ epochAfter = EpochOf[cur]
    BY <1>1, Bounds DEF TypeInv, TypeOK, Working, InTx, Blocks
  <2>3. m \in Blocks /\ (epochAfter > lastEpoch <=> StartsEpoch(m))
    BY <1>2, <2>2, StartSeen DEF TypeInv
  <2>4. ~StartsEpoch(m)
    <3>1. ~(epochAfter > lastEpoch)
      BY <1>1 DEF TypeInv, TypeOK
    <3> QED BY <2>3, <3>1
  <2> QED BY <2>1, <2>3, <2>4, SameEpochTells
<1> QED BY <1>1, <1>2 DEF TxInv, InTx

(* The epoch transition opens the epoch block m starts; it is refused for  *)
(* a block that is stored.                                                 *)
LEMMA SwitchOpens ==
    ASSUME TypeInv, NEW m \in 0 .. (MaxBlock + 1), PrefixAt(m), MirrorsAt(db, m), TxInv(m), SwitchEpoch
    PROVE  TxInv(m)'
<1>1. /\ pc = "epoch" /\ pc' = "validators" /\ epochAfter > lastEpoch
      /\ epochAfter \notin EpochIds(work)
      /\ UNCHANGED <<db, cur, nextEvent>>
  BY DEF SwitchEpoch, memory, EpochRowsRefused
<1>2. Caches(m) /\ EpochIds(work) = 0 .. EpochBefore(m) /\ cur \in Blocks /\ epochAfter = EpochOf[cur]
  BY <1>1, Bounds DEF PrefixAt, Holds, TypeInv, TypeOK, Working, InTx, Blocks
<1>3. cur = m
  <2>1. SUFFICES ASSUME cur = m - 1 PROVE FALSE
    BY <1>2 DEF Caches
  <2>2. epochAfter = EpochBefore(m) /\ epochAfter \in 0 .. MaxBlock
    BY <1>2, <2>1, EpochInHand DEF TypeInv
  <2> QED BY <1>1, <1>2, <2>2, Bounds
<1>4. m \in Blocks /\ lastEpoch = EpochBefore(m) /\ StartsEpoch(m)
  BY <1>1, <1>2, <1>3, StartSeen DEF TypeInv
<1>5. Collecting(m, db, work) /\ nextEvent = 1
  BY <1>1, <1>3 DEF TxInv
<1>6. /\ work'.nodes = work.nodes /\ work'.avail = work.avail
      /\ work'.epochs = EndStakingEpoch(work.epochs)
                            \cup {[id |-> epochAfter, start |-> cur, end |-> NULL]}
      /\ work'.epochNodes = UpdateValidatorReward(work.epochNodes)
  BY DEF SwitchEpoch, TypeInv, TypeOK, Tables
<1>7. work'.epochs = M!Mirror(m + 1).epochs
  BY <1>2, <1>3, <1>4, <1>5, <1>6, EpochsGrow DEF Collecting, MirrorsAt
<1>8. work'.epochNodes = OldRows(m)
  BY <1>3, <1>4, <1>5, <1>6, RewardsGrow DEF Collecting, MirrorsAt
<1>9. Opening(m, db, work')
  BY <1>4, <1>5, <1>6, <1>7, <1>8 DEF Opening, Collecting, NewNodes
<1> QED BY <1>1, <1>3, <1>5, <1>9 DEF TxInv

LEMMA ValidatorOpens ==
    ASSUME TypeInv, KnownInv, NEW m \in 0 .. (MaxBlock + 1), TxInv(m), NEW p \in Pools, InsertEpochNode(p)
    PROVE  TxInv(m)'
<1> DEFINE d == IF p \in known THEN work ELSE WithNode(work, p)
           row == [epoch |-> epochAfter, pool |-> p, rewarded |-> FALSE]
<1>1. /\ pc = "validators" /\ pc' = pc /\ p \in ValidatorsOf[cur] /\ p \in NodePools(d)
      /\ work' = [d EXCEPT !.epochNodes = d.epochNodes \cup {row}]
      /\ UNCHANGED <<db, cur, nextEvent>>
  BY DEF InsertEpochNode, ValidatorsLeft
<1>2. cur = m /\ Opening(m, db, work) /\ nextEvent = 1
  BY <1>1 DEF TxInv
<1>3. cur \in Blocks /\ epochAfter = EpochOf[m]
  BY <1>1, <1>2, Bounds DEF TypeInv, TypeOK, Working, InTx, Blocks
<1>4. p \in M!Mentioned(m)
  BY <1>1, <1>2, MentionedIs DEF Opening
<1>5. /\ d \in Tables /\ d.epochs = work.epochs /\ d.epochNodes = work.epochNodes
      /\ d.avail = work.avail
  <2>1. WithNode(work, p) \in Tables
    BY <1>3, WithNodeTyped DEF TypeInv, TypeOK
  <2>2. /\ WithNode(work, p).epochs = work.epochs
        /\ WithNode(work, p).epochNodes = work.epochNodes
        /\ WithNode(work, p).avail = work.avail
    BY DEF WithNode, TypeInv, TypeOK, Tables
  <2> QED BY <2>1, <2>2 DEF TypeInv, TypeOK
<1>6. NewNodes(m, db, d) /\ NodePools(work) \subseteq NodePools(d)
  <2>1. CASE p \in known
    BY <1>2, <2>1 DEF Opening
  <2>2. CASE p \notin known
    <3>1. p \notin NodePools(db)
      BY <1>1, <2>2 DEF KnownInv, KnownCoversDatabase, Running, InTx
    <3>2. NewNodes(m, db, WithNode(work, p))
      BY <1>2, <1>4, <3>1, NodeAdded DEF Opening, TypeInv, TypeOK
    <3>3. work.nodes \subseteq WithNode(work, p).nodes
      BY DEF WithNode, TypeInv, TypeOK, Tables
    <3> QED BY <2>2, <3>2, <3>3 DEF NodePools
  <2> QED BY <2>1, <2>2
<1>7. row = NewRow(m, p)
  BY <1>3 DEF NewRow
<1> HIDE DEF d, row
<1>8. /\ work'.nodes = d.nodes /\ work'.epochs = d.epochs /\ work'.avail = d.avail
      /\ work'.epochNodes = work.epochNodes \cup {row}
  BY <1>1, <1>5 DEF Tables
<1>9. NodePools(work') = NodePools(d)
  BY <1>8 DEF NodePools
<1>10. NewNodes(m, db, work')
  BY <1>6, <1>8 DEF NewNodes
<1>11. \A r \in work'.epochNodes \ OldRows(m) :
          \E q \in ValidatorsOf[m] : r = NewRow(m, q) /\ q \in NodePools(work')
  <2> TAKE r \in work'.epochNodes \ OldRows(m)
  <2>1. CASE r \in work.epochNodes
    BY <1>2, <1>6, <1>9, <2>1 DEF Opening
  <2>2. CASE r = row
    BY <1>1, <1>2, <1>7, <1>9, <2>2
  <2> QED BY <1>8, <2>1, <2>2
<1>12. Opening(m, db, work')
  BY <1>2, <1>5, <1>8, <1>10, <1>11 DEF Opening
<1> QED BY <1>1, <1>2, <1>12 DEF TxInv

LEMMA ValidatorsTell ==
    ASSUME TypeInv, NEW m \in 0 .. (MaxBlock + 1), TxInv(m), ValidatorsInserted
    PROVE  TxInv(m)'
<1>1. /\ pc = "validators" /\ pc' = "events" /\ ValidatorsOf[cur] \subseteq ValidatorsIn(work, epochAfter)
      /\ UNCHANGED <<db, work, cur, nextEvent>>
  BY DEF ValidatorsInserted, ValidatorsLeft, memory
<1>2. cur = m /\ Opening(m, db, work) /\ nextEvent = 1
  BY <1>1 DEF TxInv
<1>3. m \in Blocks /\ epochAfter = EpochOf[m]
  BY <1>1, <1>2, Bounds DEF TypeInv, TypeOK, Working, InTx, Blocks
<1>4. Telling(m, db, work, nextEvent)
  BY <1>1, <1>2, <1>3, OpenedTells
<1> QED BY <1>1, <1>2, <1>4 DEF TxInv

(* The events: a stake movement needs the node row of its pool, and the    *)
(* key of available_event refuses what is stored.                          *)
LEMMA StakeTells ==
    ASSUME TypeInv, NEW m \in 0 .. (MaxBlock + 1), TxInv(m), VisitStakeEvent
    PROVE  TxInv(m)'
<1> DEFINE p == CurrentEvent.pool
<1>1. /\ pc = "events" /\ pc' = pc /\ nextEvent <= Len(EventsOf[cur])
      /\ CurrentEvent.kind = "stake" /\ p \in NodePools(work)
      /\ work' = WithMovement(work, p)
      /\ db' = db /\ cur' = cur /\ nextEvent' = nextEvent + 1
  BY DEF VisitStakeEvent, Visiting, StakeRefused
<1>2. SameRows(work, work')
  <2> HIDE DEF p
  <2> QED BY <1>1 DEF WithMovement, SameRows, TypeInv, TypeOK, Tables
<1>3. nextEvent \in Nat \ {0}
  BY DEF TypeInv, TypeOK
<1>4. ASSUME cur = m PROVE Telling(m, db, work', nextEvent + 1)
  <2>1. Telling(m, db, work, nextEvent)
    BY <1>1, <1>4 DEF TxInv
  <2>2. NodePools(work') = NodePools(work) /\ NewNodes(m, db, work')
    BY <1>2, <2>1 DEF NodePools, SameRows, NewNodes, Telling
  <2>3. StakersKnown(m, nextEvent + 1, work')
    <3>1. \A i \in 1 .. ((nextEvent + 1) - 1) : i = nextEvent \/ i \in 1 .. (nextEvent - 1)
      BY <1>3
    <3> QED BY <1>1, <1>4, <2>1, <2>2, <3>1 DEF Telling, StakersKnown, CurrentEvent
  <2>4. AvailRows(m, nextEvent + 1) = AvailRows(m, nextEvent)
    BY <1>1, <1>3, <1>4, AvailGrows DEF CurrentEvent
  <2>5. nextEvent + 1 <= Len(EventsOf[m]) + 1
    <3>1. m \in Blocks
      BY <1>1, <1>4, Bounds DEF TypeInv, Working, InTx, Blocks
    <3>2. Len(EventsOf[m]) \in Nat
      BY <3>1, ChainShape
    <3> QED BY <1>1, <1>3, <1>4, <3>2
  <2> QED BY <1>2, <2>1, <2>2, <2>3, <2>4, <2>5 DEF Telling, SameRows
<1>5. ASSUME cur # m PROVE SameRows(db, work')
  BY <1>1, <1>2, <1>5 DEF TxInv, InTx, SameRows
<1> HIDE DEF p
<1> QED BY <1>1, <1>4, <1>5 DEF TxInv

LEMMA AvailabilityTells ==
    ASSUME TypeInv, NEW m \in 0 .. (MaxBlock + 1), MirrorsAt(db, m), Caches(m), TxInv(m),
           VisitAvailabilityEvent
    PROVE  TxInv(m)'
<1>1. /\ pc = "events" /\ pc' = pc /\ nextEvent <= Len(EventsOf[cur])
      /\ CurrentEvent.kind = "avail" /\ AvailRow \notin work.avail
      /\ work' = [work EXCEPT !.avail = work.avail \cup {AvailRow}]
      /\ db' = db /\ cur' = cur /\ nextEvent' = nextEvent + 1
  BY DEF VisitAvailabilityEvent, Visiting, AvailRefused
<1>2. /\ work'.nodes = work.nodes /\ work'.epochs = work.epochs
      /\ work'.epochNodes = work.epochNodes /\ work'.avail = work.avail \cup {AvailRow}
  BY <1>1 DEF TypeInv, TypeOK, Tables
<1>3. /\ nextEvent \in Nat \ {0} /\ cur \in Blocks /\ EventsOf[cur] \in Seq(Event)
      /\ Len(EventsOf[cur]) \in Nat
  <2>1. nextEvent \in Nat \ {0} /\ cur \in Blocks
    BY <1>1, Bounds DEF TypeInv, TypeOK, Working, InTx, Blocks
  <2>2. EventsOf[cur] \in Seq(Event)
    BY <2>1, ChainShape
  <2> QED BY <2>1, <2>2
<1>4. cur = m
  <2>1. SUFFICES ASSUME cur = m - 1 PROVE FALSE
    BY DEF Caches
  <2>2. cur \in 0 .. (m - 1) /\ cur # m
    BY <2>1, <1>3, Bounds DEF Blocks
  <2>3. nextEvent \in DOMAIN EventsOf[cur]
    BY <1>1, <1>3
  <2>4. AvailRow \in M!Mirror(m).avail
    BY <1>1, <2>2, <2>3, AvailStored DEF AvailRow, CurrentEvent
  <2> QED BY <1>1, <2>2, <2>4 DEF TxInv, InTx, SameRows, MirrorsAt
<1>5. Telling(m, db, work, nextEvent)
  BY <1>1, <1>4 DEF TxInv
<1>6. NodePools(work') = NodePools(work) /\ NewNodes(m, db, work')
  BY <1>2, <1>5 DEF NodePools, NewNodes, Telling
<1>7. StakersKnown(m, nextEvent + 1, work')
  <2>1. \A i \in 1 .. ((nextEvent + 1) - 1) : i = nextEvent \/ i \in 1 .. (nextEvent - 1)
    BY <1>3
  <2>2. EventsOf[m][nextEvent].kind # "stake"
    BY <1>1, <1>4 DEF CurrentEvent
  <2> QED BY <1>5, <1>6, <2>1, <2>2 DEF Telling, StakersKnown
<1>8. AvailRows(m, nextEvent + 1) = AvailRows(m, nextEvent) \cup {AvailRow}
  BY <1>1, <1>3, <1>4, AvailGrows DEF CurrentEvent, AvailRow
<1>9. nextEvent + 1 <= Len(EventsOf[m]) + 1
  BY <1>1, <1>3, <1>4
<1>10. Telling(m, db, work', nextEvent + 1)
  BY <1>2, <1>5, <1>6, <1>7, <1>8, <1>9 DEF Telling
<1> QED BY <1>1, <1>4, <1>10 DEF TxInv

LEMMA EventsTold ==
    ASSUME TypeInv, NEW m \in 0 .. (MaxBlock + 1), TxInv(m), EventsVisited
    PROVE  TxInv(m)'
<1>1. /\ pc = "events" /\ pc' = "observe" /\ nextEvent > Len(EventsOf[cur])
      /\ UNCHANGED <<db, work, cur, nextEvent>>
  BY DEF EventsVisited, memory
<1>2. Len(EventsOf[cur]) \in Nat /\ nextEvent \in Nat
  <2>1. cur \in Blocks /\ nextEvent \in Nat
    BY <1>1, Bounds DEF TypeInv, TypeOK, Working, InTx, Blocks
  <2> QED BY <2>1, ChainShape
<1>3. cur = m => nextEvent = Len(EventsOf[m]) + 1
  <2>1. cur = m => nextEvent <= Len(EventsOf[m]) + 1
    BY <1>1 DEF TxInv, Telling
  <2> QED BY <1>1, <1>2, <2>1
<1> QED BY <1>1, <1>3 DEF TxInv, InTx

LEMMA ScoresPass ==
    ASSUME NEW m, TxInv(m), pc = "observe", pc' = "commit", UNCHANGED <<db, work, cur, nextEvent>>
    PROVE  TxInv(m)'
  BY DEF TxInv, InTx

-----------------------------------------------------------------------------
(* The invariant is inductive.                                             *)

LEMMA MirrorTx ==
    ASSUME TypeInv, PrefixInv, KnownInv, MirrorInv, [Next]_vars, db' = db
    PROVE  MirrorInv'
<1>1. PICK m \in 0 .. (MaxBlock + 1) : m = Mirrored /\ PrefixAt(m)
  BY PrefixIsMirrored
<1>2. Mirrored' = m
  BY <1>1 DEF Mirrored
<1>3. MirrorsAt(db, m) /\ TxInv(m)
  BY <1>1 DEF MirrorInv
<1>4. SUFFICES TxInv(m)'
  BY <1>2, <1>3 DEF MirrorInv, MirrorsAt, TxInv
<1>5. pc \in InTx => Caches(m)
  BY <1>1 DEF PrefixAt
<1>6. CASE InsertHeader
  BY <1>6, HeaderCollects
<1>7. CASE \E p \in Pools : InsertNode(p)
  BY <1>1, <1>3, <1>5, <1>7, NodeCollects DEF InsertNode, InTx
<1>8. CASE NodesInserted
  BY <1>3, <1>8 DEF NodesInserted, memory, TxInv, InTx
<1>9. CASE SameEpoch
  <2>1. Caches(m)
    BY <1>5, <1>9 DEF SameEpoch, InTx
  <2> QED BY <1>1, <1>3, <1>9, <2>1, SameEpochKeeps
<1>10. CASE SwitchEpoch
  BY <1>1, <1>3, <1>10, SwitchOpens
<1>11. CASE \E p \in Pools : InsertEpochNode(p)
  BY <1>1, <1>3, <1>11, ValidatorOpens
<1>12. CASE ValidatorsInserted
  BY <1>1, <1>3, <1>12, ValidatorsTell
<1>13. CASE VisitStakeEvent
  BY <1>1, <1>3, <1>13, StakeTells
<1>14. CASE VisitAvailabilityEvent
  <2>1. Caches(m)
    BY <1>5, <1>14 DEF VisitAvailabilityEvent, Visiting, InTx
  <2> QED BY <1>1, <1>3, <1>14, <2>1, AvailabilityTells
<1>15. CASE EventsVisited
  BY <1>1, <1>3, <1>15, EventsTold
<1>16. CASE ObserveAndScore \/ ScoreStatementRefused \/ ScoreStatementSwallowed
  BY <1>3, <1>16, ScoresPass
     DEF ObserveAndScore, ScoreStatementRefused, ScoreStatementSwallowed, memory
<1>17. CASE ChainGrows \/ UNCHANGED vars
  BY <1>3, <1>17, TxStays DEF ChainGrows, vars, memory
<1>18. CASE \/ Startup \/ InitCaches \/ InitFails \/ LoopEnds \/ AutoStop \/ BeginBlock
            \/ SwitchEpochFails \/ VisitStakeEventFails \/ VisitAvailabilityEventFails
            \/ \E p \in Pools : InsertEpochNodeFails(p)
            \/ BlockFails \/ Crash \/ Commit \/ CommitAnswerLost \/ Advance \/ PollFails
  BY <1>18, TxOver
     DEF Startup, InitCaches, InitFails, LoopEnds, AutoStop, BeginBlock, SwitchEpochFails,
         VisitStakeEventFails, VisitAvailabilityEventFails, InsertEpochNodeFails, BlockFails,
         Crash, Commit, CommitAnswerLost, Advance, PollFails, RollBack, InTx
<1>19. CASE Poll
  BY <1>19, TxOver DEF Poll, InTx
<1> QED BY <1>6, <1>7, <1>8, <1>9, <1>10, <1>11, <1>12, <1>13, <1>14, <1>15, <1>16, <1>17, <1>18, <1>19
        DEF Next, Process, Fault

LEMMA MirrorCommit ==
    ASSUME GenesisPools, TypeInv, PrefixInv, MirrorInv, [Next]_vars, pc = "commit", db' = Committed
    PROVE  MirrorsAt(db, Mirrored)'
<1>1. PICK m \in 0 .. (MaxBlock + 1) :
          m = Mirrored /\ PrefixAt(m) /\ MirrorsAt(db, m) /\ TxInv(m)
  BY PrefixIsMirrored DEF MirrorInv
<1>2. /\ db' = work /\ Holds(work, Longer(m), Longer(m)) /\ Caches(m)
      /\ cur \in Blocks /\ work \in Tables
  BY <1>1, Bounds DEF PrefixInv, PrefixAt, Committed, InTx, TypeInv, TypeOK, Working, Blocks
<1>3. CASE cur = m
  <2>1. PICK k \in 0 .. (MaxBlock + 1) : k = m + 1
    BY <1>2, <1>3, Bounds DEF Blocks
  <2>2. HeaderBlocks(db') = 0 .. (k - 1)
    BY <1>2, <1>3, <2>1 DEF Holds, Longer
  <2>3. Mirrored' = k
    BY <2>2, MirroredIs DEF Mirrored, HeaderBlocks
  <2>4. Telling(m, db, work, Len(EventsOf[m]) + 1)
    BY <1>1, <1>3 DEF TxInv
  <2>5. MirrorsAt(work, m + 1)
    BY <1>1, <1>2, <1>3, <2>4, ToldMirrors
  <2> QED BY <1>2, <2>1, <2>3, <2>5 DEF MirrorsAt
<1>4. CASE cur # m
  <2>1. HeaderBlocks(db') = 0 .. (m - 1)
    BY <1>2, <1>4 DEF Holds, Longer
  <2>2. Mirrored' = m
    BY <1>1, <2>1, MirroredIs DEF Mirrored, HeaderBlocks
  <2>3. SameRows(db, work)
    BY <1>1, <1>4 DEF TxInv, InTx
  <2> QED BY <1>1, <1>2, <2>2, <2>3 DEF SameRows, MirrorsAt
<1> QED BY <1>3, <1>4

LEMMA MirrorInvStep ==
    ASSUME GenesisPools, TypeInv, PrefixInv, KnownInv, MirrorInv, [Next]_vars
    PROVE  MirrorInv'
<1>1. CASE db' = db
  BY <1>1, MirrorTx
<1>2. CASE pc = "commit" /\ db' = Committed /\ db' # db
  <2>1. Commit \/ CommitAnswerLost
    BY <1>2 DEF Next, Process, Fault, ChainGrows, Startup, InitCaches, InitFails, LoopEnds,
         AutoStop, BeginBlock, InsertHeader, InsertNode, NodesInserted, SameEpoch, SwitchEpoch,
         SwitchEpochFails, InsertEpochNode, InsertEpochNodeFails, ValidatorsInserted,
         VisitStakeEvent, VisitStakeEventFails, VisitAvailabilityEvent,
         VisitAvailabilityEventFails, EventsVisited, ObserveAndScore,
         ScoreStatementSwallowed, ScoreStatementRefused,
         BlockFails, Advance, Poll, PollFails, Crash, RollBack, vars
  <2>2. pc' \notin InTx \ {"header"}
    BY <2>1 DEF Commit, CommitAnswerLost, InTx
  <2>3. TxInv(Mirrored)'
    BY <2>2 DEF TxInv, InTx
  <2> QED BY <1>2, <2>3, MirrorCommit DEF MirrorInv
<1> QED BY <1>1, <1>2, TablesChange

LEMMA MirrorInvInit ==
    ASSUME Init
    PROVE  MirrorInv
<1>1. Mirrored = 0
  BY DEF Init, Mirrored, HeaderBlocks, EmptyDb
<1>2. 0 .. (0 - 1) = {} /\ M!Starts(0) = {}
  BY DEF M!Starts
<1>3. M!Mirror(0).nodes = {}
  BY <1>2, NodesAre
<1>4. M!Mirror(0).epochs = {} /\ M!Mirror(0).epochNodes = {}
  BY <1>2, EpochsAre, EpochNodesAre
<1>5. M!Mirror(0).avail = {}
  BY <1>2 DEF M!Mirror
<1> QED BY <1>1, <1>3, <1>4, <1>5 DEF Init, MirrorInv, MirrorsAt, TxInv, EmptyDb, InTx

-----------------------------------------------------------------------------
(* The theorems.                                                           *)

LEMMA HeadersMirror ==
    ASSUME TypeOK, NEW m, Holds(db, m, m)
    PROVE  db.headers = M!Mirror(m).headers
<1>1. \A r : r \in M!Mirror(m).headers
                <=> \E b \in 0 .. (m - 1) : r = [block |-> b, before |-> b - 1]
  BY DEF M!Mirror
<1>2. \A h \in db.headers : h = [block |-> h.block, before |-> h.block - 1] /\ h.block \in 0 .. (m - 1)
  <2> TAKE h \in db.headers
  <2>1. h \in HeaderRow /\ h.before = h.block - 1 /\ h.block \in HeaderBlocks(db)
    BY TableTypes DEF TypeOK, Holds, HeaderBlocks
  <2>2. h = [block |-> h.block, before |-> h.before]
    BY <2>1 DEF HeaderRow
  <2> QED BY <2>1, <2>2 DEF Holds
<1>3. \A b \in 0 .. (m - 1) : [block |-> b, before |-> b - 1] \in db.headers
  <2> TAKE b \in 0 .. (m - 1)
  <2>1. PICK h \in db.headers : h.block = b
    BY DEF Holds, HeaderBlocks
  <2> QED BY <1>2, <2>1
<1> QED BY <1>1, <1>2, <1>3

LEMMA MirrorGives ==
    ASSUME TypeInv, PrefixInv, MirrorInv
    PROVE  DatabaseMirrorsChain
<1>1. PICK m \in 0 .. (MaxBlock + 1) : m = Mirrored /\ PrefixAt(m) /\ MirrorsAt(db, m)
  BY PrefixIsMirrored DEF MirrorInv
<1>2. db.headers = M!Mirror(m).headers
  BY <1>1, HeadersMirror DEF PrefixAt, TypeInv
<1>3. M!Mirror(m) = [headers |-> M!Mirror(m).headers, nodes |-> M!Mirror(m).nodes,
                     epochs |-> M!Mirror(m).epochs, epochNodes |-> M!Mirror(m).epochNodes,
                     avail |-> M!Mirror(m).avail]
  BY DEF M!Mirror
<1>4. MirrorTables = [headers |-> db.headers, nodes |-> db.nodes, epochs |-> db.epochs,
                      epochNodes |-> db.epochNodes, avail |-> db.avail]
  BY DEF MirrorTables
<1> QED BY <1>1, <1>2, <1>3, <1>4 DEF MirrorsAt, DatabaseMirrorsChain

LEMMA KnownAlways == Spec => []KnownInv
<1>1. Init => KnownInv
  BY DEF Init, KnownInv, KnownCoversDatabase, Running, InTx
<1>2. TypeInv /\ KnownInv /\ [Next]_vars => KnownInv'
  BY KnownStep DEF TypeInv
<1> QED BY <1>1, <1>2, TypeCorrect, PTL DEF Spec

(* The inductive invariant of the row contents.                            *)
LEMMA MirrorAlways ==
    ASSUME NoSwallow, GenesisPools
    PROVE  Spec => []MirrorInv
<1>1. Init => MirrorInv
  BY MirrorInvInit
<1>2. TypeInv /\ PrefixInv /\ KnownInv /\ MirrorInv /\ [Next]_vars => MirrorInv'
  BY MirrorInvStep
<1> QED BY <1>1, <1>2, TypeCorrect, PrefixAlways, KnownAlways, PTL DEF Spec

(* Headers, nodes, epochs with their ends, validators with their rewards   *)
(* and availability events are at every moment those of a prefix of the    *)
(* chain: no failed statement, lost answer, failed poll or death of        *)
(* runFillDb leaves a row out, a row too many or a wrong one.              *)
THEOREM DatabaseAlwaysMirrors ==
    ASSUME NoSwallow, GenesisPools
    PROVE  Spec => []DatabaseMirrorsChain
<1>1. TypeInv /\ PrefixInv /\ MirrorInv => DatabaseMirrorsChain
  BY MirrorGives
<1> QED BY <1>1, TypeCorrect, PrefixAlways, MirrorAlways, PTL

LEMMA NextBlockMirrored ==
    ASSUME TypeInv, PrefixInv, DatabaseMirrorsChain, DatabaseMirrorsChain', [Next]_vars
    PROVE  [M!MirrorNextBlock]_<<Mirrored, MirrorTables>>
<1>1. [M!OneMoreBlock]_Mirrored
  BY MirrorStep
<1>2. CASE M!OneMoreBlock
  BY <1>2 DEF DatabaseMirrorsChain, M!OneMoreBlock, M!MirrorNextBlock
<1>3. CASE Mirrored' = Mirrored
  BY <1>3 DEF DatabaseMirrorsChain
<1> QED BY <1>1, <1>2, <1>3

(* runFillDb implements ChainMirror: in one step all rows of the next      *)
(* block appear, with what it changes of earlier rows, or nothing does.    *)
THEOREM Implements ==
    ASSUME NoSwallow, GenesisPools
    PROVE  Spec => ImplementsMirror
<1>1. Init => M!Init
  <2>1. SUFFICES ASSUME Init PROVE M!Init
    OBVIOUS
  <2>2. TypeInv /\ PrefixInv /\ MirrorInv
    BY <2>1, TypeInit, PrefixInit, MirrorInvInit
  <2>3. Mirrored = 0
    BY <2>1 DEF Init, Mirrored, HeaderBlocks, EmptyDb
  <2> QED BY <2>2, <2>3, MirrorGives DEF M!Init, DatabaseMirrorsChain
<1>2. /\ TypeInv /\ PrefixInv /\ DatabaseMirrorsChain /\ DatabaseMirrorsChain' /\ [Next]_vars
      => [M!MirrorNextBlock]_<<Mirrored, MirrorTables>>
  BY NextBlockMirrored
<1> QED BY <1>1, <1>2, TypeCorrect, PrefixAlways, DatabaseAlwaysMirrors, PTL
        DEF Spec, ImplementsMirror, M!Spec

-----------------------------------------------------------------------------
(* The events of the block in hand, under any faults.                      *)

(* Only a transaction differs from the committed tables; it adds the       *)
(* header of its block and visits its events in order.                     *)
VisitInv ==
    /\ pc \notin InTx \ {"header"} => work = db
    /\ pc \in InTx \ {"header"} =>
          /\ HeaderBlocks(work) = HeaderBlocks(db) \cup {cur}
          /\ nextEvent <= Len(EventsOf[cur]) + 1
    /\ pc \in {"nodes", "epoch", "validators"} => nextEvent = 1
    /\ pc \in {"observe", "commit"} => nextEvent = Len(EventsOf[cur]) + 1

LEMMA EventCount ==
    ASSUME NEW b \in Blocks
    PROVE  Len(EventsOf[b]) \in Nat /\ DOMAIN EventsOf[b] = 1 .. Len(EventsOf[b])
<1>1. EventsOf[b] \in Seq(Event)
  BY ChainShape
<1> QED BY <1>1

(* The steps inside a transaction that leave its headers alone.            *)
LEMMA TxHeadersStay ==
    ASSUME TypeOK, \/ \E p \in Pools : InsertNode(p) \/ InsertEpochNode(p)
                   \/ NodesInserted \/ SameEpoch \/ SwitchEpoch \/ ValidatorsInserted
                   \/ VisitStakeEvent \/ VisitAvailabilityEvent \/ EventsVisited
                   \/ ObserveAndScore \/ ScoreStatementRefused \/ ScoreStatementSwallowed
    PROVE  /\ HeaderBlocks(work)' = HeaderBlocks(work) /\ db' = db /\ cur' = cur
           /\ pc \in InTx \ {"header"} /\ pc' \in InTx \ {"header"}
<1>1. ASSUME NEW p PROVE WithNode(work, p).headers = work.headers
  BY DEF WithNode, TypeOK, Tables
<1>2. ASSUME NEW p PROVE WithMovement(work, p).headers = work.headers
  BY DEF WithMovement, TypeOK, Tables
<1>3. CASE \E p \in Pools : InsertNode(p)
  BY <1>1, <1>3 DEF InsertNode, InTx, HeaderBlocks
<1>4. CASE \E p \in Pools : InsertEpochNode(p)
  <2>1. PICK p \in Pools : InsertEpochNode(p)
    BY <1>4
  <2>2. work'.headers = work.headers
    BY <1>1, <2>1 DEF InsertEpochNode, TypeOK, Tables, WithNode
  <2> QED BY <2>1, <2>2 DEF InsertEpochNode, InTx, HeaderBlocks
<1>5. CASE SwitchEpoch \/ VisitAvailabilityEvent
  <2>1. work'.headers = work.headers
    BY <1>5 DEF SwitchEpoch, VisitAvailabilityEvent, TypeOK, Tables
  <2> QED BY <1>5, <2>1 DEF SwitchEpoch, VisitAvailabilityEvent, Visiting, InTx, HeaderBlocks, memory
<1>6. CASE VisitStakeEvent
  BY <1>2, <1>6 DEF VisitStakeEvent, Visiting, InTx, HeaderBlocks
<1>7. CASE \/ NodesInserted \/ SameEpoch \/ ValidatorsInserted \/ EventsVisited
           \/ ObserveAndScore \/ ScoreStatementRefused \/ ScoreStatementSwallowed
  BY <1>7 DEF NodesInserted, SameEpoch, ValidatorsInserted, EventsVisited, ObserveAndScore,
              ScoreStatementRefused, ScoreStatementSwallowed, memory, InTx, HeaderBlocks
<1> QED BY <1>3, <1>4, <1>5, <1>6, <1>7

LEMMA VisitStep ==
    ASSUME TypeInv, VisitInv, [Next]_vars
    PROVE  VisitInv'
<1>1. pc \in InTx => cur \in Blocks
  BY Bounds DEF TypeInv, TypeOK, Working, Blocks
<1>2. nextEvent \in Nat \ {0}
  BY DEF TypeInv, TypeOK
<1>3. ASSUME \/ \E p \in Pools : InsertNode(p) \/ InsertEpochNode(p)
             \/ NodesInserted \/ SameEpoch \/ SwitchEpoch \/ ValidatorsInserted
             \/ VisitStakeEvent \/ VisitAvailabilityEvent \/ EventsVisited
             \/ ObserveAndScore \/ ScoreStatementRefused \/ ScoreStatementSwallowed
      PROVE  VisitInv'
  <2>1. /\ HeaderBlocks(work)' = HeaderBlocks(work) /\ db' = db /\ cur' = cur
        /\ pc \in InTx \ {"header"} /\ pc' \in InTx \ {"header"}
    BY <1>3, TxHeadersStay DEF TypeInv
  <2>2. HeaderBlocks(work)' = (HeaderBlocks(db) \cup {cur})'
    BY <2>1 DEF VisitInv
  <2>3. cur \in Blocks /\ Len(EventsOf[cur]) \in Nat
    BY <1>1, <2>1, EventCount
  <2>4. /\ nextEvent' <= Len(EventsOf[cur]) + 1
        /\ pc' \in {"nodes", "epoch", "validators"} => nextEvent' = 1
        /\ pc' \in {"observe", "commit"} => nextEvent' = Len(EventsOf[cur]) + 1
    <3>1. CASE VisitStakeEvent \/ VisitAvailabilityEvent
      BY <1>2, <2>3, <3>1 DEF VisitStakeEvent, VisitAvailabilityEvent, Visiting
    <3>2. CASE EventsVisited
      BY <1>2, <2>3, <3>2 DEF EventsVisited, VisitInv, memory, InTx
    <3>3. CASE \/ \E p \in Pools : InsertNode(p) \/ InsertEpochNode(p)
               \/ NodesInserted \/ SameEpoch \/ SwitchEpoch \/ ValidatorsInserted
               \/ ObserveAndScore \/ ScoreStatementRefused \/ ScoreStatementSwallowed
      BY <3>3 DEF InsertNode, InsertEpochNode, NodesInserted, SameEpoch, SwitchEpoch,
                  ValidatorsInserted, ObserveAndScore, ScoreStatementRefused,
                  ScoreStatementSwallowed, memory, VisitInv, InTx
    <3> QED BY <1>3, <3>1, <3>2, <3>3
  <2> QED BY <2>1, <2>2, <2>4 DEF VisitInv
<1>4. CASE InsertHeader
  <2>1. work = db /\ cur \in Blocks
    BY <1>1, <1>4 DEF InsertHeader, VisitInv, InTx
  <2>2. HeaderBlocks(work)' = HeaderBlocks(db) \cup {cur}
    <3> DEFINE row == [block |-> cur, before |-> before]
    <3>1. work'.headers = HeaderRows(work)
      BY <1>4 DEF InsertHeader, TypeInv, TypeOK, Tables
    <3>2. CASE cur \in HeaderBlocks(work)
      BY <2>1, <3>1, <3>2 DEF HeaderRows, HeaderBlocks
    <3>3. CASE cur \notin HeaderBlocks(work)
      <4>1. work'.headers = db.headers \cup {row} /\ row.block = cur
        BY <2>1, <3>1, <3>3 DEF HeaderRows
      <4> HIDE DEF row
      <4>2. \A b : b \in HeaderBlocks(work)' <=> b \in HeaderBlocks(db) \cup {cur}
        BY <4>1 DEF HeaderBlocks
      <4> QED BY <4>2
    <3> QED BY <3>2, <3>3
  <2>3. 1 <= Len(EventsOf[cur]) + 1
    BY <2>1, EventCount
  <2> QED BY <1>4, <2>2, <2>3 DEF InsertHeader, VisitInv, InTx
<1>5. CASE \/ SwitchEpochFails \/ VisitStakeEventFails \/ VisitAvailabilityEventFails
           \/ BlockFails \/ Crash \/ \E p \in Pools : InsertEpochNodeFails(p)
  BY <1>5 DEF SwitchEpochFails, VisitStakeEventFails, VisitAvailabilityEventFails, BlockFails,
              Crash, InsertEpochNodeFails, RollBack, Discard, VisitInv, InTx
<1>6. CASE Commit \/ CommitAnswerLost
  BY <1>6 DEF Commit, CommitAnswerLost, VisitInv, InTx
<1>7. CASE \/ Startup \/ InitCaches \/ InitFails \/ LoopEnds \/ AutoStop \/ BeginBlock
           \/ Advance \/ Poll \/ PollFails
  BY <1>7 DEF Startup, InitCaches, InitFails, LoopEnds, AutoStop, BeginBlock, Advance, Poll,
              PollFails, VisitInv, InTx
<1>8. CASE ChainGrows \/ UNCHANGED vars
  BY <1>8 DEF ChainGrows, vars, memory, VisitInv, HeaderBlocks
<1> QED BY <1>3, <1>4, <1>5, <1>6, <1>7, <1>8 DEF Next, Process, Fault

LEMMA VisitAlways == Spec => []VisitInv
<1>1. Init => VisitInv
  BY DEF Init, VisitInv, InTx
<1>2. TypeInv /\ VisitInv /\ [Next]_vars => VisitInv'
  BY VisitStep
<1> QED BY <1>1, <1>2, TypeCorrect, PTL DEF Spec

-----------------------------------------------------------------------------
(* stake_transactions, under any faults.                                   *)

(* The first k - 1 events of block b that move stake have a row.           *)
Recorded(b, k, rows) ==
    \A i \in 1 .. (k - 1) : EventsOf[b][i].kind = "stake" => rows[<<b, i>>] >= 1

RecordedInv ==
    /\ \A b \in HeaderBlocks(db) : Recorded(b, Len(EventsOf[b]) + 1, stakeTx)
    /\ pc \in {"events", "observe", "commit"} => Recorded(cur, nextEvent, stakeTx)

(* Rows are never taken back.                                              *)
LEMMA RowsGrow ==
    ASSUME TypeInv, [Next]_vars
    PROVE  /\ \A e \in EventId : stakeTx[e] >= 1 => stakeTx'[e] >= 1
           /\ VisitStakeEvent => stakeTx'[<<cur, nextEvent>>] >= 1
<1>1. CASE RecordStakeTransaction /\ (VisitStakeEvent \/ VisitStakeEventFails)
  <2> DEFINE k == <<cur, nextEvent>>
             up(n) == IF n < RowCap THEN n + 1 ELSE n
  <2>1. cur \in Blocks /\ nextEvent \in DOMAIN EventsOf[cur]
    <3>1. cur \in Blocks /\ nextEvent \in Nat \ {0} /\ nextEvent <= Len(EventsOf[cur])
      BY <1>1, Bounds DEF VisitStakeEvent, VisitStakeEventFails, Visiting, TypeInv, TypeOK,
                          Working, InTx, Blocks
    <3> QED BY <3>1, EventCount
  <2>2. k \in EventId
    BY <2>1 DEF EventId
  <2>3. stakeTx \in [EventId -> 0 .. RowCap] /\ \A n \in 0 .. RowCap : n >= 1 => up(n) >= 1
    BY Bounds DEF TypeInv, TypeOK
  <2>4. \A n \in 0 .. RowCap : up(n) >= 1
    BY Bounds
  <2>5. stakeTx' = [stakeTx EXCEPT ![k] = up(stakeTx[k])]
    BY <1>1 DEF RecordStakeTransaction
  <2> HIDE DEF k, up
  <2>6. \A e \in EventId : stakeTx'[e] = IF e = k THEN up(stakeTx[k]) ELSE stakeTx[e]
    BY <2>3, <2>5
  <2>7. \A e \in EventId : stakeTx[e] \in 0 .. RowCap
    BY <2>3
  <2>8. stakeTx'[k] >= 1
    BY <2>2, <2>4, <2>6, <2>7
  <2>9. \A e \in EventId : stakeTx[e] >= 1 => stakeTx'[e] >= 1
    BY <2>6, <2>8
  <2> QED BY <2>8, <2>9 DEF k
<1>2. CASE stakeTx' = stakeTx /\ ~VisitStakeEvent
  BY <1>2
<1>3. \/ RecordStakeTransaction /\ (VisitStakeEvent \/ VisitStakeEventFails)
      \/ stakeTx' = stakeTx /\ ~VisitStakeEvent
  <2>1. VisitStakeEvent \/ VisitStakeEventFails => RecordStakeTransaction
    BY DEF VisitStakeEvent, VisitStakeEventFails
  <2>2. ~VisitStakeEvent /\ ~VisitStakeEventFails => stakeTx' = stakeTx
    BY DEF Next, Process, Fault, ChainGrows, Startup, InitCaches, InitFails, LoopEnds, AutoStop,
         BeginBlock, InsertHeader, InsertNode, NodesInserted, SameEpoch, SwitchEpoch,
         SwitchEpochFails, InsertEpochNode, InsertEpochNodeFails, ValidatorsInserted,
         VisitAvailabilityEvent, VisitAvailabilityEventFails, EventsVisited, ObserveAndScore,
         ScoreStatementSwallowed, ScoreStatementRefused, Commit, CommitAnswerLost,
         BlockFails, Advance, Poll, PollFails, Crash, RollBack, vars
  <2> QED BY <2>1, <2>2
<1> QED BY <1>1, <1>2, <1>3

LEMMA RecordedKeeps ==
    ASSUME TypeInv, [Next]_vars, NEW b \in Blocks, NEW k \in Nat, k <= Len(EventsOf[b]) + 1,
           Recorded(b, k, stakeTx)
    PROVE  Recorded(b, k, stakeTx')
<1>1. \A i \in 1 .. (k - 1) : <<b, i>> \in EventId
  <2> TAKE i \in 1 .. (k - 1)
  <2>1. i \in DOMAIN EventsOf[b]
    BY EventCount
  <2> QED BY <2>1 DEF EventId
<1> QED BY <1>1, RowsGrow DEF Recorded

LEMMA RecordedStep ==
    ASSUME TypeInv, VisitInv, RecordedInv, [Next]_vars
    PROVE  RecordedInv'
<1>1. \A b \in HeaderBlocks(db) : b \in Blocks
  BY TableRanges DEF TypeInv, TypeOK
<1>2. pc \in InTx => cur \in Blocks
  BY Bounds DEF TypeInv, TypeOK, Working, Blocks
<1>3. nextEvent \in Nat \ {0}
  BY DEF TypeInv, TypeOK
<1>4. \A b \in HeaderBlocks(db) : Recorded(b, Len(EventsOf[b]) + 1, stakeTx')
  <2> TAKE b \in HeaderBlocks(db)
  <2>1. Len(EventsOf[b]) \in Nat
    BY <1>1, EventCount
  <2> QED BY <1>1, <2>1, RecordedKeeps DEF RecordedInv
<1>5. pc \in {"events", "observe", "commit"} => Recorded(cur, nextEvent, stakeTx')
  <2>1. SUFFICES ASSUME pc \in {"events", "observe", "commit"}
                 PROVE  Recorded(cur, nextEvent, stakeTx')
    OBVIOUS
  <2>2. cur \in Blocks /\ nextEvent <= Len(EventsOf[cur]) + 1
    BY <1>2, <2>1 DEF InTx, VisitInv
  <2> QED BY <1>3, <2>1, <2>2, RecordedKeeps DEF RecordedInv
<1>6. \A b \in HeaderBlocks(db)' : Recorded(b, Len(EventsOf[b]) + 1, stakeTx)'
  <2>1. CASE db' = db
    BY <1>4, <2>1 DEF HeaderBlocks, Recorded
  <2>2. CASE pc = "commit" /\ db' = Committed
    <3>1. HeaderBlocks(db)' \subseteq HeaderBlocks(db) \cup {cur}
      BY <2>2 DEF VisitInv, InTx, Committed, HeaderBlocks
    <3>2. nextEvent = Len(EventsOf[cur]) + 1
      BY <2>2 DEF VisitInv
    <3> QED BY <1>4, <1>5, <2>2, <3>1, <3>2 DEF Recorded
  <2> QED BY <2>1, <2>2, TablesChange
<1>7. (pc \in {"events", "observe", "commit"} => Recorded(cur, nextEvent, stakeTx))'
  <2>1. CASE SameEpoch \/ ValidatorsInserted
    <3>1. nextEvent' = 1
      BY <2>1 DEF SameEpoch, ValidatorsInserted, memory, VisitInv
    <3> QED BY <3>1 DEF Recorded
  <2>2. CASE VisitStakeEvent
    <3>1. nextEvent' = nextEvent + 1 /\ cur' = cur /\ pc = "events"
      BY <2>2 DEF VisitStakeEvent, Visiting
    <3>2. stakeTx'[<<cur, nextEvent>>] >= 1
      BY <2>2, RowsGrow
    <3>3. \A i \in 1 .. ((nextEvent + 1) - 1) : i = nextEvent \/ i \in 1 .. (nextEvent - 1)
      BY <1>3
    <3> QED BY <1>5, <3>1, <3>2, <3>3 DEF Recorded
  <2>3. CASE VisitAvailabilityEvent
    <3>1. /\ nextEvent' = nextEvent + 1 /\ cur' = cur /\ pc = "events"
          /\ EventsOf[cur][nextEvent].kind # "stake"
      BY <2>3 DEF VisitAvailabilityEvent, Visiting, CurrentEvent
    <3>2. \A i \in 1 .. ((nextEvent + 1) - 1) : i = nextEvent \/ i \in 1 .. (nextEvent - 1)
      BY <1>3
    <3> QED BY <1>5, <3>1, <3>2 DEF Recorded
  <2>4. CASE EventsVisited \/ ObserveAndScore \/ ScoreStatementSwallowed \/ ScoreStatementRefused
    <3>1. nextEvent' = nextEvent /\ cur' = cur /\ pc \in {"events", "observe", "commit"}
      BY <2>4 DEF EventsVisited, ObserveAndScore, ScoreStatementSwallowed, ScoreStatementRefused,
                  memory
    <3> QED BY <1>5, <3>1 DEF Recorded
  <2>5. CASE ChainGrows \/ UNCHANGED vars
    <3>1. nextEvent' = nextEvent /\ cur' = cur /\ pc' = pc
      BY <2>5 DEF ChainGrows, vars, memory
    <3> QED BY <1>5, <3>1 DEF Recorded
  <2>6. CASE pc' \notin {"events", "observe", "commit"}
    BY <2>6
  <2>7. \/ SameEpoch \/ ValidatorsInserted \/ VisitStakeEvent \/ VisitAvailabilityEvent
        \/ EventsVisited \/ ObserveAndScore \/ ScoreStatementSwallowed \/ ScoreStatementRefused
        \/ ChainGrows \/ UNCHANGED vars \/ pc' \notin {"events", "observe", "commit"}
    BY DEF Next, Process, Fault, Startup, InitCaches, InitFails, LoopEnds, AutoStop,
         BeginBlock, InsertHeader, InsertNode, NodesInserted, SwitchEpoch, SwitchEpochFails,
         InsertEpochNode, InsertEpochNodeFails, VisitStakeEventFails,
         VisitAvailabilityEventFails, Commit, CommitAnswerLost, BlockFails, Advance, Poll,
         PollFails, Crash, RollBack
  <2> QED BY <2>1, <2>2, <2>3, <2>4, <2>5, <2>6, <2>7
<1> QED BY <1>6, <1>7 DEF RecordedInv

(* Every stake movement of a committed block has a row, whatever fails, is *)
(* swallowed or lost: insertStakeTransaction writes it before the event is *)
(* done, by another connection than the block, and a retry only adds rows. *)
THEOREM StakeTransactionsAlways == Spec => []StakeTransactionsAtLeastOnce
<1>1. Init => RecordedInv
  BY DEF Init, RecordedInv, HeaderBlocks, EmptyDb
<1>2. TypeInv /\ VisitInv /\ RecordedInv /\ [Next]_vars => RecordedInv'
  BY RecordedStep
<1>3. TypeInv /\ RecordedInv => StakeTransactionsAtLeastOnce
  <2>1. SUFFICES ASSUME TypeInv, RecordedInv, NEW e \in EventId, e[1] \in HeaderBlocks(db),
                        EventsOf[e[1]][e[2]].kind = "stake"
                 PROVE  stakeTx[e] >= 1
    BY DEF StakeTransactionsAtLeastOnce
  <2>2. PICK b \in Blocks, i \in Nat : e = <<b, i>> /\ i \in DOMAIN EventsOf[b]
    <3>1. PICK b \in Blocks : e \in {b} \X DOMAIN EventsOf[b]
      BY DEF EventId
    <3>2. DOMAIN EventsOf[b] = 1 .. Len(EventsOf[b])
      BY EventCount
    <3> QED BY <3>1, <3>2
  <2>3. i \in 1 .. ((Len(EventsOf[b]) + 1) - 1)
    BY <2>2, EventCount
  <2> QED BY <2>1, <2>2, <2>3 DEF RecordedInv, Recorded
<1> QED BY <1>1, <1>2, <1>3, TypeCorrect, VisitAlways, PTL DEF Spec

-----------------------------------------------------------------------------
(* stake_history.  A poll that fails after the commit and a commit whose   *)
(* answer is lost make the loop take a stored block again, and it counts   *)
(* the movements twice; everything else may happen.                        *)

NothingLostAfterCommit == "poll" \notin Faults /\ "commitack" \notin Faults

(* The movements of pool p among the first k - 1 events of block b.        *)
Visited(p, b, k) == {i \in 1 .. (k - 1) : EventsOf[b][i] = [kind |-> "stake", pool |-> p]}

Ahead ==
    /\ pc \in {"init", "loop"} \cup InTx => \A b \in HeaderBlocks(db) : b < cur
    /\ pc = "poll" => \A b \in HeaderBlocks(db) : b <= cur

(* Of the block in hand the transaction has counted what it has visited.   *)
Counted(d, w, c, k) ==
    \A p \in Pools, b \in Blocks :
        w.hist[<<p, b>>] = IF b = c THEN Cardinality(Visited(p, b, k)) ELSE d.hist[<<p, b>>]

LedgerInv ==
    /\ LedgerExactlyOnce
    /\ Ahead
    /\ pc \in InTx \ {"header"} => Counted(db, work, cur, nextEvent)

LEMMA VisitedOnce ==
    ASSUME NEW p, NEW b, NEW k \in Nat \ {0}
    PROVE  /\ Cardinality(Visited(p, b, 1)) = 0
           /\ Cardinality(Visited(p, b, k)) \in Nat
           /\ EventsOf[b][k] = [kind |-> "stake", pool |-> p] =>
                 Cardinality(Visited(p, b, k + 1)) = Cardinality(Visited(p, b, k)) + 1
           /\ EventsOf[b][k] # [kind |-> "stake", pool |-> p] =>
                 Cardinality(Visited(p, b, k + 1)) = Cardinality(Visited(p, b, k))
<1>1. Visited(p, b, 1) = {}
  BY DEF Visited
<1>2. IsFiniteSet(Visited(p, b, k))
  <2>1. IsFiniteSet(1 .. (k - 1))
    BY FS_Interval
  <2>2. Visited(p, b, k) \subseteq 1 .. (k - 1)
    BY DEF Visited
  <2> QED BY <2>1, <2>2, FS_Subset
<1>3. 1 .. ((k + 1) - 1) = 1 .. (k - 1) \cup {k} /\ k \notin 1 .. (k - 1)
  OBVIOUS
<1>4. ASSUME EventsOf[b][k] = [kind |-> "stake", pool |-> p]
      PROVE  Cardinality(Visited(p, b, k + 1)) = Cardinality(Visited(p, b, k)) + 1
  <2>1. Visited(p, b, k + 1) = Visited(p, b, k) \cup {k} /\ k \notin Visited(p, b, k)
    BY <1>3, <1>4 DEF Visited
  <2> QED BY <1>2, <2>1, FS_AddElement
<1>5. ASSUME EventsOf[b][k] # [kind |-> "stake", pool |-> p]
      PROVE  Visited(p, b, k + 1) = Visited(p, b, k)
  BY <1>3, <1>5 DEF Visited
<1> QED BY <1>1, <1>2, <1>4, <1>5, FS_CardinalityType, FS_EmptySet

LEMMA AllVisited ==
    ASSUME NEW p, NEW b \in Blocks
    PROVE  Cardinality(Visited(p, b, Len(EventsOf[b]) + 1)) = Movements(p, b)
<1>1. 1 .. ((Len(EventsOf[b]) + 1) - 1) = DOMAIN EventsOf[b]
  BY EventCount
<1> QED BY <1>1 DEF Visited, Movements

(* The counts of the transaction as it takes a step.                       *)
LEMMA MovementCounted ==
    ASSUME TypeInv, NEW d, Counted(d, work, cur, nextEvent), VisitStakeEvent
    PROVE  Counted(d, work', cur, nextEvent + 1)
<1> DEFINE q == CurrentEvent.pool
           x == <<q, cur>>
<1>1. /\ cur \in Blocks /\ nextEvent \in Nat \ {0} /\ CurrentEvent \in Event
      /\ CurrentEvent.kind = "stake" /\ work' = WithMovement(work, q)
  BY Bounds, EventsTyped DEF VisitStakeEvent, Visiting, CurrentEvent, TypeInv, TypeOK, Working, InTx, Blocks
<1>2. q \in Pools /\ CurrentEvent = [kind |-> "stake", pool |-> q]
  BY <1>1 DEF Event
<1>3. work.hist \in [Pools \X Blocks -> 0 .. 2]
  BY TableTypes DEF TypeInv, TypeOK, HistCounts
<1>4. work'.hist = [work.hist EXCEPT ![x] = work.hist[x] + 1]
  <2> HIDE DEF x, q
  <2>1. work.hist \in HistCounts /\ work' = [work EXCEPT !.hist = [work.hist EXCEPT ![<<q, cur>>] = work.hist[<<q, cur>>] + 1]]
    BY <1>1, TableTypes DEF WithMovement, TypeInv, TypeOK
  <2> QED BY <2>1 DEF x, TypeInv, TypeOK, Tables
<1> HIDE DEF q
<1>5. ASSUME NEW p \in Pools, NEW b \in Blocks
      PROVE  work'.hist[<<p, b>>]
               = IF b = cur THEN Cardinality(Visited(p, b, nextEvent + 1)) ELSE d.hist[<<p, b>>]
  <2>1. work.hist[<<p, b>>]
          = IF b = cur THEN Cardinality(Visited(p, b, nextEvent)) ELSE d.hist[<<p, b>>]
    BY DEF Counted
  <2>2. work'.hist[<<p, b>>] = IF <<p, b>> = x THEN work.hist[x] + 1 ELSE work.hist[<<p, b>>]
    <3>1. <<p, b>> \in Pools \X Blocks
      OBVIOUS
    <3> HIDE DEF x
    <3> QED BY <1>3, <1>4, <3>1
  <2>3. <<p, b>> = x <=> p = q /\ b = cur
    OBVIOUS
  <2>4. CASE b = cur /\ p = q
    <3>1. EventsOf[b][nextEvent] = [kind |-> "stake", pool |-> p]
      BY <1>2, <2>4 DEF CurrentEvent
    <3>2. Cardinality(Visited(p, b, nextEvent + 1)) = Cardinality(Visited(p, b, nextEvent)) + 1
      BY <1>1, <3>1, VisitedOnce
    <3> QED BY <2>1, <2>2, <2>3, <2>4, <3>2
  <2>5. CASE b = cur /\ p # q
    <3>1. EventsOf[b][nextEvent] # [kind |-> "stake", pool |-> p]
      BY <1>2, <2>5 DEF CurrentEvent
    <3>2. Cardinality(Visited(p, b, nextEvent + 1)) = Cardinality(Visited(p, b, nextEvent))
      BY <1>1, <3>1, VisitedOnce
    <3> QED BY <2>1, <2>2, <2>3, <2>5, <3>2
  <2>6. CASE b # cur
    BY <2>1, <2>2, <2>3, <2>6
  <2> QED BY <2>4, <2>5, <2>6
<1> QED BY <1>5 DEF Counted

LEMMA AvailabilityCountsNothing ==
    ASSUME TypeInv, NEW d, Counted(d, work, cur, nextEvent), VisitAvailabilityEvent
    PROVE  Counted(d, work', cur, nextEvent + 1)
<1>1. nextEvent \in Nat \ {0} /\ EventsOf[cur][nextEvent].kind # "stake" /\ work'.hist = work.hist
  <2>1. nextEvent \in Nat \ {0} /\ EventsOf[cur][nextEvent].kind # "stake"
    BY DEF VisitAvailabilityEvent, Visiting, CurrentEvent, TypeInv, TypeOK
  <2>2. work'.hist = work.hist
    BY DEF VisitAvailabilityEvent, TypeInv, TypeOK, Tables
  <2> QED BY <2>1, <2>2
<1>2. \A p : EventsOf[cur][nextEvent] # [kind |-> "stake", pool |-> p]
  BY <1>1
<1>3. \A p : Cardinality(Visited(p, cur, nextEvent + 1)) = Cardinality(Visited(p, cur, nextEvent))
  BY <1>1, <1>2, VisitedOnce
<1> QED BY <1>1, <1>3 DEF Counted

(* The other steps of a transaction leave the counts alone.                *)
LEMMA CountsStay ==
    ASSUME TypeInv, \/ InsertHeader \/ \E p \in Pools : InsertNode(p) \/ InsertEpochNode(p)
                    \/ NodesInserted \/ SameEpoch \/ SwitchEpoch \/ ValidatorsInserted
                    \/ EventsVisited \/ ObserveAndScore \/ ScoreStatementRefused
                    \/ ScoreStatementSwallowed \/ ChainGrows \/ UNCHANGED vars
    PROVE  work'.hist = work.hist /\ UNCHANGED <<db, cur>>
<1>1. ASSUME NEW p PROVE WithNode(work, p).hist = work.hist
  BY DEF WithNode, TypeInv, TypeOK, Tables
<1>2. CASE \E p \in Pools : InsertNode(p)
  BY <1>1, <1>2 DEF InsertNode
<1>3. CASE \E p \in Pools : InsertEpochNode(p)
  <2>1. PICK p \in Pools : InsertEpochNode(p)
    BY <1>3
  <2>2. work'.hist = work.hist
    BY <1>1, <2>1 DEF InsertEpochNode, TypeInv, TypeOK, Tables, WithNode
  <2> QED BY <2>1, <2>2 DEF InsertEpochNode
<1>4. CASE InsertHeader \/ SwitchEpoch
  <2>1. work'.hist = work.hist
    BY <1>4 DEF InsertHeader, SwitchEpoch, TypeInv, TypeOK, Tables
  <2> QED BY <1>4, <2>1 DEF InsertHeader, SwitchEpoch, memory
<1>5. CASE \/ NodesInserted \/ SameEpoch \/ ValidatorsInserted \/ EventsVisited
           \/ ObserveAndScore \/ ScoreStatementRefused \/ ScoreStatementSwallowed
           \/ ChainGrows \/ UNCHANGED vars
  BY <1>5 DEF NodesInserted, SameEpoch, ValidatorsInserted, EventsVisited, ObserveAndScore,
              ScoreStatementRefused, ScoreStatementSwallowed, ChainGrows, vars, memory
<1> QED BY <1>2, <1>3, <1>4, <1>5

(* The block in hand lies above all that is stored.                        *)
LEMMA AheadStep ==
    ASSUME NothingLostAfterCommit, TypeInv, VisitInv, Ahead, [Next]_vars
    PROVE  Ahead'
<1>0. cur \in Int /\ \A b \in HeaderBlocks(db) : b \in Int
  BY TableRanges DEF TypeInv, TypeOK, Blocks
<1>1. CASE Startup
  <2>1. HeaderBlocks(db) \in SUBSET (0 .. MaxBlock)
    BY TableRanges DEF TypeInv, TypeOK, Blocks
  <2>2. HeaderBlocks(db) # {} =>
           /\ Largest(HeaderBlocks(db)) \in 0 .. MaxBlock
           /\ \A b \in HeaderBlocks(db) : b <= Largest(HeaderBlocks(db))
    BY <2>1, LargestExists, Bounds
  <2>3. \A b \in HeaderBlocks(db) : b < cur'
    BY <1>0, <1>1, <2>2 DEF Startup, ResumeBlock
  <2> QED BY <1>1, <2>3 DEF Startup, Ahead, HeaderBlocks, InTx
<1>2. CASE Commit
  <2>1. HeaderBlocks(db)' \subseteq HeaderBlocks(db) \cup {cur}
    BY <1>2 DEF Commit, Committed, VisitInv, InTx, HeaderBlocks
  <2>2. \A b \in HeaderBlocks(db)' : b <= cur
    BY <1>0, <1>2, <2>1 DEF Commit, Ahead, InTx
  <2> QED BY <1>2, <2>2 DEF Commit, Ahead, InTx
<1>3. CASE Advance
  <2>1. \A b \in HeaderBlocks(db) : b < cur + 1
    BY <1>0, <1>3 DEF Advance, Ahead
  <2> QED BY <1>3, <2>1 DEF Advance, Ahead, HeaderBlocks, InTx
<1>4. CASE PollFails \/ CommitAnswerLost
  BY <1>4 DEF PollFails, CommitAnswerLost, Inject, NothingLostAfterCommit
<1>5. CASE /\ UNCHANGED <<db, cur>>
           /\ pc' \in {"init", "loop"} \cup InTx => pc \in {"init", "loop"} \cup InTx
           /\ pc' = "poll" => pc = "poll"
  BY <1>5 DEF Ahead, HeaderBlocks
<1>6. \/ Startup \/ Commit \/ Advance \/ PollFails \/ CommitAnswerLost
      \/ /\ UNCHANGED <<db, cur>>
         /\ pc' \in {"init", "loop"} \cup InTx => pc \in {"init", "loop"} \cup InTx
         /\ pc' = "poll" => pc = "poll"
  BY DEF Next, Process, Fault, ChainGrows, InitCaches, InitFails, LoopEnds, AutoStop,
         BeginBlock, InsertHeader, InsertNode, NodesInserted, SameEpoch, SwitchEpoch,
         SwitchEpochFails, InsertEpochNode, InsertEpochNodeFails, ValidatorsInserted,
         VisitStakeEvent, VisitStakeEventFails, Visiting, VisitAvailabilityEvent,
         VisitAvailabilityEventFails, EventsVisited, ObserveAndScore,
         ScoreStatementSwallowed, ScoreStatementRefused, BlockFails, Poll, Crash, RollBack,
         vars, memory, InTx, Running
<1> QED BY <1>1, <1>2, <1>3, <1>4, <1>5, <1>6

LEMMA CountedStep ==
    ASSUME TypeInv, VisitInv, LedgerInv, [Next]_vars, pc' \in InTx \ {"header"}
    PROVE  Counted(db, work, cur, nextEvent)'
<1>1. CASE InsertHeader
  <2>1. work = db /\ nextEvent' = 1 /\ work'.hist = work.hist /\ UNCHANGED <<db, cur>>
    BY <1>1, CountsStay DEF InsertHeader, VisitInv, InTx
  <2>2. cur \in Blocks /\ cur \notin HeaderBlocks(db)
    BY <1>1, Bounds DEF InsertHeader, LedgerInv, Ahead, TypeInv, TypeOK, Working, InTx, Blocks
  <2>3. \A p \in Pools : db.hist[<<p, cur>>] = 0
    BY <2>2 DEF LedgerInv, LedgerExactlyOnce
  <2>4. \A p : Cardinality(Visited(p, cur, 1)) = 0
    <3>1. 1 \in Nat \ {0}
      OBVIOUS
    <3> QED BY <3>1, VisitedOnce
  <2> QED BY <2>1, <2>3, <2>4 DEF Counted
<1>2. CASE VisitStakeEvent
  <2>1. /\ Counted(db, work, cur, nextEvent)
        /\ nextEvent' = nextEvent + 1 /\ UNCHANGED <<db, cur>>
    BY <1>2 DEF VisitStakeEvent, Visiting, LedgerInv, InTx
  <2>2. Counted(db, work', cur, nextEvent + 1)
    BY <1>2, <2>1, MovementCounted
  <2> QED BY <2>1, <2>2 DEF Counted
<1>3. CASE VisitAvailabilityEvent
  <2>1. /\ Counted(db, work, cur, nextEvent)
        /\ nextEvent' = nextEvent + 1 /\ UNCHANGED <<db, cur>>
    BY <1>3 DEF VisitAvailabilityEvent, Visiting, LedgerInv, InTx
  <2>2. Counted(db, work', cur, nextEvent + 1)
    BY <1>3, <2>1, AvailabilityCountsNothing
  <2> QED BY <2>1, <2>2 DEF Counted
<1>4. CASE \/ \E p \in Pools : InsertNode(p) \/ InsertEpochNode(p)
           \/ NodesInserted \/ SameEpoch \/ SwitchEpoch \/ ValidatorsInserted
           \/ EventsVisited \/ ObserveAndScore \/ ScoreStatementRefused
           \/ ScoreStatementSwallowed \/ ChainGrows \/ UNCHANGED vars
  <2>1. work'.hist = work.hist /\ UNCHANGED <<db, cur>>
    BY <1>4, CountsStay
  <2>2. nextEvent' = nextEvent /\ pc \in InTx \ {"header"}
    BY <1>4 DEF InsertNode, InsertEpochNode, NodesInserted, SameEpoch, SwitchEpoch,
                ValidatorsInserted, EventsVisited, ObserveAndScore, ScoreStatementRefused,
                ScoreStatementSwallowed, ChainGrows, vars, memory, InTx
  <2> QED BY <2>1, <2>2 DEF LedgerInv, Counted
<1>5. \/ InsertHeader \/ VisitStakeEvent \/ VisitAvailabilityEvent
      \/ \E p \in Pools : InsertNode(p) \/ InsertEpochNode(p)
      \/ NodesInserted \/ SameEpoch \/ SwitchEpoch \/ ValidatorsInserted
      \/ EventsVisited \/ ObserveAndScore \/ ScoreStatementRefused
      \/ ScoreStatementSwallowed \/ ChainGrows \/ UNCHANGED vars
  BY DEF Next, Process, Fault, Startup, InitCaches, InitFails, LoopEnds, AutoStop,
         BeginBlock, SwitchEpochFails, InsertEpochNodeFails, VisitStakeEventFails,
         VisitAvailabilityEventFails, Commit, CommitAnswerLost, BlockFails, Advance, Poll,
         PollFails, Crash, RollBack, InTx
<1> QED BY <1>1, <1>2, <1>3, <1>4, <1>5

LEMMA LedgerStep ==
    ASSUME NothingLostAfterCommit, TypeInv, VisitInv, LedgerInv, [Next]_vars
    PROVE  LedgerInv'
<1>1. Ahead'
  BY AheadStep DEF LedgerInv
<1>2. (pc \in InTx \ {"header"} => Counted(db, work, cur, nextEvent))'
  BY CountedStep DEF InTx
<1>3. LedgerExactlyOnce'
  <2>1. CASE db' = db
    BY <2>1 DEF LedgerInv, LedgerExactlyOnce, HeaderBlocks
  <2>2. CASE pc = "commit" /\ db' = work
    <3>1. /\ Counted(db, work, cur, nextEvent) /\ nextEvent = Len(EventsOf[cur]) + 1
          /\ HeaderBlocks(work) = HeaderBlocks(db) \cup {cur}
          /\ HeaderBlocks(db)' = HeaderBlocks(work)
      BY <2>2 DEF LedgerInv, VisitInv, InTx, HeaderBlocks
    <3>2. ASSUME NEW p \in Pools, NEW b \in Blocks
          PROVE  work.hist[<<p, b>>] = IF b \in HeaderBlocks(work) THEN Movements(p, b) ELSE 0
      <4>1. CASE b = cur
        BY <3>1, <4>1, AllVisited DEF Counted
      <4>2. CASE b # cur
        BY <3>1, <4>2 DEF Counted, LedgerInv, LedgerExactlyOnce
      <4> QED BY <4>1, <4>2
    <3> QED BY <2>2, <3>1, <3>2 DEF LedgerExactlyOnce
  <2>3. db' = db \/ (pc = "commit" /\ db' = work)
    BY TablesChange DEF Committed
  <2> QED BY <2>1, <2>2, <2>3
<1> QED BY <1>1, <1>2, <1>3 DEF LedgerInv

(* Each stake movement of a committed block is applied to stake_history    *)
(* exactly once and none of another block, whatever crashes, fails before  *)
(* the commit or is swallowed, blocks lost to swallowed errors included.   *)
THEOREM LedgerAlwaysExact ==
    ASSUME NothingLostAfterCommit
    PROVE  Spec => []LedgerExactlyOnce
<1>1. Init => LedgerInv
  <2>1. SUFFICES ASSUME Init PROVE LedgerInv
    OBVIOUS
  <2>2. HeaderBlocks(db) = {} /\ \A k \in Pools \X Blocks : db.hist[k] = 0
    BY <2>1 DEF Init, EmptyDb, HeaderBlocks
  <2>3. LedgerExactlyOnce
    BY <2>2 DEF LedgerExactlyOnce
  <2>4. Ahead
    BY <2>1 DEF Init, Ahead, InTx
  <2> QED BY <2>1, <2>3, <2>4 DEF Init, LedgerInv, InTx
<1>2. TypeInv /\ VisitInv /\ LedgerInv /\ [Next]_vars => LedgerInv'
  BY LedgerStep
<1>3. LedgerInv => LedgerExactlyOnce
  BY DEF LedgerInv
<1> QED BY <1>1, <1>2, <1>3, TypeCorrect, VisitAlways, PTL DEF Spec
=============================================================================
