-------------------------- MODULE BonusScoresProofs --------------------------
(***************************************************************************)
(* The history rows of every pool tile the blocks since it was added, for  *)
(* any pools, scores and number of faults: rollbacks, crashes, scores that *)
(* cannot be read and statements that fail.                                *)
(*                                                                         *)
(* The committed tables tile the blocks up to the newest one stored, those *)
(* of the open transaction the blocks up to its own.  A change closes the  *)
(* open row one block earlier, so that it must not begin in this block:    *)
(* what was written in this block is in the cache, and is not a change.    *)
(***************************************************************************)
EXTENDS BonusScores, FiniteSetTheorems, TLAPS

Block == [pools : SUBSET Pools, score : [Pools -> Scores], epoch : Nat]

Row == [pool : Pools, from : Nat, to : Nat, score : Scores]

Covering(rows, p, b) == {r \in rows : r.pool = p /\ Covers(r, b)}

(* The rows of a pool from its first one on.                               *)
TiledFrom(t, p, first, top) ==
    /\ \E r \in t.rows : r.pool = p /\ r.from = first
    /\ \A r \in t.rows : r.pool = p => first <= r.from /\ r.from <= top /\ r.to <= top
    /\ \E r \in t.rows : OpenRows(t.rows, p) = {r} /\ r.score = t.nodes[p]
    /\ \A b \in first .. top : \E r \in t.rows : Covering(t.rows, p, b) = {r}

Tiled(t, top) ==
    /\ DOMAIN t = {"blocks", "nodes", "rows", "reasons", "epochs"}
    /\ t.rows \subseteq Row /\ DOMAIN t.nodes \subseteq Pools
    /\ \A r \in t.rows : r.pool \in DOMAIN t.nodes
    /\ \A p \in DOMAIN t.nodes : \E first \in 1 .. top : TiledFrom(t, p, first, top)

InBlock == pc \in {"nodes", "scores", "reasons"}

ChainInv == chain \in Seq(Block) /\ chain # <<>> /\ cur \in Nat \ {0} /\ DOMAIN cache = Pools

NewestIs(top) ==
    /\ top \in 0 .. cur - 1 /\ db.blocks \subseteq 0 .. top /\ (top = 0 \/ top \in db.blocks)
    /\ Tiled(db, top)

StoredInv == \E top \in Nat : NewestIs(top)

WrittenAreCached ==
    \A r \in work.rows : r.to = 0 /\ r.from = cur => cache[r.pool] = now.score[r.pool]

WorkInv ==
    /\ cur \in DOMAIN chain /\ Tiled(work, cur) /\ work.blocks = db.blocks \cup {cur}
    /\ DOMAIN work.nodes \subseteq known /\ WrittenAreCached
    /\ pc = "scores" => todo \subseteq DOMAIN work.nodes

RowsInv ==
    /\ ChainInv
    /\ StoredInv
    /\ pc \in {"down", "idle", "nodes", "scores", "reasons"}
    /\ pc # "down" => DOMAIN db.nodes \subseteq known
    /\ InBlock => WorkInv

-----------------------------------------------------------------------------
LEMMA MaxIs ==
    ASSUME NEW S, S \subseteq Int, NEW m \in S, \A x \in S : x <= m
    PROVE  Max(S) = m
<1>1. Max(S) \in S /\ \A y \in S : Max(S) >= y
    BY DEF Max
<1>2. Max(S) \in Int /\ m \in Int /\ Max(S) <= m /\ Max(S) >= m
    BY <1>1
<1> QED BY <1>2

LEMMA MinIs ==
    ASSUME NEW S, S \subseteq Int, NEW m \in S, \A x \in S : m <= x
    PROVE  Min(S) = m
<1>1. Min(S) \in S /\ \A y \in S : Min(S) <= y
    BY DEF Min
<1>2. Min(S) \in Int /\ m \in Int /\ Min(S) <= m /\ Min(S) >= m
    BY <1>1
<1> QED BY <1>2

(* The first row of a pool covers nothing but this block.                  *)
LEMMA WithNodeTiled ==
    ASSUME NEW t, NEW p \in Pools, NEW score \in Scores, cur \in Nat \ {0},
           Tiled(t, cur), p \notin DOMAIN t.nodes
    PROVE  /\ Tiled(WithNode(t, p, score), cur)
           /\ WithNode(t, p, score).blocks = t.blocks
           /\ DOMAIN WithNode(t, p, score).nodes = DOMAIN t.nodes \cup {p}
           /\ \A r \in WithNode(t, p, score).rows : r \in t.rows \/ (r.pool = p /\ r.score = score)
<1> DEFINE u == WithNode(t, p, score)
           n == [pool |-> p, from |-> cur, to |-> 0, score |-> score]
<1>1. /\ DOMAIN u = {"blocks", "nodes", "rows", "reasons", "epochs"}
      /\ u.blocks = t.blocks /\ u.rows = t.rows \cup {n}
      /\ u.nodes = [q \in DOMAIN t.nodes \cup {p} |-> IF q = p THEN score ELSE t.nodes[q]]
    BY DEF Tiled, WithNode
<1>2. n \in Row /\ n.pool = p /\ n.from = cur /\ n.to = 0 /\ n.score = score
    BY DEF Row
<1> HIDE DEF u, n
<1>3. \A r \in t.rows : r.pool # p
    BY DEF Tiled
<1>4. TiledFrom(u, p, cur, cur)
    <2>1. OpenRows(u.rows, p) = {n}
        BY <1>1, <1>2, <1>3 DEF OpenRows
    <2>2. Covering(u.rows, p, cur) = {n}
        BY <1>1, <1>2, <1>3 DEF Covering, Covers
    <2>3. cur .. cur = {cur}
        OBVIOUS
    <2>4. \A r \in u.rows : r.pool = p => r = n
        BY <1>1, <1>3
    <2> QED BY <1>1, <1>2, <2>1, <2>2, <2>3, <2>4 DEF TiledFrom
<1>5. ASSUME NEW q \in DOMAIN t.nodes, NEW first, TiledFrom(t, q, first, cur)
      PROVE  TiledFrom(u, q, first, cur)
    <2>1. q # p /\ u.nodes[q] = t.nodes[q]
        BY <1>1
    <2>2. OpenRows(u.rows, q) = OpenRows(t.rows, q)
        BY <1>1, <1>2, <2>1 DEF OpenRows
    <2>3. \A b : Covering(u.rows, q, b) = Covering(t.rows, q, b)
        BY <1>1, <1>2, <2>1 DEF Covering
    <2>4. \A r : r.pool = q => (r \in u.rows <=> r \in t.rows)
        BY <1>1, <1>2, <2>1
    <2> QED BY <1>5, <2>1, <2>2, <2>3, <2>4 DEF TiledFrom, OpenRows, Covering
<1>6. \A q \in DOMAIN u.nodes : \E first \in 1 .. cur : TiledFrom(u, q, first, cur)
    BY <1>1, <1>4, <1>5 DEF Tiled
<1>7. Tiled(u, cur)
    BY <1>1, <1>2, <1>6 DEF Tiled
<1> QED BY <1>1, <1>2, <1>7 DEF u

(* A change splits the open row: the blocks before this one stay with it.  *)
LEMMA WithScoreTiled ==
    ASSUME NEW t, NEW p \in DOMAIN t.nodes, NEW score \in Scores, cur \in Nat \ {0},
           Tiled(t, cur), \A r \in OpenRows(t.rows, p) : r.from # cur
    PROVE  /\ Tiled(WithScore(t, p, score), cur)
           /\ WithScore(t, p, score).blocks = t.blocks
           /\ DOMAIN WithScore(t, p, score).nodes = DOMAIN t.nodes
           /\ \A r \in WithScore(t, p, score).rows :
                r.to = 0 => r \in t.rows \/ (r.pool = p /\ r.score = score)
<1> DEFINE u == WithScore(t, p, score)
           n == [pool |-> p, from |-> cur, to |-> 0, score |-> score]
<1>1. PICK first \in 1 .. cur : TiledFrom(t, p, first, cur)
    BY DEF Tiled
<1>2. PICK o \in t.rows : OpenRows(t.rows, p) = {o} /\ o.score = t.nodes[p]
    BY <1>1 DEF TiledFrom
<1> DEFINE c == [o EXCEPT !.to = cur - 1]
<1>3. o \in Row /\ o.pool = p /\ o.to = 0 /\ first <= o.from /\ o.from < cur /\ o.from \in Nat
    <2>1. o.pool = p /\ o.to = 0 /\ o.from # cur
        BY <1>2 DEF OpenRows
    <2>2. o \in Row
        BY DEF Tiled
    <2>3. o.from \in Nat
        BY <2>2 DEF Row
    <2>4. first <= o.from /\ o.from <= cur
        BY <1>1, <2>1 DEF TiledFrom
    <2> QED BY <2>1, <2>2, <2>3, <2>4
<1>4. c \in Row /\ c.pool = p /\ c.from = o.from /\ c.to = cur - 1 /\ c.to # 0
    BY <1>3 DEF Row
<1>5. p \in Pools /\ n \in Row /\ n.pool = p /\ n.from = cur /\ n.to = 0 /\ n.score = score
    BY DEF Row, Tiled
<1>6. /\ DOMAIN u = {"blocks", "nodes", "rows", "reasons", "epochs"}
      /\ u.blocks = t.blocks /\ u.nodes = [t.nodes EXCEPT ![p] = score]
      /\ u.rows = (t.rows \ {o}) \cup {c, n}
    <2>1. {[r EXCEPT !.to = cur - 1] : r \in OpenRows(t.rows, p)} = {c}
        BY <1>2
    <2> QED BY <1>2, <2>1 DEF Tiled, WithScore
<1> HIDE DEF u, n, c
<1>7. DOMAIN u.nodes = DOMAIN t.nodes /\ u.nodes[p] = score
      /\ \A q \in DOMAIN t.nodes \ {p} : u.nodes[q] = t.nodes[q]
    BY <1>6
<1>8. TiledFrom(u, p, first, cur)
    <2>1. \E r \in u.rows : r.pool = p /\ r.from = first
        BY <1>1, <1>4, <1>6 DEF TiledFrom
    <2>2. \A r \in u.rows : r.pool = p => first <= r.from /\ r.from <= cur /\ r.to <= cur
        BY <1>1, <1>3, <1>4, <1>5, <1>6 DEF TiledFrom
    <2>3. OpenRows(u.rows, p) = {n}
        BY <1>2, <1>4, <1>5, <1>6 DEF OpenRows
    <2>4. ASSUME NEW b \in first .. cur
          PROVE  \E r \in u.rows : Covering(u.rows, p, b) = {r}
        <3>1. PICK r \in t.rows : Covering(t.rows, p, b) = {r}
            BY <1>1 DEF TiledFrom
        <3>2. r \in Row /\ r.pool = p /\ Covers(r, b)
            BY <3>1 DEF Covering, Tiled
        <3>3. Covers(o, b) <=> o.from <= b
            BY <1>3 DEF Covers
        <3>4. Covers(c, b) <=> o.from <= b /\ b # cur
            BY <1>3, <1>4 DEF Covers
        <3>5. Covers(n, b) <=> b = cur
            BY <1>5 DEF Covers
        <3>6. Covers(o, b) => r = o
            BY <1>3, <3>1 DEF Covering
        <3>7. \A x \in u.rows : x.pool = p /\ Covers(x, b) =>
                x = n \/ x = c \/ (x = r /\ r # o)
            BY <1>6, <3>1 DEF Covering
        <3>8. CASE b = cur
            <4>1. Covers(o, b) /\ ~Covers(c, b) /\ Covers(n, b)
                BY <1>3, <3>3, <3>4, <3>5, <3>8
            <4> QED BY <1>5, <1>6, <3>6, <3>7, <4>1 DEF Covering
        <3>9. CASE b # cur /\ o.from <= b
            <4>1. Covers(o, b) /\ Covers(c, b) /\ ~Covers(n, b)
                BY <3>3, <3>4, <3>5, <3>9
            <4> QED BY <1>4, <1>6, <3>6, <3>7, <4>1 DEF Covering
        <3>10. CASE b # cur /\ ~(o.from <= b)
            <4>1. ~Covers(o, b) /\ ~Covers(c, b) /\ ~Covers(n, b)
                BY <3>3, <3>4, <3>5, <3>10
            <4> QED BY <1>6, <3>2, <3>7, <4>1 DEF Covering
        <3> QED BY <3>8, <3>9, <3>10
    <2> QED BY <1>5, <1>6, <1>7, <2>1, <2>2, <2>3, <2>4 DEF TiledFrom
<1>9. ASSUME NEW q \in DOMAIN t.nodes \ {p}, NEW from, TiledFrom(t, q, from, cur)
      PROVE  TiledFrom(u, q, from, cur)
    <2>1. OpenRows(u.rows, q) = OpenRows(t.rows, q)
        BY <1>3, <1>4, <1>5, <1>6 DEF OpenRows
    <2>2. \A b : Covering(u.rows, q, b) = Covering(t.rows, q, b)
        BY <1>3, <1>4, <1>5, <1>6 DEF Covering
    <2>3. \A r : r.pool = q => (r \in u.rows <=> r \in t.rows)
        BY <1>3, <1>4, <1>5, <1>6
    <2> QED BY <1>7, <1>9, <2>1, <2>2, <2>3 DEF TiledFrom, OpenRows, Covering
<1>10. Tiled(u, cur)
    <2>1. \A q \in DOMAIN u.nodes : \E from \in 1 .. cur : TiledFrom(u, q, from, cur)
        BY <1>7, <1>8, <1>9 DEF Tiled
    <2>2. u.rows \subseteq Row /\ \A r \in u.rows : r.pool \in DOMAIN u.nodes
        BY <1>4, <1>5, <1>6, <1>7 DEF Tiled
    <2> QED BY <1>6, <1>7, <2>1, <2>2 DEF Tiled
<1>11. \A r \in u.rows : r.to = 0 => r \in t.rows \/ (r.pool = p /\ r.score = score)
    BY <1>4, <1>5, <1>6
<1> QED BY <1>6, <1>7, <1>10, <1>11 DEF u

-----------------------------------------------------------------------------
(* The tables as a later block sees them: the open rows reach to it.       *)
LEMMA TiledLater ==
    ASSUME NEW t, NEW top \in Nat, NEW later \in Nat, top <= later, Tiled(t, top)
    PROVE  Tiled(t, later)
<1>1. ASSUME NEW p \in DOMAIN t.nodes, NEW first \in 1 .. top, TiledFrom(t, p, first, top)
      PROVE  TiledFrom(t, p, first, later)
    <2>1. PICK o \in t.rows : OpenRows(t.rows, p) = {o} /\ o.score = t.nodes[p]
        BY <1>1 DEF TiledFrom
    <2>2. o.pool = p /\ o.to = 0
        BY <2>1 DEF OpenRows
    <2>3. \A r \in t.rows : r.from \in Nat /\ r.to \in Nat
        BY DEF Tiled, Row
    <2>4. \A r \in t.rows : r.pool = p => first <= r.from /\ r.from <= top /\ r.to <= top
        BY <1>1 DEF TiledFrom
    <2>5. \A r \in t.rows : r.pool = p => r.from <= later /\ r.to <= later
        BY <2>3, <2>4
    <2>6. ASSUME NEW b \in first .. later
          PROVE  \E r \in t.rows : Covering(t.rows, p, b) = {r}
        <3>1. CASE b <= top
            BY <1>1, <3>1 DEF TiledFrom
        <3>2. CASE b > top
            <4>1. Covers(o, b)
                BY <2>2, <2>3, <2>4, <3>2 DEF Covers
            <4>2. ASSUME NEW r \in t.rows, r.pool = p, Covers(r, b)
                  PROVE  r = o
                <5>1. r.to = 0
                    BY <2>3, <2>4, <3>2, <4>2 DEF Covers
                <5> QED BY <2>1, <4>2, <5>1 DEF OpenRows
            <4> QED BY <2>2, <4>1, <4>2 DEF Covering
        <3> QED BY <3>1, <3>2
    <2> QED BY <1>1, <2>4, <2>5, <2>6 DEF TiledFrom
<1> QED BY <1>1 DEF Tiled

LEMMA SameRowsTiled ==
    ASSUME NEW t, NEW u, NEW top, Tiled(t, top),
           DOMAIN u = DOMAIN t, u.rows = t.rows, u.nodes = t.nodes
    PROVE  Tiled(u, top)
<1>1. \A p, first : TiledFrom(t, p, first, top) => TiledFrom(u, p, first, top)
    BY DEF TiledFrom
<1> QED BY <1>1 DEF Tiled

(* The epoch transition leaves the other tables alone.                     *)
SameButEpochs(t, u) ==
    /\ DOMAIN t = DOMAIN u
    /\ t.blocks = u.blocks /\ t.nodes = u.nodes /\ t.rows = u.rows /\ t.reasons = u.reasons

LEMMA WithEpochRows ==
    ASSUME NEW t, NEW top, Tiled(t, top)
    PROVE  SameButEpochs(WithEpoch(t), t)
<1>1. CASE now.epoch <= lastEpoch
    BY <1>1 DEF WithEpoch, SameButEpochs
<1>2. CASE ~(now.epoch <= lastEpoch)
    BY <1>2 DEF WithEpoch, SameButEpochs, Tiled
<1> QED BY <1>1, <1>2

(* The block of the running step.                                          *)
LEMMA NowIsBlock ==
    ASSUME ChainInv, cur \in DOMAIN chain
    PROVE  now.pools \subseteq Pools /\ \A p \in Pools : now.score[p] \in Scores
<1>1. now \in Block
    BY DEF ChainInv, now
<1> QED BY <1>1 DEF Block

LEMMA NextBlocksAreBlocks ==
    ASSUME NEW c \in Block
    PROVE  NextBlocks(c) \subseteq Block
BY DEF NextBlocks, Block

-----------------------------------------------------------------------------
LEMMA InitRowsInv == Init => RowsInv
<1> SUFFICES ASSUME Init PROVE RowsInv
    OBVIOUS
<1>1. chain \in Seq(Block) /\ chain # <<>>
    <2>1. PICK p \in Pools :
            chain = <<[pools |-> {p}, score |-> [q \in Pools |-> 0], epoch |-> 0]>>
        BY DEF Init
    <2>2. 0 \in Scores
        BY ScoresShape DEF Scores
    <2>3. [pools |-> {p}, score |-> [q \in Pools |-> 0], epoch |-> 0] \in Block
        BY <2>2 DEF Block
    <2> QED BY <2>1, <2>3
<1>2. Tiled(db, 0)
    BY DEF Init, EmptyTables, Tiled
<1>3. NewestIs(0)
    BY <1>2 DEF NewestIs, Init, EmptyTables
<1> QED BY <1>1, <1>3 DEF Init, RowsInv, ChainInv, StoredInv, InBlock

LEMMA NewBlockInv == RowsInv /\ NewBlock => RowsInv'
<1> SUFFICES ASSUME RowsInv, NewBlock PROVE RowsInv'
    OBVIOUS
<1>1. Last(chain) \in Block
    BY DEF RowsInv, ChainInv, Last
<1>2. PICK c \in Block : chain' = Append(chain, c)
    BY <1>1, NextBlocksAreBlocks DEF NewBlock
<1>3. chain' \in Seq(Block) /\ chain' # <<>>
    BY <1>2 DEF RowsInv, ChainInv
<1> QED BY <1>3 DEF NewBlock, RowsInv, ChainInv, StoredInv, NewestIs, InBlock

LEMMA StartupInv == RowsInv /\ Startup => RowsInv'
<1> SUFFICES ASSUME RowsInv, Startup PROVE RowsInv'
    OBVIOUS
<1>1. DOMAIN cache' = Pools
    BY DEF Startup, Loaded
<1> QED BY <1>1 DEF Startup, KnownNodes, RowsInv, ChainInv, StoredInv, NewestIs, InBlock

LEMMA CrashInv == RowsInv /\ Crash => RowsInv'
<1> SUFFICES ASSUME RowsInv, Crash PROVE RowsInv'
    OBVIOUS
<1>1. PICK top \in Nat : NewestIs(top)
    BY DEF RowsInv, StoredInv
<1>2. Max(db.blocks \cup {0}) = top
    BY <1>1, MaxIs DEF NewestIs
<1>3. cur' = top + 1 /\ db' = db /\ pc' = "down" /\ chain' = chain /\ cache' = cache
    BY <1>2 DEF Crash
<1>4. NewestIs(top)'
    BY <1>1, <1>3 DEF NewestIs
<1> QED BY <1>1, <1>3, <1>4 DEF RowsInv, ChainInv, StoredInv, InBlock

LEMMA BeginBlockInv == RowsInv /\ BeginBlock => RowsInv'
<1> SUFFICES ASSUME RowsInv, BeginBlock PROVE RowsInv'
    OBVIOUS
<1>1. PICK top \in Nat : NewestIs(top)
    BY DEF RowsInv, StoredInv
<1>2. cur \in Nat /\ top < cur
    BY <1>1 DEF NewestIs, RowsInv, ChainInv
<1>3. /\ work'.blocks = db.blocks \cup {cur} /\ work'.nodes = db.nodes /\ work'.rows = db.rows
      /\ DOMAIN work' = DOMAIN db
    BY <1>1 DEF BeginBlock, NewestIs, Tiled
<1>4. Tiled(work', cur)
    <2>1. Tiled(db, cur)
        BY <1>1, <1>2, TiledLater DEF NewestIs
    <2> QED BY <1>3, <2>1, SameRowsTiled
<1>5. \A r \in db.rows : r.from # cur
    <2> SUFFICES ASSUME NEW r \in db.rows PROVE r.from # cur
        OBVIOUS
    <2>1. r.pool \in DOMAIN db.nodes /\ r.from \in Nat /\ Tiled(db, top)
        BY <1>1 DEF NewestIs, Tiled, Row
    <2>2. PICK first \in 1 .. top : TiledFrom(db, r.pool, first, top)
        BY <2>1 DEF Tiled
    <2> QED BY <1>2, <2>1, <2>2 DEF TiledFrom
<1> QED BY <1>3, <1>4, <1>5
        DEF BeginBlock, RowsInv, ChainInv, StoredInv, NewestIs, InBlock, WorkInv, WrittenAreCached

LEMMA RegisterNodeInv == RowsInv /\ RegisterNode => RowsInv'
<1> SUFFICES ASSUME RowsInv, RegisterNode PROVE RowsInv'
    OBVIOUS
<1>1. pc = "nodes" /\ pc' = pc /\ cur' = cur /\ chain' = chain /\ db' = db
    BY DEF RegisterNode
<1>2. ChainInv /\ WorkInv
    BY <1>1 DEF RowsInv, InBlock
<1>3. PICK p \in now.pools \ known :
        /\ work' = WithNode(work, p, now.score[p])
        /\ cache' = [cache EXCEPT ![p] = now.score[p]]
        /\ known' = known \cup {p}
    BY DEF RegisterNode
<1>4. p \in Pools /\ now.score[p] \in Scores /\ p \notin DOMAIN work.nodes
    BY <1>2, NowIsBlock DEF WorkInv
<1>5. /\ Tiled(work', cur) /\ work'.blocks = work.blocks
      /\ DOMAIN work'.nodes = DOMAIN work.nodes \cup {p}
      /\ \A r \in work'.rows : r \in work.rows \/ (r.pool = p /\ r.score = now.score[p])
    BY <1>2, <1>3, <1>4, WithNodeTiled DEF ChainInv, WorkInv
<1>6. now' = now
    BY <1>1 DEF now
<1>7. /\ DOMAIN cache' = Pools /\ cache'[p] = now.score[p]
      /\ \A q \in Pools \ {p} : cache'[q] = cache[q]
    BY <1>2, <1>3, <1>4 DEF ChainInv
<1>8. \A r \in work'.rows : r.pool \in Pools
    BY <1>5 DEF Tiled, Row
<1>9. WrittenAreCached'
    BY <1>1, <1>2, <1>5, <1>6, <1>7, <1>8 DEF WrittenAreCached, WorkInv
<1>10. WorkInv'
    BY <1>1, <1>2, <1>3, <1>5, <1>9 DEF WorkInv
<1> QED BY <1>1, <1>3, <1>7, <1>10 DEF RowsInv, ChainInv, StoredInv, NewestIs, InBlock

LEMMA EventsProcessedInv == RowsInv /\ EventsProcessed => RowsInv'
<1> SUFFICES ASSUME RowsInv, EventsProcessed PROVE RowsInv'
    OBVIOUS
<1>1. WorkInv /\ pc' = "scores" /\ todo' = now.pools
    BY DEF EventsProcessed, RowsInv, InBlock
<1>2. SameButEpochs(work', work)
    BY <1>1, WithEpochRows DEF EventsProcessed, WorkInv
<1>3. Tiled(work', cur)
    BY <1>1, <1>2, SameRowsTiled DEF WorkInv, SameButEpochs
<1> QED BY <1>1, <1>2, <1>3 DEF EventsProcessed, RowsInv, ChainInv, StoredInv, NewestIs, InBlock,
               WorkInv, WrittenAreCached, now, SameButEpochs

LEMMA ScoreChangedInv == RowsInv /\ ScoreChanged => RowsInv'
<1> SUFFICES ASSUME RowsInv, ScoreChanged PROVE RowsInv'
    OBVIOUS
<1>1. PICK p \in todo :
        /\ Settle(p) /\ now.score[p] # cache[p]
        /\ work' = WithScore(work, p, now.score[p])
        /\ cache' = [cache EXCEPT ![p] = now.score[p]]
    BY DEF ScoreChanged
<1>2. /\ pc = "scores" /\ pc' = pc /\ cur' = cur /\ chain' = chain /\ db' = db /\ known' = known
      /\ todo' \subseteq todo
    BY <1>1 DEF ScoreChanged, Settle
<1>3. ChainInv /\ WorkInv
    BY <1>2 DEF RowsInv, InBlock
<1>4. p \in DOMAIN work.nodes /\ p \in Pools /\ now.score[p] \in Scores
    <2>1. p \in DOMAIN work.nodes
        BY <1>2, <1>3 DEF WorkInv
    <2> QED BY <1>3, <2>1, NowIsBlock DEF WorkInv, Tiled
<1>5. \A r \in OpenRows(work.rows, p) : r.from # cur
    BY <1>1, <1>3 DEF OpenRows, WorkInv, WrittenAreCached
<1>6. /\ Tiled(work', cur) /\ work'.blocks = work.blocks /\ DOMAIN work'.nodes = DOMAIN work.nodes
      /\ \A r \in work'.rows : r.to = 0 => r \in work.rows \/ (r.pool = p /\ r.score = now.score[p])
    BY <1>1, <1>3, <1>4, <1>5, WithScoreTiled DEF ChainInv, WorkInv
<1>7. now' = now
    BY <1>2 DEF now
<1>8. /\ DOMAIN cache' = Pools /\ cache'[p] = now.score[p]
      /\ \A q \in Pools \ {p} : cache'[q] = cache[q]
    BY <1>1, <1>3, <1>4 DEF ChainInv
<1>9. \A r \in work'.rows : r.pool \in Pools
    BY <1>6 DEF Tiled, Row
<1>10. WrittenAreCached'
    BY <1>2, <1>3, <1>6, <1>7, <1>8, <1>9 DEF WrittenAreCached, WorkInv
<1>11. WorkInv'
    BY <1>2, <1>3, <1>6, <1>10 DEF WorkInv
<1> QED BY <1>2, <1>8, <1>11 DEF RowsInv, ChainInv, StoredInv, NewestIs, InBlock

(* Steps that settle a pool without a row, or go on to the next loop.      *)
LEMMA NoRowInv ==
    /\ RowsInv
    /\ ScoreUnchanged \/ ScoreReadFails \/ ScoreStatementFails \/ ScoresProcessed \/ ReasonStatementFails
    => RowsInv'
<1> SUFFICES ASSUME RowsInv,
                    \/ ScoreUnchanged \/ ScoreReadFails \/ ScoreStatementFails \/ ScoresProcessed
                    \/ ReasonStatementFails
             PROVE  RowsInv'
    OBVIOUS
<1>1. /\ chain' = chain /\ db' = db /\ work' = work /\ cur' = cur /\ known' = known /\ cache' = cache
      /\ pc \in {"scores", "reasons"} /\ pc' \in {"scores", "reasons"} /\ todo' \subseteq todo
      /\ pc' = "scores" => pc = "scores"
    BY DEF ScoreUnchanged, ScoreReadFails, ScoreStatementFails, ScoresProcessed, ReasonStatementFails, Settle
<1> QED BY <1>1 DEF RowsInv, ChainInv, StoredInv, NewestIs, InBlock, WorkInv, WrittenAreCached, now

LEMMA DetectReasonsInv == RowsInv /\ DetectReasons => RowsInv'
<1> SUFFICES ASSUME RowsInv, DetectReasons PROVE RowsInv'
    OBVIOUS
<1>1. /\ chain' = chain /\ db' = db /\ cur' = cur /\ known' = known /\ cache' = cache
      /\ pc = "reasons" /\ pc' = pc
    BY DEF DetectReasons
<1>2. WorkInv
    BY <1>1 DEF RowsInv, InBlock
<1>3. /\ DOMAIN work' = DOMAIN work /\ work'.rows = work.rows /\ work'.nodes = work.nodes
      /\ work'.blocks = work.blocks
    BY <1>2 DEF DetectReasons, WithReason, WorkInv, Tiled
<1>4. Tiled(work', cur)
    BY <1>2, <1>3, SameRowsTiled DEF WorkInv
<1> QED BY <1>1, <1>2, <1>3, <1>4
        DEF RowsInv, ChainInv, StoredInv, NewestIs, InBlock, WorkInv, WrittenAreCached, now

LEMMA CommitInv == RowsInv /\ Commit => RowsInv'
<1> SUFFICES ASSUME RowsInv, Commit PROVE RowsInv'
    OBVIOUS
<1>1. /\ chain' = chain /\ cur' = cur + 1 /\ known' = known /\ cache' = cache
      /\ pc = "reasons" /\ pc' = "idle"
    BY DEF Commit, BlockDone
<1>2. ChainInv /\ WorkInv
    BY <1>1 DEF RowsInv, InBlock
<1>3. PICK top \in Nat : NewestIs(top)
    BY DEF RowsInv, StoredInv
<1>4. \E new \in Nat : NewestIs(new)' /\ DOMAIN db'.nodes \subseteq known
    <2>1. CASE aborted
        <3>1. db' = db
            BY <2>1 DEF Commit
        <3>2. NewestIs(top)'
            BY <1>1, <1>2, <1>3, <3>1 DEF NewestIs, ChainInv
        <3> QED BY <1>1, <3>1, <3>2 DEF RowsInv
    <2>2. CASE ~aborted
        <3>1. db' = work
            BY <2>2 DEF Commit
        <3> PICK new \in Nat : new = cur
            BY <1>2 DEF ChainInv
        <3>2. new \in 0 .. cur' - 1 /\ 0 .. top \subseteq 0 .. new
            BY <1>1, <1>3 DEF NewestIs
        <3>3. db'.blocks \subseteq 0 .. new /\ new \in db'.blocks /\ Tiled(db', new)
            BY <1>2, <1>3, <3>1, <3>2 DEF NewestIs, WorkInv
        <3>4. NewestIs(new)'
            <4>1. Tiled(db, new)' <=> Tiled(db', new)
                BY DEF Tiled, TiledFrom, OpenRows, Covering, Covers
            <4> QED BY <3>2, <3>3, <4>1 DEF NewestIs
        <3> QED BY <1>2, <3>1, <3>2, <3>4 DEF WorkInv
    <2> QED BY <2>1, <2>2
<1> QED BY <1>1, <1>2, <1>4 DEF RowsInv, ChainInv, StoredInv, InBlock

LEMMA BlockFailsInv == RowsInv /\ BlockFails => RowsInv'
<1> SUFFICES ASSUME RowsInv, BlockFails PROVE RowsInv'
    OBVIOUS
<1> QED BY DEF BlockFails, RowsInv, ChainInv, StoredInv, NewestIs, InBlock

LEMMA NextRowsInv == RowsInv /\ [Next]_vars => RowsInv'
<1> SUFFICES ASSUME RowsInv, [Next]_vars PROVE RowsInv'
    OBVIOUS
<1>1. CASE NewBlock \/ Startup \/ Crash
    BY <1>1, NewBlockInv, StartupInv, CrashInv
<1>2. CASE BeginBlock \/ RegisterNode \/ EventsProcessed
    BY <1>2, BeginBlockInv, RegisterNodeInv, EventsProcessedInv
<1>3. CASE ScoreUnchanged \/ ScoreChanged \/ ScoreReadFails \/ ScoreStatementFails
    BY <1>3, ScoreChangedInv, NoRowInv
<1>4. CASE ScoresProcessed \/ DetectReasons \/ ReasonStatementFails \/ Commit \/ BlockFails
    BY <1>4, NoRowInv, DetectReasonsInv, CommitInv, BlockFailsInv
<1>5. CASE UNCHANGED vars
    BY <1>5 DEF vars, RowsInv, ChainInv, StoredInv, NewestIs, InBlock, WorkInv, WrittenAreCached, now
<1> QED BY <1>1, <1>2, <1>3, <1>4, <1>5 DEF Next

LEMMA RowsInvTiles == RowsInv => RowsTile
<1> SUFFICES ASSUME RowsInv, NEW p \in DOMAIN db.nodes
             PROVE  LET rows == {r \in db.rows : r.pool = p}
                    IN  /\ {r.score : r \in OpenRows(db.rows, p)} = {db.nodes[p]}
                        /\ \A b \in Min({r.from : r \in rows}) .. Max(db.blocks) :
                            Cardinality({r \in rows : Covers(r, b)}) = 1
    BY DEF RowsTile
<1> DEFINE rows == {r \in db.rows : r.pool = p}
<1>1. PICK top \in Nat : NewestIs(top)
    BY DEF RowsInv, StoredInv
<1>2. PICK first \in 1 .. top : TiledFrom(db, p, first, top)
    BY <1>1 DEF NewestIs, Tiled
<1>3. Max(db.blocks) = top
    BY <1>1, <1>2, MaxIs DEF NewestIs
<1>4. Min({r.from : r \in rows}) = first
    <2> DEFINE F == {r.from : r \in rows}
    <2>1. \A r \in rows : r.from \in Nat /\ first <= r.from
        BY <1>1, <1>2 DEF NewestIs, Tiled, TiledFrom, Row
    <2>2. PICK r \in rows : r.from = first
        BY <1>2 DEF TiledFrom
    <2>3. F \subseteq Int /\ first \in F /\ \A f \in F : first <= f
        BY <2>1, <2>2
    <2> HIDE DEF F
    <2>4. Min(F) = first
        BY <2>3, MinIs
    <2> QED BY <2>4 DEF F
<1>5. {r.score : r \in OpenRows(db.rows, p)} = {db.nodes[p]}
    BY <1>2 DEF TiledFrom
<1>6. ASSUME NEW b \in first .. top
      PROVE  Cardinality({r \in rows : Covers(r, b)}) = 1
    <2>1. PICK r \in db.rows : Covering(db.rows, p, b) = {r}
        BY <1>2 DEF TiledFrom
    <2>2. {x \in rows : Covers(x, b)} = {r}
        BY <2>1 DEF Covering
    <2> QED BY <2>2, FS_Singleton
<1> QED BY <1>3, <1>4, <1>5, <1>6

(* Each block since a pool was added lies in exactly one of its rows, and  *)
(* the last one is open and tells the score of the node                    *)
(* (bonusScoreProcessor.ts 204-240, database-persistent.ts 355).           *)
THEOREM RowsTileAlways == Spec => []RowsTile
<1> QED BY InitRowsInv, NextRowsInv, RowsInvTiles, PTL DEF Spec

-----------------------------------------------------------------------------
(* What the history tells.  The pools only ever grow, so that every pool   *)
(* with a node is one of the pools whose scores a later block compares.    *)

GrowingPools(ch) == \A i, j \in DOMAIN ch : i <= j => ch[i].pools \subseteq ch[j].pools

PoolsInv ==
    /\ GrowingPools(chain)
    /\ db.blocks \subseteq DOMAIN chain
    /\ \A b \in DOMAIN chain :
          (\A a \in db.blocks : a <= b) => DOMAIN db.nodes \subseteq chain[b].pools
    /\ pc # "down" => \A b \in DOMAIN chain :
          b >= cur \/ b = Len(chain) => known \subseteq chain[b].pools

(* The chain has its next block, and those before it stay.                 *)
LEMMA ChainGrows ==
    ASSUME ChainInv, NewBlock
    PROVE  \E c : /\ Last(chain).pools \subseteq c.pools /\ Last(chain) = chain[Len(chain)]
                  /\ Len(chain) \in Nat \ {0} /\ Len(chain) \in DOMAIN chain
                  /\ Len(chain') = Len(chain) + 1
                  /\ DOMAIN chain = 1 .. Len(chain) /\ DOMAIN chain' = 1 .. (Len(chain) + 1)
                  /\ chain'[Len(chain) + 1] = c
                  /\ \A b \in DOMAIN chain : chain'[b] = chain[b]
<1>1. PICK c \in NextBlocks(Last(chain)) : chain' = Append(chain, c)
    BY DEF NewBlock
<1>2. Last(chain) = chain[Len(chain)] /\ Last(chain) \in Block
    BY DEF ChainInv, Last
<1>3. Last(chain).pools \subseteq c.pools
    <2>1. PICK pools \in {Last(chain).pools} \cup {Last(chain).pools \cup {q} : q \in Pools} : c.pools = pools
        BY <1>1 DEF NextBlocks
    <2> QED BY <2>1
<1>4. /\ Len(chain) \in Nat \ {0} /\ Len(chain) \in DOMAIN chain
      /\ DOMAIN chain = 1 .. Len(chain) /\ DOMAIN chain' = 1 .. (Len(chain) + 1)
    BY <1>1 DEF ChainInv
<1>5. chain'[Len(chain) + 1] = c /\ \A b \in DOMAIN chain : chain'[b] = chain[b]
    BY <1>1, <1>4 DEF ChainInv
<1>6. Len(chain') = Len(chain) + 1
    BY <1>1 DEF ChainInv
<1> QED BY <1>2, <1>3, <1>4, <1>5, <1>6

LEMMA PoolsInit == Init => PoolsInv
<1> SUFFICES ASSUME Init PROVE PoolsInv
    OBVIOUS
<1>1. PICK p \in Pools : chain = <<[pools |-> {p}, score |-> [q \in Pools |-> 0], epoch |-> 0]>>
    BY DEF Init
<1>2. DOMAIN chain = {1}
    BY <1>1
<1>3. db.blocks = {} /\ DOMAIN db.nodes = {} /\ pc = "down"
    BY DEF Init, EmptyTables
<1> QED BY <1>2, <1>3 DEF PoolsInv, GrowingPools

LEMMA PoolsNewBlock == RowsInv /\ PoolsInv /\ NewBlock => PoolsInv'
<1> SUFFICES ASSUME RowsInv, PoolsInv, NewBlock PROVE PoolsInv'
    OBVIOUS
<1>1. db' = db /\ cur' = cur /\ pc' = pc /\ known' = known
    BY DEF NewBlock
<1> DEFINE l == Len(chain)
<1>2. PICK c : /\ chain[l].pools \subseteq c.pools
               /\ l \in Nat \ {0} /\ l \in DOMAIN chain /\ Len(chain') = l + 1
               /\ DOMAIN chain = 1 .. l /\ DOMAIN chain' = 1 .. (l + 1)
               /\ chain'[l + 1] = c
               /\ \A b \in DOMAIN chain : chain'[b] = chain[b]
    BY ChainGrows DEF RowsInv
<1> HIDE DEF l
<1>3. \A b \in DOMAIN chain' : b \in DOMAIN chain \/ b = l + 1
    BY <1>2
<1>4. \A b \in DOMAIN chain : b \in Nat /\ b <= l
    BY <1>2
<1>5. GrowingPools(chain')
    <2>1. \A b \in DOMAIN chain : chain[b].pools \subseteq chain[l].pools
        BY <1>2, <1>4 DEF PoolsInv, GrowingPools
    <2> SUFFICES ASSUME NEW i \in DOMAIN chain', NEW j \in DOMAIN chain', i <= j
                 PROVE  chain'[i].pools \subseteq chain'[j].pools
        BY DEF GrowingPools
    <2>2. CASE j \in DOMAIN chain
        <3>1. i \in DOMAIN chain
            BY <1>2, <1>3, <1>4, <2>2
        <3> QED BY <1>2, <2>2, <3>1 DEF PoolsInv, GrowingPools
    <2>3. CASE j = l + 1
        BY <1>2, <1>3, <2>1, <2>3
    <2> QED BY <1>3, <2>2, <2>3
<1>6. db'.blocks \subseteq DOMAIN chain'
    BY <1>1, <1>2 DEF PoolsInv
<1>7. ASSUME NEW b \in DOMAIN chain', \A a \in db'.blocks : a <= b
      PROVE  DOMAIN db'.nodes \subseteq chain'[b].pools
    <2>1. CASE b \in DOMAIN chain
        BY <1>1, <1>2, <1>7, <2>1 DEF PoolsInv
    <2>2. CASE b = l + 1
        <3>1. \A a \in db.blocks : a <= l
            BY <1>4 DEF PoolsInv
        <3>2. DOMAIN db.nodes \subseteq chain[l].pools
            BY <1>2, <3>1 DEF PoolsInv
        <3> QED BY <1>1, <1>2, <2>2, <3>2
    <2> QED BY <1>3, <2>1, <2>2
<1>8. ASSUME pc # "down", NEW b \in DOMAIN chain', b >= cur \/ b = l + 1
      PROVE  known \subseteq chain'[b].pools
    <2>1. CASE b \in DOMAIN chain
        <3>1. b >= cur
            BY <1>2, <1>4, <1>8, <2>1
        <3> QED BY <1>2, <1>8, <2>1, <3>1 DEF PoolsInv
    <2>2. CASE b = l + 1
        <3>1. known \subseteq chain[l].pools
            BY <1>2, <1>8 DEF PoolsInv, l
        <3> QED BY <1>2, <2>2, <3>1
    <2> QED BY <1>3, <2>1, <2>2
<1> QED BY <1>1, <1>2, <1>5, <1>6, <1>7, <1>8 DEF PoolsInv, l

LEMMA PoolsStep == RowsInv /\ PoolsInv /\ [Next]_vars => PoolsInv'
<1> SUFFICES ASSUME RowsInv, PoolsInv, [Next]_vars PROVE PoolsInv'
    OBVIOUS
<1>1. CASE NewBlock
    BY <1>1, PoolsNewBlock
<1>2. CASE Startup
    <2>1. /\ chain' = chain /\ db' = db /\ cur' = cur /\ cur \in DOMAIN chain
          /\ known' = DOMAIN db.nodes
        BY <1>2 DEF Startup, KnownNodes
    <2>2. chain \in Seq(Block) /\ DOMAIN chain = 1 .. Len(chain) /\ Len(chain) \in Nat
        BY DEF RowsInv, ChainInv
    <2>3. PICK top \in Nat : NewestIs(top)
        BY DEF RowsInv, StoredInv
    <2>4. \A a \in db.blocks : a \in Nat /\ a < cur /\ a <= Len(chain)
        BY <2>1, <2>2, <2>3 DEF NewestIs, PoolsInv
    <2>5. \A b \in DOMAIN chain : b >= cur \/ b = Len(chain) => \A a \in db.blocks : a <= b
        BY <2>1, <2>2, <2>4
    <2> QED BY <2>1, <2>5 DEF PoolsInv
<1>3. CASE Crash
    BY <1>3 DEF Crash, PoolsInv
<1>4. CASE RegisterNode
    <2>1. PICK p \in now.pools \ known : known' = known \cup {p}
        BY <1>4 DEF RegisterNode
    <2>2. pc = "nodes" /\ pc' = pc /\ cur' = cur /\ chain' = chain /\ db' = db
        BY <1>4 DEF RegisterNode
    <2>3. cur \in DOMAIN chain /\ chain \in Seq(Block)
        BY <2>2 DEF RowsInv, InBlock, WorkInv, ChainInv
    <2>4. \A b \in DOMAIN chain : b >= cur \/ b = Len(chain) => cur <= b
        BY <2>3
    <2>5. \A b \in DOMAIN chain : b >= cur \/ b = Len(chain) => p \in chain[b].pools
        BY <2>1, <2>3, <2>4 DEF PoolsInv, GrowingPools, now
    <2> QED BY <2>1, <2>2, <2>5 DEF PoolsInv
<1>5. CASE Commit
    <2>1. /\ chain' = chain /\ cur' = cur + 1 /\ known' = known /\ pc = "reasons" /\ pc' = "idle"
          /\ cur \in Nat \ {0} /\ cur \in DOMAIN chain /\ chain \in Seq(Block)
        BY <1>5 DEF Commit, BlockDone, RowsInv, ChainInv, InBlock, WorkInv
    <2>2. \A b \in DOMAIN chain : b >= cur' => b >= cur
        BY <2>1
    <2>3. \A b \in DOMAIN chain : b >= cur' \/ b = Len(chain) => known \subseteq chain[b].pools
        BY <2>1, <2>2 DEF PoolsInv
    <2>4. CASE aborted
        <3>1. db' = db
            BY <1>5, <2>4 DEF Commit
        <3> QED BY <2>1, <2>3, <3>1 DEF PoolsInv
    <2>5. CASE ~aborted
        <3>1. db' = work
            BY <1>5, <2>5 DEF Commit
        <3>2. work.blocks = db.blocks \cup {cur} /\ DOMAIN work.nodes \subseteq known
            BY <2>1 DEF RowsInv, InBlock, WorkInv
        <3>3. \A b \in DOMAIN chain : (\A a \in db'.blocks : a <= b) => b >= cur
            BY <2>1, <3>1, <3>2
        <3>4. \A b \in DOMAIN chain :
                (\A a \in db'.blocks : a <= b) => DOMAIN db'.nodes \subseteq chain[b].pools
            BY <2>1, <3>1, <3>2, <3>3 DEF PoolsInv
        <3> QED BY <2>1, <2>3, <3>1, <3>2, <3>4 DEF PoolsInv
    <2> QED BY <2>4, <2>5
<1>6. CASE BeginBlock
    BY <1>6 DEF BeginBlock, PoolsInv
<1>7. CASE EventsProcessed \/ ScoreUnchanged \/ ScoreChanged \/ ScoreReadFails \/ ScoreStatementFails
    <2>1. chain' = chain /\ db' = db /\ cur' = cur /\ known' = known /\ pc # "down"
        BY <1>7 DEF EventsProcessed, ScoreUnchanged, ScoreChanged, ScoreReadFails, ScoreStatementFails, Settle
    <2> QED BY <2>1 DEF PoolsInv
<1>8. CASE ScoresProcessed \/ DetectReasons \/ ReasonStatementFails \/ BlockFails
    <2>1. chain' = chain /\ db' = db /\ cur' = cur /\ known' = known /\ pc # "down"
        BY <1>8 DEF ScoresProcessed, DetectReasons, ReasonStatementFails, BlockFails
    <2> QED BY <2>1 DEF PoolsInv
<1>9. CASE UNCHANGED vars
    BY <1>9 DEF vars, PoolsInv
<1> QED BY <1>1, <1>2, <1>3, <1>4, <1>5, <1>6, <1>7, <1>8, <1>9 DEF Next

-----------------------------------------------------------------------------
(* The rows tell the scores of the stored blocks, and the open rows those  *)
(* of the cache, as long as no fault came between.                         *)

Tells(rows, blocks, unseen, ch) ==
    \A b \in blocks, r \in rows :
        <<r.pool, b>> \notin unseen /\ Covers(r, b) => r.score = ch[b].score[r.pool]

Agree(rows, hid, mem) ==
    \A r \in rows : r.to = 0 /\ r.pool \notin hid => r.score = mem[r.pool]

(* The pools whose promise has settled have the score of the block.        *)
Settled ==
    \A p \in now.pools \ todo :
        aborted \/ p \in hidden \/ <<p, cur>> \in missed \/ now.score[p] = cache[p]

HistoryInv ==
    /\ Tells(db.rows, db.blocks, missed, chain)
    /\ pc = "idle" => Agree(db.rows, hidden, cache)
    /\ InBlock => Tells(work.rows, db.blocks, missed, chain) /\ Agree(work.rows, hidden, cache)
    /\ pc \in {"scores", "reasons"} => Settled
    /\ pc = "reasons" => todo = {}

(* A change closes the one open row and begins another.                    *)
Reopened(rows, p, score, new) ==
    \E o \in rows : \E c, n :
        /\ OpenRows(rows, p) = {o} /\ o.pool = p /\ o.to = 0
        /\ o.from \in Nat \ {0} /\ o.from < cur
        /\ c.pool = p /\ c.from = o.from /\ c.to = cur - 1 /\ c.score = o.score
        /\ n.pool = p /\ n.from = cur /\ n.to = 0 /\ n.score = score
        /\ new = (rows \ {o}) \cup {c, n}

LEMMA WithScoreRows ==
    ASSUME NEW t, NEW p \in DOMAIN t.nodes, NEW score \in Scores, cur \in Nat \ {0},
           Tiled(t, cur), \A r \in OpenRows(t.rows, p) : r.from # cur
    PROVE  /\ Reopened(t.rows, p, score, WithScore(t, p, score).rows)
           /\ WithScore(t, p, score).reasons = t.reasons
<1>1. PICK first \in 1 .. cur : TiledFrom(t, p, first, cur)
    BY DEF Tiled
<1>2. PICK o \in t.rows : OpenRows(t.rows, p) = {o}
    BY <1>1 DEF TiledFrom
<1> DEFINE c == [o EXCEPT !.to = cur - 1]
           n == [pool |-> p, from |-> cur, to |-> 0, score |-> score]
<1>3. o.pool = p /\ o.to = 0 /\ o.from # cur
    BY <1>2 DEF OpenRows
<1>4. o \in Row
    BY DEF Tiled
<1>5. o.from \in Nat
    BY <1>4 DEF Row
<1>6. first <= o.from /\ o.from <= cur
    BY <1>1, <1>3 DEF TiledFrom
<1>7. o.from \in Nat \ {0} /\ o.from < cur
    BY <1>3, <1>5, <1>6
<1>8. c.pool = p /\ c.from = o.from /\ c.to = cur - 1 /\ c.score = o.score
    BY <1>3, <1>4 DEF Row
<1>9. n.pool = p /\ n.from = cur /\ n.to = 0 /\ n.score = score
    OBVIOUS
<1>10. {[r EXCEPT !.to = cur - 1] : r \in OpenRows(t.rows, p)} = {c}
    BY <1>2
<1>11. /\ WithScore(t, p, score).rows = (t.rows \ {o}) \cup {c, n}
       /\ WithScore(t, p, score).reasons = t.reasons
    BY <1>2, <1>10 DEF Tiled, WithScore
<1> HIDE DEF c, n
<1> QED BY <1>2, <1>3, <1>7, <1>8, <1>9, <1>11 DEF Reopened

LEMMA WithNodeRows ==
    ASSUME NEW t, NEW p, NEW score, NEW top, Tiled(t, top)
    PROVE  \E n : /\ n.pool = p /\ n.from = cur /\ n.to = 0 /\ n.score = score
                  /\ WithNode(t, p, score).rows = t.rows \cup {n}
                  /\ WithNode(t, p, score).reasons = t.reasons
<1> DEFINE n == [pool |-> p, from |-> cur, to |-> 0, score |-> score]
<1>1. n.pool = p /\ n.from = cur /\ n.to = 0 /\ n.score = score
    OBVIOUS
<1>2. WithNode(t, p, score).rows = t.rows \cup {n} /\ WithNode(t, p, score).reasons = t.reasons
    BY DEF WithNode, Tiled
<1> QED BY <1>1, <1>2

(* In a block, and the one open row of a pool in it.                       *)
LEMMA BlockFacts ==
    ASSUME RowsInv, PoolsInv, InBlock
    PROVE  /\ ChainInv /\ WorkInv /\ cur \in Nat \ {0} /\ chain \in Seq(Block)
           /\ \A b \in db.blocks : b \in Nat /\ b < cur
           /\ DOMAIN work.nodes \subseteq now.pools /\ now.pools \subseteq Pools
           /\ \A p \in Pools : now.score[p] \in Scores
           /\ \A r \in work.rows : r \in Row /\ r.pool \in DOMAIN work.nodes
           /\ \A r \in db.rows : r \in Row /\ r.pool \in DOMAIN db.nodes /\ r.from < cur /\ r.from > 0
<1>1. ChainInv /\ WorkInv /\ cur \in Nat \ {0} /\ chain \in Seq(Block)
    BY DEF RowsInv, ChainInv
<1>2. PICK top \in Nat : NewestIs(top)
    BY DEF RowsInv, StoredInv
<1>3. \A b \in db.blocks : b \in Nat /\ b < cur
    BY <1>1, <1>2 DEF NewestIs
<1>4. now.pools \subseteq Pools /\ \A p \in Pools : now.score[p] \in Scores
    BY <1>1, NowIsBlock DEF WorkInv
<1>5. known \subseteq now.pools
    BY <1>1 DEF PoolsInv, InBlock, WorkInv, now
<1>6. ASSUME NEW r \in db.rows
      PROVE  r \in Row /\ r.pool \in DOMAIN db.nodes /\ r.from < cur /\ r.from > 0
    <2>1. r \in Row /\ r.pool \in DOMAIN db.nodes /\ Tiled(db, top) /\ top < cur
        BY <1>1, <1>2 DEF NewestIs, Tiled
    <2>2. PICK first \in 1 .. top : TiledFrom(db, r.pool, first, top)
        BY <2>1 DEF Tiled
    <2>3. r.from \in Nat
        BY <2>1 DEF Row
    <2> QED BY <1>1, <2>1, <2>2, <2>3 DEF TiledFrom
<1>7. \A r \in work.rows : r \in Row /\ r.pool \in DOMAIN work.nodes
    BY <1>1 DEF WorkInv, Tiled
<1> QED BY <1>1, <1>3, <1>4, <1>5, <1>6, <1>7 DEF WorkInv

LEMMA HistoryInit == Init => HistoryInv
BY DEF Init, EmptyTables, HistoryInv, Tells, InBlock

LEMMA HistoryNewBlock == RowsInv /\ PoolsInv /\ HistoryInv /\ NewBlock => HistoryInv'
<1> SUFFICES ASSUME RowsInv, PoolsInv, HistoryInv, NewBlock PROVE HistoryInv'
    OBVIOUS
<1>1. /\ db' = db /\ missed' = missed /\ hidden' = hidden /\ cache' = cache /\ pc' = pc
      /\ pc \in {"idle", "down"}
    BY DEF NewBlock
<1>2. \A b \in DOMAIN chain : chain'[b] = chain[b]
    BY ChainGrows DEF RowsInv
<1>3. Tells(db.rows, db.blocks, missed, chain')
    BY <1>2 DEF HistoryInv, Tells, PoolsInv
<1> QED BY <1>1, <1>3 DEF HistoryInv, InBlock

(* Whose open row is not what is remembered is hidden from now on.         *)
LEMMA AheadAgrees ==
    ASSUME NEW t, NEW top, Tiled(t, top), NEW mem, NEW hid, AheadOf(mem, t) \subseteq hid
    PROVE  Agree(t.rows, hid, mem)
<1> SUFFICES ASSUME NEW r \in t.rows, r.to = 0, r.pool \notin hid PROVE r.score = mem[r.pool]
    BY DEF Agree
<1>1. r.pool \in DOMAIN t.nodes
    BY DEF Tiled
<1>2. PICK first \in 1 .. top : TiledFrom(t, r.pool, first, top)
    BY <1>1 DEF Tiled
<1>3. PICK o : OpenRows(t.rows, r.pool) = {o}
    BY <1>2 DEF TiledFrom
<1>4. r = o
    BY <1>3 DEF OpenRows
<1>5. r.pool \notin AheadOf(mem, t)
    OBVIOUS
<1> QED BY <1>1, <1>3, <1>4, <1>5 DEF AheadOf

LEMMA HistoryStartup == RowsInv /\ HistoryInv /\ Startup => HistoryInv'
<1> SUFFICES ASSUME RowsInv, HistoryInv, Startup PROVE HistoryInv'
    OBVIOUS
<1>1. chain' = chain /\ db' = db /\ missed' = missed /\ pc' = "idle" /\ hidden' = AheadOf(cache', db)
    BY DEF Startup
<1>2. PICK top \in Nat : NewestIs(top)
    BY DEF RowsInv, StoredInv
<1>3. Agree(db.rows, hidden', cache')
    BY <1>1, <1>2, AheadAgrees DEF NewestIs
<1> QED BY <1>1, <1>3 DEF HistoryInv, InBlock

LEMMA HistoryBeginBlock == RowsInv /\ HistoryInv /\ BeginBlock => HistoryInv'
<1> SUFFICES ASSUME RowsInv, HistoryInv, BeginBlock PROVE HistoryInv'
    OBVIOUS
<1>1. PICK top \in Nat : NewestIs(top)
    BY DEF RowsInv, StoredInv
<1>2. work'.rows = db.rows
    BY <1>1 DEF BeginBlock, NewestIs, Tiled
<1> QED BY <1>2 DEF BeginBlock, HistoryInv, InBlock

LEMMA HistoryRegisterNode == RowsInv /\ PoolsInv /\ HistoryInv /\ RegisterNode => HistoryInv'
<1> SUFFICES ASSUME RowsInv, PoolsInv, HistoryInv, RegisterNode PROVE HistoryInv'
    OBVIOUS
<1>1. /\ pc = "nodes" /\ pc' = pc /\ cur' = cur /\ chain' = chain /\ db' = db /\ missed' = missed
      /\ hidden' = hidden
    BY DEF RegisterNode
<1>2. PICK p \in now.pools \ known :
        /\ work' = WithNode(work, p, now.score[p])
        /\ cache' = [cache EXCEPT ![p] = now.score[p]]
    BY DEF RegisterNode
<1>3. InBlock /\ WorkInv /\ ChainInv
    BY <1>1 DEF InBlock, RowsInv
<1>4. PICK n : n.pool = p /\ n.from = cur /\ n.to = 0 /\ n.score = now.score[p]
               /\ work'.rows = work.rows \cup {n}
    BY <1>2, <1>3, WithNodeRows DEF WorkInv
<1>5. p \in Pools /\ \A b \in db.blocks : b \in Nat /\ b < cur
    BY <1>3, BlockFacts
<1>6. cache'[p] = now.score[p] /\ \A q : q # p => cache'[q] = cache[q]
    BY <1>2, <1>3, <1>5 DEF ChainInv
<1>7. \A r \in work.rows : r.pool # p
    BY <1>2, <1>3 DEF WorkInv, Tiled
<1>8. cur \in Nat
    BY <1>3 DEF ChainInv
<1>9. Tells(work'.rows, db.blocks, missed, chain)
    <2>1. \A b \in db.blocks : ~Covers(n, b)
        BY <1>4, <1>5, <1>8 DEF Covers
    <2> QED BY <1>1, <1>4, <2>1 DEF HistoryInv, Tells, InBlock
<1>10. Agree(work'.rows, hidden, cache')
    BY <1>1, <1>4, <1>6, <1>7 DEF HistoryInv, Agree, InBlock
<1> QED BY <1>1, <1>9, <1>10 DEF HistoryInv, InBlock

LEMMA HistoryScoreChanged == RowsInv /\ PoolsInv /\ HistoryInv /\ ScoreChanged => HistoryInv'
<1> SUFFICES ASSUME RowsInv, PoolsInv, HistoryInv, ScoreChanged PROVE HistoryInv'
    OBVIOUS
<1>1. PICK p \in todo :
        /\ Settle(p) /\ now.score[p] # cache[p]
        /\ work' = WithScore(work, p, now.score[p])
        /\ cache' = [cache EXCEPT ![p] = now.score[p]]
    BY DEF ScoreChanged
<1>2. /\ pc = "scores" /\ pc' = pc /\ cur' = cur /\ chain' = chain /\ db' = db /\ missed' = missed
      /\ aborted' = aborted /\ todo' = todo \ {p} /\ hidden' = hidden \ {p} /\ now' = now
    BY <1>1 DEF ScoreChanged, Settle, now
<1>3. InBlock /\ WorkInv /\ ChainInv
    BY <1>2 DEF InBlock, RowsInv
<1>4. /\ p \in DOMAIN work.nodes /\ p \in Pools /\ now.score[p] \in Scores /\ cur \in Nat \ {0}
      /\ \A b \in db.blocks : b \in Nat /\ b < cur
      /\ \A r \in work.rows : r \in Row
    BY <1>2, <1>3, BlockFacts DEF WorkInv
<1>5. \A r \in OpenRows(work.rows, p) : r.from # cur
    BY <1>1, <1>3 DEF OpenRows, WorkInv, WrittenAreCached
<1>6. Reopened(work.rows, p, now.score[p], work'.rows)
    BY <1>1, <1>3, <1>4, <1>5, WithScoreRows DEF WorkInv
<1>7. PICK o \in work.rows : \E c, n :
             /\ OpenRows(work.rows, p) = {o} /\ o.pool = p /\ o.to = 0
             /\ o.from \in Nat \ {0} /\ o.from < cur
             /\ c.pool = p /\ c.from = o.from /\ c.to = cur - 1 /\ c.score = o.score
             /\ n.pool = p /\ n.from = cur /\ n.to = 0 /\ n.score = now.score[p]
             /\ work'.rows = (work.rows \ {o}) \cup {c, n}
    BY <1>6 DEF Reopened
<1> PICK c, n :
             /\ c.pool = p /\ c.from = o.from /\ c.to = cur - 1 /\ c.score = o.score
             /\ n.pool = p /\ n.from = cur /\ n.to = 0 /\ n.score = now.score[p]
             /\ work'.rows = (work.rows \ {o}) \cup {c, n}
    BY <1>7
<1>8. cache'[p] = now.score[p] /\ \A q : q # p => cache'[q] = cache[q]
    BY <1>1, <1>3, <1>4 DEF ChainInv
<1>9. Tells(work'.rows, db.blocks, missed, chain)
    <2>1. Tells(work.rows, db.blocks, missed, chain)
        BY <1>3 DEF HistoryInv
    <2>2. \A b \in db.blocks : ~Covers(n, b)
        BY <1>4, <1>7 DEF Covers
    <2>3. \A b \in db.blocks : Covers(c, b) => Covers(o, b)
        BY <1>4, <1>7 DEF Covers
    <2> QED BY <1>7, <2>1, <2>2, <2>3 DEF Tells
<1>10. Agree(work'.rows, hidden', cache')
    <2>1. \A r \in work.rows \ {o} : r.to = 0 => r.pool # p
        BY <1>7 DEF OpenRows
    <2>2. c.to # 0
        BY <1>7
    <2>3. ASSUME NEW r \in work.rows \ {o}, r.to = 0, r.pool \notin hidden'
          PROVE  r.score = cache'[r.pool]
        <3>1. r.pool # p /\ r.pool \notin hidden
            BY <1>2, <2>1, <2>3
        <3> QED BY <1>3, <1>8, <2>3, <3>1 DEF HistoryInv, Agree
    <2>4. n.score = cache'[n.pool]
        BY <1>7, <1>8
    <2> QED BY <1>7, <2>2, <2>3, <2>4 DEF Agree
<1>11. Settled'
    BY <1>2, <1>8 DEF HistoryInv, Settled
<1> QED BY <1>2, <1>9, <1>10, <1>11 DEF HistoryInv, InBlock

(* The newest block lies in the open row of a pool and in no other.        *)
LEMMA NewestRowOpen ==
    ASSUME NEW t, NEW top \in Nat, Tiled(t, top), NEW r \in t.rows, Covers(r, top)
    PROVE  r.to = 0
<1>1. r \in Row /\ r.pool \in DOMAIN t.nodes
    BY DEF Tiled
<1>2. PICK first \in 1 .. top : TiledFrom(t, r.pool, first, top)
    BY <1>1 DEF Tiled
<1>3. PICK o \in t.rows : OpenRows(t.rows, r.pool) = {o}
    BY <1>2 DEF TiledFrom
<1>4. o.pool = r.pool /\ o.to = 0
    BY <1>3 DEF OpenRows
<1>5. o.from <= top
    BY <1>2, <1>4 DEF TiledFrom
<1>6. o \in Covering(t.rows, r.pool, top) /\ r \in Covering(t.rows, r.pool, top)
    BY <1>4, <1>5 DEF Covering, Covers
<1>7. r = o
    BY <1>2, <1>6 DEF TiledFrom
<1> QED BY <1>4, <1>7

LEMMA HistoryCommit == RowsInv /\ PoolsInv /\ HistoryInv /\ Commit => HistoryInv'
<1> SUFFICES ASSUME RowsInv, PoolsInv, HistoryInv, Commit PROVE HistoryInv'
    OBVIOUS
<1>1. /\ pc = "reasons" /\ pc' = "idle" /\ chain' = chain /\ cache' = cache
      /\ missed' = missed \cup {<<p, cur>> : p \in hidden'}
    BY DEF Commit, BlockDone
<1>2. InBlock /\ WorkInv /\ ChainInv
    BY <1>1 DEF InBlock, RowsInv
<1>3. CASE aborted
    <2>1. db' = db /\ hidden' = hidden \cup AheadOf(cache, db)
        BY <1>3 DEF Commit
    <2>2. PICK top \in Nat : NewestIs(top)
        BY DEF RowsInv, StoredInv
    <2>3. Agree(db.rows, hidden', cache)
        BY <2>1, <2>2, AheadAgrees DEF NewestIs
    <2>4. Tells(db.rows, db.blocks, missed', chain)
        BY <1>1 DEF HistoryInv, Tells
    <2> QED BY <1>1, <2>1, <2>3, <2>4 DEF HistoryInv, InBlock
<1>4. CASE ~aborted
    <2>1. db' = work /\ hidden' = hidden
        BY <1>4 DEF Commit
    <2>2. Agree(work.rows, hidden, cache) /\ Tells(work.rows, db.blocks, missed, chain)
        BY <1>2 DEF HistoryInv
    <2>3. ASSUME NEW r \in work.rows, <<r.pool, cur>> \notin missed', Covers(r, cur)
          PROVE  r.score = chain[cur].score[r.pool]
        <3>1. r.to = 0
            BY <1>2, <2>3, NewestRowOpen DEF WorkInv, ChainInv
        <3>2. r.pool \notin hidden /\ <<r.pool, cur>> \notin missed
            BY <1>1, <2>1, <2>3
        <3>3. r.pool \in now.pools /\ todo = {}
            BY <1>1, <1>2, BlockFacts DEF HistoryInv
        <3>4. now.score[r.pool] = cache[r.pool]
            BY <1>1, <1>4, <3>2, <3>3 DEF HistoryInv, Settled
        <3> QED BY <2>2, <3>1, <3>2, <3>4 DEF Agree, now
    <2>4. \A b \in work.blocks : b \in db.blocks \/ b = cur
        BY <1>2 DEF WorkInv
    <2>5. Tells(work.rows, work.blocks, missed', chain)
        BY <1>1, <2>2, <2>3, <2>4 DEF Tells
    <2> QED BY <1>1, <2>1, <2>2, <2>5 DEF HistoryInv, InBlock
<1> QED BY <1>3, <1>4

LEMMA HistoryBlockFails == RowsInv /\ HistoryInv /\ BlockFails => HistoryInv'
<1> SUFFICES ASSUME RowsInv, HistoryInv, BlockFails PROVE HistoryInv'
    OBVIOUS
<1>1. /\ pc' = "idle" /\ chain' = chain /\ cache' = cache /\ db' = db /\ missed' = missed
      /\ hidden' = hidden \cup AheadOf(cache, db)
    BY DEF BlockFails
<1>2. PICK top \in Nat : NewestIs(top)
    BY DEF RowsInv, StoredInv
<1>3. Agree(db.rows, hidden', cache)
    BY <1>1, <1>2, AheadAgrees DEF NewestIs
<1> QED BY <1>1, <1>3 DEF HistoryInv, InBlock

(* The loop over the scores, as far as it writes no row.                   *)
LEMMA HistoryNoRow ==
    /\ RowsInv /\ HistoryInv
    /\ \/ EventsProcessed \/ ScoreUnchanged \/ ScoreReadFails \/ ScoreStatementFails
       \/ ScoresProcessed \/ ReasonStatementFails
    => HistoryInv'
<1> SUFFICES ASSUME RowsInv, HistoryInv,
                    \/ EventsProcessed \/ ScoreUnchanged \/ ScoreReadFails \/ ScoreStatementFails
                    \/ ScoresProcessed \/ ReasonStatementFails
             PROVE  HistoryInv'
    OBVIOUS
<1>1. /\ chain' = chain /\ db' = db /\ cache' = cache /\ hidden' = hidden
      /\ cur' = cur /\ missed \subseteq missed' /\ now' = now /\ InBlock
      /\ work' = work \/ (EventsProcessed /\ work' = WithEpoch(work))
    BY DEF EventsProcessed, ScoreUnchanged, ScoreReadFails, ScoreStatementFails, ScoresProcessed,
           ReasonStatementFails, Settle, now, InBlock
<1>6. work'.rows = work.rows
    BY <1>1, WithEpochRows DEF RowsInv, WorkInv, SameButEpochs
<1>2. Tells(db.rows, db.blocks, missed', chain) /\ Tells(work'.rows, db.blocks, missed', chain)
    BY <1>1, <1>6 DEF HistoryInv, Tells
<1>3. Agree(work'.rows, hidden, cache)
    BY <1>1, <1>6 DEF HistoryInv
<1>4. pc' \in {"scores", "reasons"} /\ (pc' = "reasons" => todo' = {})
    BY DEF EventsProcessed, ScoreUnchanged, ScoreReadFails, ScoreStatementFails, ScoresProcessed,
           ReasonStatementFails, Settle, HistoryInv
<1>5. Settled'
    <2>1. CASE EventsProcessed
        BY <1>1, <2>1 DEF EventsProcessed, Settled
    <2>2. CASE ScoreUnchanged
        BY <1>1, <2>2 DEF ScoreUnchanged, Settle, HistoryInv, Settled
    <2>3. CASE ScoreReadFails
        BY <1>1, <2>3 DEF ScoreReadFails, Settle, HistoryInv, Settled
    <2>4. CASE ScoreStatementFails
        BY <2>4 DEF ScoreStatementFails, Settled
    <2>5. CASE ScoresProcessed
        BY <1>1, <2>5 DEF ScoresProcessed, HistoryInv, Settled
    <2>6. CASE ReasonStatementFails
        BY <2>6 DEF ReasonStatementFails, Settled
    <2> QED BY <2>1, <2>2, <2>3, <2>4, <2>5, <2>6
<1> QED BY <1>1, <1>2, <1>3, <1>4, <1>5 DEF HistoryInv

LEMMA HistoryDetectReasons == RowsInv /\ HistoryInv /\ DetectReasons => HistoryInv'
<1> SUFFICES ASSUME RowsInv, HistoryInv, DetectReasons PROVE HistoryInv'
    OBVIOUS
<1>1. /\ chain' = chain /\ db' = db /\ cur' = cur /\ cache' = cache /\ hidden' = hidden
      /\ missed' = missed /\ todo' = todo /\ aborted' = aborted /\ pc = "reasons" /\ pc' = pc
    BY DEF DetectReasons
<1>2. work'.rows = work.rows
    BY <1>1 DEF DetectReasons, WithReason, RowsInv, InBlock, WorkInv, Tiled
<1>3. Settled'
    BY <1>1 DEF HistoryInv, Settled, now
<1> QED BY <1>1, <1>2, <1>3 DEF HistoryInv, InBlock

LEMMA HistoryStep == RowsInv /\ PoolsInv /\ HistoryInv /\ [Next]_vars => HistoryInv'
<1> SUFFICES ASSUME RowsInv, PoolsInv, HistoryInv, [Next]_vars PROVE HistoryInv'
    OBVIOUS
<1>1. CASE Crash
    BY <1>1 DEF Crash, HistoryInv, InBlock
<1>2. CASE NewBlock \/ Startup \/ BeginBlock \/ RegisterNode
    BY <1>2, HistoryNewBlock, HistoryStartup, HistoryBeginBlock, HistoryRegisterNode
<1>3. CASE \/ EventsProcessed \/ ScoreUnchanged \/ ScoreReadFails \/ ScoreStatementFails
           \/ ScoresProcessed \/ ReasonStatementFails
    BY <1>3, HistoryNoRow
<1>4. CASE ScoreChanged \/ DetectReasons \/ Commit \/ BlockFails
    BY <1>4, HistoryScoreChanged, HistoryDetectReasons, HistoryCommit, HistoryBlockFails
<1>5. CASE UNCHANGED vars
    BY <1>5 DEF vars, HistoryInv, InBlock, Settled, now
<1> QED BY <1>1, <1>2, <1>3, <1>4, <1>5 DEF Next

LEMMA HistoryInvTells == HistoryInv => HistoryTellsScores
BY DEF HistoryInv, Tells, HistoryTellsScores

(* But for the changes a fault hid, every row of a pool tells the score    *)
(* the contracts had after each stored block it covers, although the cache *)
(* the changes are found with outlives the transactions they are written   *)
(* in (bonusScoreProcessor.ts 60-240, runFillDb.ts 150-320).               *)
THEOREM HistoryTellsAlways == Spec => []HistoryTellsScores
<1> QED BY InitRowsInv, NextRowsInv, PoolsInit, PoolsStep, HistoryInit, HistoryStep,
           HistoryInvTells, PTL DEF Spec

-----------------------------------------------------------------------------
(* The reasons.  A row other than the first of its pool has one reason, or *)
(* is still to be given it in this block; a reason tells the score of its  *)
(* row and that of the row before.  The latter is the one in the cache,    *)
(* that of the open row unless a fault hid a change: then the block before *)
(* is among those missed, or the cache tells the score of this block, or   *)
(* none at all.                                                            *)

FirstRow(rows, r) == \A k \in rows : k.pool = r.pool => r.from <= k.from

ReasonsOf(reasons, r) == {q \in reasons : q.pool = r.pool /\ q.block = r.from}

Follows(rows, unseen, p, b, blind, score) ==
    \/ blind \/ <<p, b - 1>> \in unseen
    \/ \E r \in rows : r.pool = p /\ r.to # 0 /\ r.to = b - 1 /\ r.score = score

RowsReasoned(rows, reasons, open) ==
    \A r \in rows :
        /\ FirstRow(rows, r) => ReasonsOf(reasons, r) = {}
        /\ ~FirstRow(rows, r) =>
            <<r.pool, r.from>> \in open \/ \E q \in reasons : ReasonsOf(reasons, r) = {q}

ReasonsTell(rows, reasons, unseen) ==
    \A q \in reasons :
        /\ \E r \in rows : r.pool = q.pool /\ r.from = q.block /\ r.score = q.new
        /\ Follows(rows, unseen, q.pool, q.block, q.blind, q.previous)

ChangesTell(rows, open, unseen, b) ==
    \A d \in open :
        /\ \E r \in rows : /\ r.pool = d.pool /\ r.from = b /\ r.to = 0 /\ r.score = d.new
                           /\ ~FirstRow(rows, r)
        /\ Follows(rows, unseen, d.pool, b, d.blind, d.previous)

Pending == {<<d.pool, cur>> : d \in changes}

HiddenInv ==
    /\ cache \in [Pools -> Scores \cup {Undefined}]
    /\ pc # "down" => \A p \in hidden :
          \/ <<p, cur - 1>> \in missed
          \/ cur \in DOMAIN chain /\ cache[p] \in {chain[cur].score[p], Undefined}
    /\ InBlock => \A r \in db.rows :
          r.to = 0 => r.pool \in hidden \/ cache[r.pool] \in {now.score[r.pool], r.score}

ReasonInv ==
    /\ RowsReasoned(db.rows, db.reasons, {})
    /\ ReasonsTell(db.rows, db.reasons, missed)
    /\ InBlock /\ ~aborted =>
        /\ RowsReasoned(work.rows, work.reasons, Pending)
        /\ ReasonsTell(work.rows, work.reasons, missed)
        /\ ChangesTell(work.rows, changes, missed, cur)
    /\ pc \in {"idle", "down", "nodes"} => changes = {}

LEMMA HiddenInit == Init => HiddenInv
BY ScoresShape DEF Init, EmptyTables, HiddenInv, InBlock, Scores

LEMMA HiddenStartup == RowsInv /\ HiddenInv /\ Startup => HiddenInv'
<1> SUFFICES ASSUME RowsInv, HiddenInv, Startup PROVE HiddenInv'
    OBVIOUS
<1>1. PICK unread \in MayBeUnread : cache' = Loaded(unread)
    BY DEF Startup
<1>2. chain' = chain /\ cur' = cur /\ cur \in DOMAIN chain /\ pc' = "idle" /\ hidden' = AheadOf(cache', db)
    BY DEF Startup
<1>3. \A p \in Pools : now.score[p] \in Scores
    BY <1>2, NowIsBlock DEF RowsInv
<1>4. \A p \in Pools : cache'[p] \in {now.score[p], Undefined}
    BY <1>1 DEF Loaded
<1>5. cache' \in [Pools -> Scores \cup {Undefined}]
    BY <1>1, <1>3 DEF Loaded
<1>6. PICK top \in Nat : NewestIs(top)
    BY DEF RowsInv, StoredInv
<1>7. hidden' \subseteq Pools
    BY <1>2, <1>6 DEF AheadOf, NewestIs, Tiled
<1> QED BY <1>2, <1>4, <1>5, <1>7 DEF HiddenInv, InBlock, now

LEMMA HiddenBlockFails == RowsInv /\ HiddenInv /\ BlockFails => HiddenInv'
<1> SUFFICES ASSUME RowsInv, HiddenInv, BlockFails PROVE HiddenInv'
    OBVIOUS
<1>1. /\ pc \in {"nodes", "scores", "reasons"} /\ pc' = "idle" /\ chain' = chain /\ cur' = cur
      /\ cache' = cache /\ missed' = missed /\ hidden' = hidden \cup AheadOf(cache, db)
    BY DEF BlockFails
<1>2. InBlock /\ cur \in DOMAIN chain
    BY <1>1 DEF InBlock, RowsInv, WorkInv
<1>3. PICK top \in Nat : NewestIs(top)
    BY DEF RowsInv, StoredInv
<1>4. ASSUME NEW p \in AheadOf(cache, db)
      PROVE  p \in hidden \/ cache[p] = now.score[p]
    <2>1. p \in DOMAIN db.nodes /\ \A r \in OpenRows(db.rows, p) : r.score # cache[p]
        BY DEF AheadOf
    <2>2. PICK r \in db.rows : r \in OpenRows(db.rows, p)
        BY <1>3, <2>1 DEF NewestIs, Tiled, TiledFrom
    <2>3. r.pool = p /\ r.to = 0
        BY <2>2 DEF OpenRows
    <2> QED BY <1>2, <2>1, <2>2, <2>3 DEF HiddenInv
<1> QED BY <1>1, <1>2, <1>4 DEF HiddenInv, InBlock, now

(* A pool that is added, or whose score changed, has it in the cache.      *)
LEMMA HiddenWritten ==
    ASSUME HiddenInv, RowsInv, InBlock, InBlock', NEW p \in Pools,
           chain' = chain, cur' = cur, db' = db, missed' = missed,
           cache' = [cache EXCEPT ![p] = now.score[p]], hidden' \in {hidden, hidden \ {p}}
    PROVE  HiddenInv'
<1>1. cur \in DOMAIN chain /\ now.score[p] \in Scores /\ pc # "down" /\ pc' # "down"
    BY NowIsBlock DEF RowsInv, InBlock, WorkInv
<1>2. cache'[p] = now.score[p] /\ \A q : q # p => cache'[q] = cache[q]
    BY DEF HiddenInv
<1>3. cache' \in [Pools -> Scores \cup {Undefined}]
    BY <1>1 DEF HiddenInv
<1>4. ASSUME NEW q \in hidden' PROVE <<q, cur - 1>> \in missed \/ cache'[q] \in {now.score[q], Undefined}
    BY <1>1, <1>2 DEF HiddenInv, now
<1>5. ASSUME NEW r \in db.rows, r.to = 0
      PROVE  r.pool \in hidden' \/ cache'[r.pool] \in {now.score[r.pool], r.score}
    BY <1>2, <1>5 DEF HiddenInv
<1> QED BY <1>1, <1>3, <1>4, <1>5 DEF HiddenInv, now

LEMMA HiddenStep == RowsInv /\ PoolsInv /\ HistoryInv /\ HiddenInv /\ [Next]_vars => HiddenInv'
<1> SUFFICES ASSUME RowsInv, PoolsInv, HistoryInv, HiddenInv, [Next]_vars PROVE HiddenInv'
    OBVIOUS
<1>1. CASE NewBlock
    <2>1. /\ db' = db /\ missed' = missed /\ hidden' = hidden /\ cache' = cache /\ pc' = pc
          /\ cur' = cur /\ pc \in {"idle", "down"} /\ Len(chain) < cur
        BY <1>1 DEF NewBlock
    <2>2. cur \notin DOMAIN chain
        BY <2>1 DEF RowsInv, ChainInv
    <2> QED BY <2>1, <2>2 DEF HiddenInv, InBlock
<1>2. CASE Startup \/ BlockFails
    BY <1>2, HiddenStartup, HiddenBlockFails
<1>3. CASE Crash
    BY <1>3 DEF Crash, HiddenInv, InBlock
<1>4. CASE BeginBlock
    <2>1. Agree(db.rows, hidden, cache)
        BY <1>4 DEF BeginBlock, HistoryInv
    <2>2. /\ chain' = chain /\ db' = db /\ missed' = missed /\ hidden' = hidden /\ cache' = cache
          /\ cur' = cur /\ pc = "idle" /\ pc' = "nodes"
        BY <1>4 DEF BeginBlock
    <2> QED BY <2>1, <2>2 DEF HiddenInv, Agree
<1>5. CASE RegisterNode
    <2>1. /\ chain' = chain /\ cur' = cur /\ db' = db /\ missed' = missed /\ hidden' = hidden
          /\ InBlock /\ InBlock'
        BY <1>5 DEF RegisterNode, InBlock
    <2>2. PICK p \in now.pools : cache' = [cache EXCEPT ![p] = now.score[p]]
        BY <1>5 DEF RegisterNode
    <2>3. p \in Pools
        BY <2>1, BlockFacts
    <2> QED BY <2>1, <2>2, <2>3, HiddenWritten
<1>6. CASE ScoreChanged
    <2>1. PICK p \in todo : cache' = [cache EXCEPT ![p] = now.score[p]] /\ Settle(p)
        BY <1>6 DEF ScoreChanged
    <2>2. /\ chain' = chain /\ cur' = cur /\ db' = db /\ missed' = missed /\ hidden' = hidden \ {p}
          /\ InBlock /\ InBlock' /\ pc = "scores"
        BY <1>6, <2>1 DEF ScoreChanged, InBlock, Settle
    <2>3. p \in Pools
        BY <2>2, BlockFacts DEF WorkInv
    <2> QED BY <2>1, <2>2, <2>3, HiddenWritten
<1>7. CASE Commit
    <2>1. /\ chain' = chain /\ cache' = cache /\ cur' = cur + 1 /\ pc' = "idle"
          /\ \A p \in hidden' : <<p, cur>> \in missed'
        BY <1>7 DEF Commit, BlockDone
    <2>2. cur' - 1 = cur
        BY <2>1 DEF RowsInv, ChainInv
    <2> QED BY <2>1, <2>2 DEF HiddenInv, InBlock
<1>8. CASE EventsProcessed \/ ScoreUnchanged \/ ScoreReadFails \/ ScoreStatementFails
           \/ ScoresProcessed \/ DetectReasons \/ ReasonStatementFails
    <2>1. /\ chain' = chain /\ cur' = cur /\ db' = db /\ missed \subseteq missed' /\ hidden' = hidden
          /\ cache' = cache /\ InBlock /\ pc # "down"
        BY <1>8 DEF EventsProcessed, ScoreUnchanged, ScoreReadFails, ScoreStatementFails,
           ScoresProcessed, DetectReasons, ReasonStatementFails, Settle, InBlock
    <2> QED BY <2>1 DEF HiddenInv, now
<1>9. CASE UNCHANGED vars
    BY <1>9 DEF vars, HiddenInv, InBlock, now
<1> QED BY <1>1, <1>2, <1>3, <1>4, <1>5, <1>6, <1>7, <1>8, <1>9 DEF Next

LEMMA ReasonInit == Init => ReasonInv
BY DEF Init, EmptyTables, ReasonInv, RowsReasoned, ReasonsTell, InBlock

(* What was hidden stays hidden.                                           *)
LEMMA FollowsLater ==
    ASSUME NEW rows, NEW unseen, NEW later, unseen \subseteq later,
           NEW p, NEW b, NEW blind, NEW score, Follows(rows, unseen, p, b, blind, score)
    PROVE  Follows(rows, later, p, b, blind, score)
BY DEF Follows

LEMMA ReasonsTellLater ==
    ASSUME NEW rows, NEW reasons, NEW unseen, NEW later,
           unseen \subseteq later, ReasonsTell(rows, reasons, unseen)
    PROVE  ReasonsTell(rows, reasons, later)
BY FollowsLater DEF ReasonsTell

LEMMA ReasonNewBlock == ReasonInv /\ NewBlock => ReasonInv'
BY DEF NewBlock, ReasonInv, InBlock

LEMMA ReasonBeginBlock == RowsInv /\ ReasonInv /\ BeginBlock => ReasonInv'
<1> SUFFICES ASSUME RowsInv, ReasonInv, BeginBlock PROVE ReasonInv'
    OBVIOUS
<1>1. PICK top \in Nat : NewestIs(top)
    BY DEF RowsInv, StoredInv
<1>2. work'.rows = db.rows /\ work'.reasons = db.reasons
    BY <1>1 DEF BeginBlock, NewestIs, Tiled
<1>3. /\ chain' = chain /\ db' = db /\ missed' = missed /\ changes' = changes /\ changes = {}
      /\ pc' = "nodes"
    BY DEF BeginBlock, ReasonInv
<1>4. Pending' = {}
    BY <1>3 DEF Pending
<1> QED BY <1>2, <1>3, <1>4 DEF ReasonInv, ChangesTell

(* A pool that is new has no reasons: those there are have their row.      *)
LEMMA ReasonRegisterNode == RowsInv /\ PoolsInv /\ ReasonInv /\ RegisterNode => ReasonInv'
<1> SUFFICES ASSUME RowsInv, PoolsInv, ReasonInv, RegisterNode PROVE ReasonInv'
    OBVIOUS
<1>1. /\ pc = "nodes" /\ pc' = pc /\ cur' = cur /\ chain' = chain /\ db' = db /\ missed' = missed
      /\ changes' = changes /\ changes = {} /\ aborted' = aborted /\ Pending' = Pending
    BY DEF RegisterNode, Pending, ReasonInv
<1>2. PICK p \in now.pools \ known : work' = WithNode(work, p, now.score[p])
    BY DEF RegisterNode
<1>3. InBlock /\ InBlock' /\ WorkInv
    BY <1>1 DEF InBlock, RowsInv
<1>4. PICK n : n.pool = p /\ n.from = cur /\ n.to = 0 /\ work'.rows = work.rows \cup {n}
    BY <1>2, <1>3, WithNodeRows DEF WorkInv
<1>5. work'.reasons = work.reasons
    BY <1>2, <1>3, WithNodeRows DEF WorkInv
<1>6. \A r \in work.rows : r.pool # p
    BY <1>2, <1>3 DEF WorkInv, Tiled
<1> SUFFICES ASSUME ~aborted
             PROVE  /\ RowsReasoned(work'.rows, work.reasons, Pending)
                    /\ ReasonsTell(work'.rows, work.reasons, missed)
    BY <1>1, <1>3, <1>5 DEF ReasonInv, ChangesTell
<1>7. /\ RowsReasoned(work.rows, work.reasons, Pending)
      /\ ReasonsTell(work.rows, work.reasons, missed)
    BY <1>3 DEF ReasonInv
<1>8. RowsReasoned(work'.rows, work.reasons, Pending)
    <2>1. ReasonsOf(work.reasons, n) = {} /\ FirstRow(work'.rows, n)
        <3>1. \A q \in work.reasons : q.pool # p
            BY <1>6, <1>7 DEF ReasonsTell
        <3>2. \A k \in work'.rows : k.pool = p => k = n
            BY <1>4, <1>6
        <3>3. FirstRow(work'.rows, n)
            <4>1. cur <= cur
                BY <1>1 DEF RowsInv, ChainInv
            <4> QED BY <1>4, <3>2, <4>1 DEF FirstRow
        <3> QED BY <1>4, <3>1, <3>3 DEF ReasonsOf
    <2>2. \A r \in work.rows : FirstRow(work'.rows, r) <=> FirstRow(work.rows, r)
        BY <1>4, <1>6 DEF FirstRow
    <2> QED BY <1>4, <1>7, <2>1, <2>2 DEF RowsReasoned
<1>9. ReasonsTell(work'.rows, work.reasons, missed)
    <2>1. work.rows \subseteq work'.rows
        BY <1>4
    <2> QED BY <1>7, <2>1 DEF ReasonsTell, Follows
<1> QED BY <1>8, <1>9

(* A row is split in two, and the second begins in a later block.          *)
Split(rows, o, c, n, new) ==
    /\ o \in rows /\ c.pool = o.pool /\ n.pool = o.pool
    /\ c.from = o.from /\ n.from \in Nat /\ o.from < n.from
    /\ new = (rows \ {o}) \cup {c, n}

(* The row that is closed is the first of its pool if it was before, and   *)
(* so is every other; the one that begins is not.                          *)
LEMMA SplitRows ==
    ASSUME NEW rows, NEW o, NEW c, NEW n, NEW new,
           \A r \in rows : r.from \in Nat, Split(rows, o, c, n, new)
    PROVE  /\ \A r \in rows \ {o} : FirstRow(new, r) <=> FirstRow(rows, r)
           /\ FirstRow(new, c) <=> FirstRow(rows, o)
           /\ ~FirstRow(new, n)
<1> USE DEF Split
<1> DEFINE top == n.from
<1>1. o.from \in Nat /\ ~(top <= o.from)
    OBVIOUS
<1>2. \A r : r.from \in Nat /\ r.pool = o.pool /\ r.from <= o.from => r.from <= top
    BY <1>1
<1>3. ASSUME NEW r, r.from \in Nat, FirstRow(new, r)
      PROVE  FirstRow(rows, r)
    <2> SUFFICES ASSUME NEW k \in rows, k.pool = r.pool PROVE r.from <= k.from
        BY DEF FirstRow
    <2>1. CASE k = o
        BY <1>3, <2>1 DEF FirstRow
    <2>2. CASE k # o
        BY <1>3, <2>2 DEF FirstRow
    <2> QED BY <2>1, <2>2
<1>4. ASSUME NEW r, r.from \in Nat, FirstRow(rows, r)
      PROVE  FirstRow(new, r)
    <2> SUFFICES ASSUME NEW k \in new, k.pool = r.pool PROVE r.from <= k.from
        BY DEF FirstRow
    <2>1. CASE k \in rows
        BY <1>4, <2>1 DEF FirstRow
    <2>2. CASE k = c
        BY <1>4, <2>2 DEF FirstRow
    <2>3. CASE k = n
        <3>1. r.from <= o.from
            BY <1>4, <2>3 DEF FirstRow
        <3> QED BY <1>1, <1>4, <2>3, <3>1
    <2> QED BY <2>1, <2>2, <2>3
<1>5. FirstRow(rows, c) <=> FirstRow(rows, o)
    BY DEF FirstRow
<1>6. ~FirstRow(new, n)
    BY <1>1 DEF FirstRow
<1> QED BY <1>1, <1>3, <1>4, <1>5, <1>6

LEMMA ReasonScoreChanged ==
    RowsInv /\ PoolsInv /\ HistoryInv /\ HiddenInv /\ ReasonInv /\ ScoreChanged => ReasonInv'
<1> SUFFICES ASSUME RowsInv, PoolsInv, HistoryInv, HiddenInv, ReasonInv, ScoreChanged
             PROVE  ReasonInv'
    OBVIOUS
<1>1. PICK p \in todo :
        /\ Settle(p) /\ now.score[p] # cache[p] /\ ~aborted
        /\ work' = WithScore(work, p, now.score[p])
        /\ changes' = changes \cup {Changed(p)}
    BY DEF ScoreChanged
<1>2. /\ pc = "scores" /\ pc' = pc /\ cur' = cur /\ chain' = chain /\ db' = db /\ missed' = missed
    BY <1>1 DEF ScoreChanged, Settle
<1>3. InBlock /\ WorkInv /\ ChainInv
    BY <1>2 DEF InBlock, RowsInv
<1>4. /\ p \in DOMAIN work.nodes /\ p \in Pools /\ now.score[p] \in Scores /\ cur \in Nat \ {0}
      /\ \A r \in work.rows : r.from \in Nat
    BY <1>2, <1>3, BlockFacts DEF WorkInv, Row
<1>5. \A r \in OpenRows(work.rows, p) : r.from # cur
    BY <1>1, <1>3 DEF OpenRows, WorkInv, WrittenAreCached
<1>6. /\ Reopened(work.rows, p, now.score[p], work'.rows)
      /\ work'.reasons = work.reasons
    BY <1>1, <1>3, <1>4, <1>5, WithScoreRows DEF WorkInv
<1>7. PICK o \in work.rows : \E c, n :
             /\ OpenRows(work.rows, p) = {o} /\ o.pool = p /\ o.to = 0
             /\ o.from \in Nat \ {0} /\ o.from < cur
             /\ c.pool = p /\ c.from = o.from /\ c.to = cur - 1 /\ c.score = o.score
             /\ n.pool = p /\ n.from = cur /\ n.to = 0 /\ n.score = now.score[p]
             /\ work'.rows = (work.rows \ {o}) \cup {c, n}
    BY <1>6 DEF Reopened
<1> PICK c, n :
             /\ c.pool = p /\ c.from = o.from /\ c.to = cur - 1 /\ c.score = o.score
             /\ n.pool = p /\ n.from = cur /\ n.to = 0 /\ n.score = now.score[p]
             /\ work'.rows = (work.rows \ {o}) \cup {c, n}
    BY <1>7
<1>8. /\ \A r \in work.rows \ {o} : FirstRow(work'.rows, r) <=> FirstRow(work.rows, r)
      /\ FirstRow(work'.rows, c) <=> FirstRow(work.rows, o)
      /\ ~FirstRow(work'.rows, n)
    <2>1. Split(work.rows, o, c, n, work'.rows)
        BY <1>4, <1>7 DEF Split
    <2> QED BY <1>4, <2>1, SplitRows
<1>9. /\ RowsReasoned(work.rows, work.reasons, Pending)
      /\ ReasonsTell(work.rows, work.reasons, missed)
      /\ ChangesTell(work.rows, changes, missed, cur)
    BY <1>1, <1>3 DEF ReasonInv
<1>10. <<p, cur>> \in Pending' /\ Pending \subseteq Pending'
    <2>1. Changed(p) \in changes' /\ Changed(p).pool = p
        BY <1>1 DEF Changed
    <2> QED BY <1>1, <1>2, <2>1 DEF Pending
<1>11. RowsReasoned(work'.rows, work.reasons, Pending')
    <2>1. ReasonsOf(work.reasons, c) = ReasonsOf(work.reasons, o)
        BY <1>7 DEF ReasonsOf
    <2>2. ASSUME NEW r \in work.rows \ {o}
          PROVE  /\ FirstRow(work'.rows, r) => ReasonsOf(work.reasons, r) = {}
                 /\ ~FirstRow(work'.rows, r) => \/ <<r.pool, r.from>> \in Pending'
                                                \/ \E q \in work.reasons : ReasonsOf(work.reasons, r) = {q}
        BY <1>8, <1>9, <1>10 DEF RowsReasoned
    <2>3. /\ FirstRow(work'.rows, c) => ReasonsOf(work.reasons, c) = {}
          /\ ~FirstRow(work'.rows, c) => \/ <<c.pool, c.from>> \in Pending'
                                         \/ \E q \in work.reasons : ReasonsOf(work.reasons, c) = {q}
        BY <1>7, <1>8, <1>9, <1>10, <2>1 DEF RowsReasoned
    <2>4. ~FirstRow(work'.rows, n) /\ <<n.pool, n.from>> \in Pending'
        BY <1>8, <1>10
    <2> QED BY <2>2, <2>3, <2>4 DEF RowsReasoned
<1>12. ASSUME NEW q, NEW b, NEW blind, NEW score, Follows(work.rows, missed, q, b, blind, score)
       PROVE  Follows(work'.rows, missed, q, b, blind, score)
    BY <1>7, <1>12 DEF Follows
<1>13. ReasonsTell(work'.rows, work.reasons, missed)
    <2>1. \A q \in work.reasons :
            \E r \in work'.rows : r.pool = q.pool /\ r.from = q.block /\ r.score = q.new
        BY <1>7, <1>9 DEF ReasonsTell
    <2> QED BY <1>9, <1>12, <2>1 DEF ReasonsTell
<1>14. ChangesTell(work'.rows, changes', missed, cur)
    <2>1. ASSUME NEW d \in changes
          PROVE  \E r \in work'.rows : /\ r.pool = d.pool /\ r.from = cur /\ r.to = 0 /\ r.score = d.new
                                       /\ ~FirstRow(work'.rows, r)
        <3>1. PICK r \in work.rows : /\ r.pool = d.pool /\ r.from = cur /\ r.to = 0 /\ r.score = d.new
                                     /\ ~FirstRow(work.rows, r)
            BY <1>9 DEF ChangesTell
        <3>2. r # o
            BY <1>7, <3>1
        <3> QED BY <1>8, <3>1, <3>2
    <2>2. n \in work'.rows /\ n.pool = Changed(p).pool /\ n.score = Changed(p).new
        BY DEF Changed
    <2>3. Follows(work'.rows, missed, p, cur, Changed(p).blind, Changed(p).previous)
        <3>1. CASE cache[p] = Undefined
            BY <3>1 DEF Changed, Follows
        <3>2. CASE <<p, cur - 1>> \in missed
            BY <3>2 DEF Follows
        <3>3. CASE cache[p] # Undefined /\ <<p, cur - 1>> \notin missed
            <4>1. p \notin hidden
                BY <1>1, <1>2, <3>3 DEF HiddenInv, now
            <4>2. o.score = cache[p]
                BY <1>3, <1>7, <4>1 DEF HistoryInv, Agree
            <4>3. cache[p] \in Nat
                BY <1>4, <3>3, ScoresShape DEF HiddenInv, Scores
            <4>4. Changed(p).previous = cache[p]
                <5> PICK x \in Nat : x = cache[p]
                    BY <4>3
                <5>1. {x, 0} \subseteq Int /\ \A y \in {x, 0} : y <= x
                    OBVIOUS
                <5>2. Max({x, 0}) = x
                    BY <5>1, MaxIs
                <5> QED BY <5>2 DEF Changed
            <4>5. c.to # 0 /\ c.to = cur - 1 /\ c \in work'.rows
                BY <1>4, <1>7
            <4> QED BY <4>2, <4>4, <4>5 DEF Follows
        <3> QED BY <3>1, <3>2, <3>3
    <2>4. Changed(p).pool = p
        BY DEF Changed
    <2> QED BY <1>1, <1>8, <1>9, <1>12, <2>1, <2>2, <2>3, <2>4 DEF ChangesTell
<1> QED BY <1>2, <1>6, <1>9, <1>11, <1>13, <1>14 DEF ReasonInv

(* The row of a reason.                                                    *)
ReasonRow(d, why) ==
    [pool |-> d.pool, block |-> cur, epoch |-> epochData.id,
     previous |-> d.previous, new |-> d.new, blind |-> d.blind,
     unread |-> epochData.unread, reason |-> why]

LEMMA ReasonDetectReasons == RowsInv /\ PoolsInv /\ ReasonInv /\ DetectReasons => ReasonInv'
<1> SUFFICES ASSUME RowsInv, PoolsInv, ReasonInv, DetectReasons PROVE ReasonInv'
    OBVIOUS
<1>1. PICK d \in changes : \E reason \in Reasons(d) :
        /\ changes' = changes \ {d}
        /\ work' = WithReason(work, ReasonRow(d, reason))
    BY DEF DetectReasons, ReasonRow
<1> PICK why : changes' = changes \ {d} /\ work' = WithReason(work, ReasonRow(d, why))
    BY <1>1
<1>2. /\ pc = "reasons" /\ pc' = pc /\ cur' = cur /\ chain' = chain /\ db' = db /\ missed' = missed
      /\ aborted' = aborted
    BY DEF DetectReasons
<1>3. InBlock /\ InBlock' /\ WorkInv /\ cur \in Nat \ {0}
    BY <1>2 DEF InBlock, RowsInv, ChainInv
<1> DEFINE row == ReasonRow(d, why)
<1> SUFFICES ASSUME ~aborted
             PROVE  /\ RowsReasoned(work'.rows, work'.reasons, Pending')
                    /\ ReasonsTell(work'.rows, work'.reasons, missed)
                    /\ ChangesTell(work'.rows, changes', missed, cur)
    BY <1>2, <1>3 DEF ReasonInv
<1>4. work' = WithReason(work, row)
    BY <1>1
<1>5. /\ row.pool = d.pool /\ row.block = cur
      /\ row.previous = d.previous /\ row.new = d.new /\ row.blind = d.blind
    BY DEF ReasonRow
<1> HIDE DEF row
<1>6. /\ work'.rows = work.rows
      /\ work'.reasons = {r \in work.reasons : r.pool # row.pool \/ r.block # row.block} \cup {row}
    BY <1>3, <1>4 DEF WithReason, WorkInv, Tiled
<1>7. /\ RowsReasoned(work.rows, work.reasons, Pending)
      /\ ReasonsTell(work.rows, work.reasons, missed)
      /\ ChangesTell(work.rows, changes, missed, cur)
    BY <1>3 DEF ReasonInv
<1>8. PICK s \in work.rows : s.pool = d.pool /\ s.from = cur /\ s.score = d.new /\ ~FirstRow(work.rows, s)
    BY <1>7 DEF ChangesTell
<1>9. ASSUME NEW r \in work.rows
      PROVE  /\ FirstRow(work.rows, r) => ReasonsOf(work'.reasons, r) = {}
             /\ ~FirstRow(work.rows, r) => \/ <<r.pool, r.from>> \in Pending'
                                           \/ \E q \in work'.reasons : ReasonsOf(work'.reasons, r) = {q}
    <2>1. CASE r.pool = d.pool /\ r.from = cur
        <3>1. ReasonsOf(work'.reasons, r) = {row}
            BY <1>5, <1>6, <2>1 DEF ReasonsOf
        <3>2. ~FirstRow(work.rows, r)
            BY <1>8, <2>1 DEF FirstRow
        <3> QED BY <1>6, <3>1, <3>2
    <2>2. CASE ~(r.pool = d.pool /\ r.from = cur)
        <3>1. ReasonsOf(work'.reasons, r) = ReasonsOf(work.reasons, r)
            BY <1>5, <1>6, <2>2 DEF ReasonsOf
        <3>2. <<r.pool, r.from>> \in Pending => <<r.pool, r.from>> \in Pending'
            BY <1>1, <1>2, <2>2 DEF Pending
        <3>3. ReasonsOf(work'.reasons, r) \subseteq work'.reasons
            BY DEF ReasonsOf
        <3> QED BY <1>7, <3>1, <3>2, <3>3 DEF RowsReasoned
    <2> QED BY <2>1, <2>2
<1>10. RowsReasoned(work'.rows, work'.reasons, Pending')
    BY <1>6, <1>9 DEF RowsReasoned
<1>11. ReasonsTell(work'.rows, work'.reasons, missed)
    <2>2. Follows(work.rows, missed, row.pool, row.block, row.blind, row.previous)
        BY <1>5, <1>7 DEF ChangesTell
    <2>3. \E r \in work.rows : r.pool = row.pool /\ r.from = row.block /\ r.score = row.new
        BY <1>5, <1>8
    <2>4. \A q \in work'.reasons : q \in work.reasons \/ q = row
        BY <1>6
    <2> QED BY <1>6, <1>7, <2>2, <2>3, <2>4 DEF ReasonsTell
<1>12. ChangesTell(work'.rows, changes', missed, cur)
    BY <1>1, <1>6, <1>7 DEF ChangesTell
<1> QED BY <1>10, <1>11, <1>12

LEMMA ReasonCommit == RowsInv /\ PoolsInv /\ ReasonInv /\ Commit => ReasonInv'
<1> SUFFICES ASSUME RowsInv, PoolsInv, ReasonInv, Commit PROVE ReasonInv'
    OBVIOUS
<1>1. /\ pc = "reasons" /\ pc' = "idle" /\ chain' = chain /\ changes = {} /\ changes' = changes
      /\ missed \subseteq missed'
    BY DEF Commit, BlockDone
<1>2. InBlock /\ WorkInv /\ ChainInv
    BY <1>1 DEF InBlock, RowsInv
<1>3. CASE aborted
    <2>1. db' = db
        BY <1>3 DEF Commit
    <2>2. ReasonsTell(db.rows, db.reasons, missed')
        BY <1>1, ReasonsTellLater DEF ReasonInv
    <2> QED BY <1>1, <2>1, <2>2 DEF ReasonInv, InBlock
<1>4. CASE ~aborted
    <2>1. db' = work
        BY <1>4 DEF Commit
    <2>2. /\ RowsReasoned(work.rows, work.reasons, Pending)
          /\ ReasonsTell(work.rows, work.reasons, missed)
        BY <1>2, <1>4 DEF ReasonInv
    <2>3. RowsReasoned(work.rows, work.reasons, {})
        <3>1. Pending = {}
            BY <1>1 DEF Pending
        <3> QED BY <2>2, <3>1
    <2>7. ReasonsTell(work.rows, work.reasons, missed')
        BY <1>1, <2>2, ReasonsTellLater
    <2> QED BY <1>1, <2>1, <2>3, <2>7 DEF ReasonInv, InBlock
<1> QED BY <1>3, <1>4

(* The steps that write neither a row nor a reason.                        *)
LEMMA ReasonNoRow ==
    /\ RowsInv /\ ReasonInv
    /\ \/ EventsProcessed \/ ScoreUnchanged \/ ScoreReadFails \/ ScoreStatementFails
       \/ ScoresProcessed \/ ReasonStatementFails \/ Startup \/ Crash \/ BlockFails
    => ReasonInv'
<1> SUFFICES ASSUME RowsInv, ReasonInv,
                    \/ EventsProcessed \/ ScoreUnchanged \/ ScoreReadFails \/ ScoreStatementFails
                    \/ ScoresProcessed \/ ReasonStatementFails \/ Startup \/ Crash \/ BlockFails
             PROVE  ReasonInv'
    OBVIOUS
<1>1. chain' = chain /\ db' = db /\ missed \subseteq missed'
    BY DEF EventsProcessed, ScoreUnchanged, ScoreReadFails, ScoreStatementFails, ScoresProcessed,
           ReasonStatementFails, Startup, Crash, BlockFails, Settle
<1>2. ReasonsTell(db.rows, db.reasons, missed')
    BY <1>1, ReasonsTellLater DEF ReasonInv
<1>3. CASE EventsProcessed \/ ScoreUnchanged \/ ScoreReadFails \/ ScoreStatementFails \/ ScoresProcessed
    <2>1. /\ work' = work \/ work' = WithEpoch(work)
          /\ changes' = changes /\ cur' = cur /\ (~aborted' => ~aborted)
          /\ InBlock /\ pc' \in {"scores", "reasons"}
        BY <1>3 DEF EventsProcessed, ScoreUnchanged, ScoreReadFails, ScoreStatementFails,
           ScoresProcessed, Settle, InBlock
    <2>4. work'.rows = work.rows /\ work'.reasons = work.reasons
        BY <2>1, WithEpochRows DEF RowsInv, WorkInv, SameButEpochs
    <2> SUFFICES ASSUME ~aborted
                 PROVE  /\ RowsReasoned(work.rows, work.reasons, Pending)
                        /\ ReasonsTell(work.rows, work.reasons, missed')
                        /\ ChangesTell(work.rows, changes, missed', cur)
        BY <1>1, <1>2, <2>1, <2>4 DEF ReasonInv, Pending
    <2>2. /\ RowsReasoned(work.rows, work.reasons, Pending)
          /\ ReasonsTell(work.rows, work.reasons, missed)
          /\ ChangesTell(work.rows, changes, missed, cur)
        BY <2>1 DEF ReasonInv
    <2>3. ChangesTell(work.rows, changes, missed', cur)
        BY <1>1, <2>2, FollowsLater DEF ChangesTell
    <2> QED BY <1>1, <2>2, <2>3, ReasonsTellLater
<1>4. CASE Startup \/ Crash \/ BlockFails
    <2>1. pc' \in {"idle", "down"} /\ changes' = {}
        BY <1>4 DEF Startup, Crash, BlockFails, ReasonInv
    <2> QED BY <1>1, <1>2, <2>1 DEF ReasonInv, InBlock
<1>5. CASE ReasonStatementFails
    <2>1. aborted' /\ pc' = "reasons"
        BY <1>5 DEF ReasonStatementFails
    <2> QED BY <1>1, <1>2, <2>1 DEF ReasonInv
<1> QED BY <1>3, <1>4, <1>5

LEMMA ReasonStep == RowsInv /\ PoolsInv /\ HistoryInv /\ HiddenInv /\ ReasonInv /\ [Next]_vars => ReasonInv'
<1> SUFFICES ASSUME RowsInv, PoolsInv, HistoryInv, HiddenInv, ReasonInv, [Next]_vars PROVE ReasonInv'
    OBVIOUS
<1>1. CASE NewBlock \/ BeginBlock \/ RegisterNode
    BY <1>1, ReasonNewBlock, ReasonBeginBlock, ReasonRegisterNode
<1>2. CASE \/ EventsProcessed \/ ScoreUnchanged \/ ScoreReadFails \/ ScoreStatementFails
           \/ ScoresProcessed \/ ReasonStatementFails \/ Startup \/ Crash \/ BlockFails
    BY <1>2, ReasonNoRow
<1>3. CASE ScoreChanged \/ DetectReasons \/ Commit
    BY <1>3, ReasonScoreChanged, ReasonDetectReasons, ReasonCommit
<1>4. CASE UNCHANGED vars
    BY <1>4 DEF vars, ReasonInv, InBlock, Pending
<1> QED BY <1>1, <1>2, <1>3, <1>4 DEF Next

LEMMA ReasonInvMatches == RowsInv /\ ReasonInv => ReasonsMatchHistory
<1> SUFFICES ASSUME RowsInv, ReasonInv, NEW p \in DOMAIN db.nodes
             PROVE  /\ \A l \in ListBonusScore(p) :
                        LET isFirst == \A k \in ListBonusScore(p) : l.from <= k.from
                        IN  Cardinality(l.reasons) = IF isFirst THEN 0 ELSE 1
                    /\ \A q \in ListBonusScoreReasons(p) :
                        /\ \E l \in ListBonusScore(p) : q \in l.reasons /\ l.score = q.new
                        /\ \/ q.blind \/ <<p, q.block - 1>> \in missed
                           \/ \E l \in ListBonusScore(p) : l.to = q.block - 1 /\ l.score = q.previous
    BY DEF ReasonsMatchHistory
<1> DEFINE entry(r) == [from |-> r.from, to |-> r.to, score |-> r.score,
                        reasons |-> ReasonsOf(db.reasons, r)]
<1>1. ListBonusScore(p) = {entry(r) : r \in {s \in db.rows : s.pool = p}}
    <2>1. \A r \in {s \in db.rows : s.pool = p} :
            {q \in db.reasons : q.pool = p /\ q.block = r.from} = ReasonsOf(db.reasons, r)
        BY DEF ReasonsOf
    <2> QED BY <2>1 DEF ListBonusScore
<1>2. \A r : /\ entry(r).from = r.from /\ entry(r).to = r.to /\ entry(r).score = r.score
             /\ entry(r).reasons = ReasonsOf(db.reasons, r)
    OBVIOUS
<1> HIDE DEF entry
<1>3. ASSUME NEW l \in ListBonusScore(p)
      PROVE  Cardinality(l.reasons) =
                IF \A k \in ListBonusScore(p) : l.from <= k.from THEN 0 ELSE 1
    <2>1. PICK r \in db.rows : r.pool = p /\ l = entry(r)
        BY <1>1
    <2>2. (\A k \in ListBonusScore(p) : l.from <= k.from) <=> FirstRow(db.rows, r)
        BY <1>1, <1>2, <2>1 DEF FirstRow
    <2>3. CASE FirstRow(db.rows, r)
        <3>1. l.reasons = {}
            BY <1>2, <2>1, <2>3 DEF ReasonInv, RowsReasoned
        <3> QED BY <2>2, <2>3, <3>1, FS_EmptySet
    <2>4. CASE ~FirstRow(db.rows, r)
        <3>1. PICK q : l.reasons = {q}
            BY <1>2, <2>1, <2>4 DEF ReasonInv, RowsReasoned
        <3> QED BY <2>2, <2>4, <3>1, FS_Singleton
    <2> QED BY <2>3, <2>4
<1>4. ASSUME NEW q \in db.reasons, q.pool = p
      PROVE  /\ \E l \in ListBonusScore(p) : q \in l.reasons /\ l.score = q.new
             /\ \/ q.blind \/ <<p, q.block - 1>> \in missed
                \/ \E l \in ListBonusScore(p) : l.to = q.block - 1 /\ l.score = q.previous
    <2>1. /\ \E r \in db.rows : r.pool = p /\ r.from = q.block /\ r.score = q.new
          /\ Follows(db.rows, missed, p, q.block, q.blind, q.previous)
        BY <1>4 DEF ReasonInv, ReasonsTell
    <2>2. \E l \in ListBonusScore(p) : q \in l.reasons /\ l.score = q.new
        BY <1>1, <1>2, <1>4, <2>1 DEF ReasonsOf
    <2>3. \/ q.blind \/ <<p, q.block - 1>> \in missed
          \/ \E l \in ListBonusScore(p) : l.to = q.block - 1 /\ l.score = q.previous
        BY <1>1, <1>2, <2>1 DEF Follows
    <2> QED BY <2>2, <2>3
<1> QED BY <1>3, <1>4 DEF ListBonusScoreReasons

(* Who asks for the history of a pool is told one reason for each of its   *)
(* changes and no other, which leads from the score the history tells      *)
(* until then to the next, but for what a fault hid, although a reason     *)
(* that is refused is only logged (bonusScoreProcessor.ts 140-300,         *)
(* database-persistent.ts 815-877, controllers/node.ts).                   *)
THEOREM ReasonsMatchAlways == Spec => []ReasonsMatchHistory
<1> QED BY InitRowsInv, NextRowsInv, PoolsInit, PoolsStep, HistoryInit, HistoryStep, HiddenInit,
           HiddenStep, ReasonInit, ReasonStep, ReasonInvMatches, PTL DEF Spec


-----------------------------------------------------------------------------
(* The epochs of the reasons.  A row of posdao_epoch begins with a stored  *)
(* block of its epoch, and the newest row is open: it is what the look-up  *)
(* finds, and as the epochs of the chain never fall, no row that begins    *)
(* before a block has a later epoch than the block before it.  Rows that   *)
(* are added later begin later, and what ends a row keeps its epoch.       *)

RisingEpochs(ch) == \A i, j \in DOMAIN ch : i <= j => ch[i].epoch <= ch[j].epoch

Told(q, rows, ch) ==
    /\ q.epoch <= ch[q.block - 1].epoch
    /\ (\E e \in rows : e.from < q.block /\ e.id = ch[q.block - 1].epoch) /\ ~q.unread =>
            q.epoch = ch[q.block - 1].epoch

Begun(rows, blocks, ch) == \A e \in rows : e.from \in blocks /\ e.id = ch[e.from].epoch

NewestOpen(rows) ==
    rows = {} \/ \E e \in rows : e.to = 0 /\ \A f \in rows : f.from <= e.from

Filed(reasons, rows, blocks, ch) ==
    \A q \in reasons : q.block \in blocks /\ q.block > 1 /\ Told(q, rows, ch)

EpochTable(t, ch) ==
    /\ Begun(t.epochs, t.blocks, ch)
    /\ NewestOpen(t.epochs)
    /\ Filed(t.reasons, t.epochs, t.blocks, ch)

(* What the epoch of the running block's reasons may be.                   *)
LookedUp ==
    LET before == chain[cur - 1].epoch
    IN  /\ epochData.id <= before
        /\ (\E e \in db.epochs : e.id = before) /\ ~epochData.unread => epochData.id = before

(* The rows the running block did not write were there before it.          *)
OlderRowsStored ==
    \A e \in work.epochs : e.from < cur => \E f \in db.epochs : f.from = e.from /\ f.id = e.id

EpochInv ==
    /\ RisingEpochs(chain)
    /\ EpochTable(db, chain)
    /\ InBlock => EpochTable(work, chain) /\ OlderRowsStored
    /\ pc = "reasons" /\ cur > 1 => LookedUp

LEMMA StoredFacts ==
    ASSUME RowsInv, PoolsInv
    PROVE  /\ chain \in Seq(Block) /\ DOMAIN chain = 1 .. Len(chain) /\ Len(chain) \in Nat
           /\ cur \in Nat \ {0} /\ db.blocks \subseteq 1 .. cur - 1 /\ db.blocks \subseteq DOMAIN chain
           /\ \A b \in DOMAIN chain : chain[b].epoch \in Nat
           /\ InBlock => cur \in DOMAIN chain /\ work.blocks = db.blocks \cup {cur}
<1>1. /\ chain \in Seq(Block) /\ DOMAIN chain = 1 .. Len(chain) /\ Len(chain) \in Nat
      /\ cur \in Nat \ {0} /\ db.blocks \subseteq DOMAIN chain
    BY DEF RowsInv, ChainInv, PoolsInv
<1>2. PICK top \in Nat : NewestIs(top)
    BY DEF RowsInv, StoredInv
<1>3. db.blocks \subseteq 1 .. cur - 1
    <2> SUFFICES ASSUME NEW b \in db.blocks PROVE b \in 1 .. cur - 1
        OBVIOUS
    <2>1. b \in 0 .. top /\ top \in 0 .. cur - 1
        BY <1>2 DEF NewestIs
    <2>2. b \in 1 .. Len(chain)
        BY <1>1
    <2> QED BY <1>1, <2>1, <2>2
<1>4. \A b \in DOMAIN chain : chain[b].epoch \in Nat
    <2> SUFFICES ASSUME NEW b \in DOMAIN chain PROVE chain[b].epoch \in Nat
        OBVIOUS
    <2>1. chain[b] \in Block
        BY <1>1
    <2> QED BY <2>1 DEF Block
<1> QED BY <1>1, <1>3, <1>4 DEF RowsInv, WorkInv

(* The next block has the epoch of the last one or a later one.            *)
LEMMA RisingNewBlock ==
    RowsInv /\ PoolsInv /\ RisingEpochs(chain) /\ NewBlock => RisingEpochs(chain')
<1> SUFFICES ASSUME RowsInv, PoolsInv, RisingEpochs(chain), NewBlock PROVE RisingEpochs(chain')
    OBVIOUS
<1>1. PICK c \in NextBlocks(Last(chain)) : chain' = Append(chain, c)
    BY DEF NewBlock
<1> DEFINE l == Len(chain)
<1>2. /\ l \in Nat \ {0} /\ DOMAIN chain = 1 .. l /\ DOMAIN chain' = 1 .. l + 1
      /\ chain'[l + 1] = c /\ Last(chain) = chain[l]
      /\ \A b \in DOMAIN chain : chain'[b] = chain[b]
    BY <1>1 DEF RowsInv, ChainInv, Last
<1>3. c.epoch \in {chain[l].epoch, chain[l].epoch + 1}
    BY <1>1, <1>2 DEF NextBlocks
<1>4. \A b \in DOMAIN chain : chain[b].epoch \in Nat
    BY StoredFacts
<1> HIDE DEF l
<1> SUFFICES ASSUME NEW i \in DOMAIN chain', NEW j \in DOMAIN chain', i <= j
             PROVE  chain'[i].epoch <= chain'[j].epoch
    BY DEF RisingEpochs
<1>5. CASE j \in DOMAIN chain
    BY <1>2, <1>5 DEF RisingEpochs
<1>6. CASE j = l + 1
    <2>1. chain[l].epoch <= c.epoch /\ l \in DOMAIN chain
        BY <1>2, <1>3, <1>4
    <2>2. CASE i = l + 1
        BY <1>2, <1>3, <1>4, <1>6, <2>1, <2>2
    <2>3. CASE i \in DOMAIN chain
        <3>1. chain[i].epoch <= chain[l].epoch
            BY <1>2, <2>1, <2>3 DEF RisingEpochs
        <3>2. chain[i].epoch \in Nat /\ chain[l].epoch \in Nat /\ c.epoch \in Nat
            BY <1>3, <1>4, <2>1, <2>3
        <3> QED BY <1>2, <1>6, <2>1, <2>3, <3>1, <3>2
    <2> QED BY <1>2, <2>2, <2>3
<1> QED BY <1>2, <1>5, <1>6

(* Blocks that are stored stay as they are.                                *)
LEMMA EpochTableGrows ==
    ASSUME NEW t, NEW ch, NEW grown, EpochTable(t, ch), t.blocks \subseteq Nat,
           \A b \in t.blocks : grown[b] = ch[b],
           \A b \in t.blocks : b > 1 => grown[b - 1] = ch[b - 1]
    PROVE  EpochTable(t, grown)
BY DEF EpochTable, Begun, Filed, Told

(* The look-up finds the newest row of the pool.                           *)
LEMMA LookUpIsNewest ==
    ASSUME RowsInv, PoolsInv, EpochInv, cur > 1, cur - 1 \in DOMAIN chain
    PROVE  LET before == chain[cur - 1].epoch
           IN  /\ EpochByBlock <= before
               /\ (\E e \in db.epochs : e.id = before) => EpochByBlock = before
<1> DEFINE before == chain[cur - 1].epoch
           covering == {e \in db.epochs : e.from <= cur /\ (e.to = 0 \/ cur <= e.to)}
<1>1. \A e \in db.epochs : /\ e.from \in DOMAIN chain /\ e.from \in Nat /\ e.from <= cur - 1
                           /\ e.id = chain[e.from].epoch /\ e.id \in Nat
    BY StoredFacts DEF EpochInv, EpochTable, Begun
<1>2. before \in Nat /\ cur \in Nat
    BY StoredFacts
<1>3. \A e \in db.epochs : e.id <= before
    BY <1>1, <1>2 DEF EpochInv, RisingEpochs
<1>4. CASE db.epochs = {}
    BY <1>2, <1>4 DEF EpochByBlock
<1>5. CASE db.epochs # {}
    <2>1. PICK n \in db.epochs : n.to = 0 /\ \A f \in db.epochs : f.from <= n.from
        BY <1>5 DEF EpochInv, EpochTable, NewestOpen
    <2>2. n \in covering /\ \A f \in covering : f.from <= n.from
        BY <1>1, <1>2, <2>1
    <2> DEFINE found == CHOOSE e \in covering : \A f \in covering : f.from <= e.from
    <2>3. found \in covering /\ \A f \in covering : f.from <= found.from
        BY <2>2
    <2>4. found \in db.epochs /\ found.from = n.from
        <3>1. found \in db.epochs
            BY <2>3
        <3>2. found.from <= n.from /\ n.from <= found.from
            BY <2>2, <2>3
        <3> QED BY <1>1, <3>1, <3>2
    <2>5. EpochByBlock = found.id
        BY <2>2 DEF EpochByBlock
    <2> HIDE DEF found
    <2>6. found.id = n.id
        BY <1>1, <2>4
    <2>7. ASSUME NEW e \in db.epochs, e.id = before PROVE n.id = before
        <3>1. e.id <= n.id
            BY <1>1, <2>1 DEF EpochInv, RisingEpochs
        <3> QED BY <1>1, <1>2, <1>3, <2>7, <3>1
    <2> QED BY <1>3, <2>4, <2>5, <2>6, <2>7
<1> QED BY <1>4, <1>5

LEMMA EpochInit == Init => EpochInv
<1> SUFFICES ASSUME Init PROVE EpochInv
    OBVIOUS
<1>1. PICK p \in Pools : chain = <<[pools |-> {p}, score |-> [q \in Pools |-> 0], epoch |-> 0]>>
    BY DEF Init
<1>2. RisingEpochs(chain)
    BY <1>1 DEF RisingEpochs
<1> QED BY <1>2 DEF Init, EmptyTables, EpochInv, EpochTable, Begun, NewestOpen, Filed, InBlock

LEMMA EpochNewBlock == RowsInv /\ PoolsInv /\ EpochInv /\ NewBlock => EpochInv'
<1> SUFFICES ASSUME RowsInv, PoolsInv, EpochInv, NewBlock PROVE EpochInv'
    OBVIOUS
<1>1. db' = db /\ pc' = pc /\ pc \in {"idle", "down"}
    BY DEF NewBlock
<1>2. \A b \in DOMAIN chain : chain'[b] = chain[b]
    BY ChainGrows DEF RowsInv
<1>3. \A b \in db.blocks : b \in DOMAIN chain /\ b \in Nat /\ (b > 1 => b - 1 \in DOMAIN chain)
    BY StoredFacts
<1>4. EpochTable(db, chain')
    BY <1>2, <1>3, EpochTableGrows DEF EpochInv
<1>5. RisingEpochs(chain')
    BY RisingNewBlock DEF EpochInv
<1> QED BY <1>1, <1>4, <1>5 DEF EpochInv, InBlock

LEMMA EpochBeginBlock == RowsInv /\ PoolsInv /\ EpochInv /\ BeginBlock => EpochInv'
<1> SUFFICES ASSUME RowsInv, PoolsInv, EpochInv, BeginBlock PROVE EpochInv'
    OBVIOUS
<1>1. PICK top \in Nat : NewestIs(top)
    BY DEF RowsInv, StoredInv
<1>2. work'.epochs = db.epochs /\ work'.reasons = db.reasons /\ work'.blocks = db.blocks \cup {cur}
    BY <1>1 DEF BeginBlock, NewestIs, Tiled
<1>3. chain' = chain /\ db' = db /\ pc' = "nodes"
    BY DEF BeginBlock
<1>4. EpochTable(work', chain) /\ OlderRowsStored'
    BY <1>2, <1>3 DEF EpochInv, EpochTable, Begun, Filed, OlderRowsStored
<1> QED BY <1>3, <1>4 DEF EpochInv, EpochTable, Begun, Filed, NewestOpen

(* The row of the new epoch is the newest, and open.                       *)
LEMMA EpochEventsProcessed == RowsInv /\ PoolsInv /\ EpochInv /\ EventsProcessed => EpochInv'
<1> SUFFICES ASSUME RowsInv, PoolsInv, EpochInv, EventsProcessed PROVE EpochInv'
    OBVIOUS
<1>1. /\ InBlock /\ WorkInv /\ chain' = chain /\ db' = db /\ cur' = cur /\ pc' = "scores"
      /\ work' = WithEpoch(work)
    BY DEF EventsProcessed, InBlock, RowsInv
<1>2. SameButEpochs(work', work)
    BY <1>1, WithEpochRows DEF WorkInv
<1>3. cur \in work.blocks /\ cur \in Nat \ {0} /\ work.blocks \subseteq 1 .. cur
    BY <1>1, StoredFacts
<1>4. EpochTable(work, chain) /\ OlderRowsStored
    BY <1>1 DEF EpochInv
<1>5. CASE now.epoch <= lastEpoch
    BY <1>1, <1>4, <1>5 DEF WithEpoch, EpochInv, OlderRowsStored, EpochTable, InBlock
<1>6. CASE ~(now.epoch <= lastEpoch)
    <2> DEFINE n == [id |-> now.epoch, from |-> cur, to |-> 0]
               ended(e) == IF e.id = lastEpoch THEN [e EXCEPT !.to = cur - 1] ELSE e
    <2>1. work'.epochs = {ended(e) : e \in work.epochs} \cup {n}
        BY <1>1, <1>6 DEF WithEpoch, WorkInv, Tiled
    <2>2. n.id = now.epoch /\ n.from = cur /\ n.to = 0
        OBVIOUS
    <2>3. \A e \in work.epochs : ended(e).id = e.id /\ ended(e).from = e.from
        OBVIOUS
    <2> HIDE DEF n, ended
    <2>4. \A e \in work'.epochs : e = n \/ \E f \in work.epochs : e.id = f.id /\ e.from = f.from
        BY <2>1, <2>3
    <2>5. Begun(work'.epochs, work.blocks, chain)
        BY <1>3, <1>4, <2>2, <2>4 DEF EpochTable, Begun, now
    <2>6. NewestOpen(work'.epochs)
        <3>1. n \in work'.epochs /\ \A e \in work'.epochs : e.from <= n.from
            BY <1>3, <2>1, <2>2, <2>5 DEF Begun
        <3> QED BY <2>2, <3>1 DEF NewestOpen
    <2>7. Filed(work.reasons, work'.epochs, work.blocks, chain)
        <3>1. ASSUME NEW q \in work.reasons PROVE Told(q, work'.epochs, chain)
            <4>1. q.block \in Nat /\ q.block <= cur
                BY <1>3, <1>4 DEF EpochTable, Filed
            <4>2. ASSUME NEW e \in work'.epochs, e.from < q.block
                  PROVE  \E f \in work.epochs : e.id = f.id /\ e.from = f.from
                BY <1>3, <2>2, <2>4, <4>1, <4>2
            <4> QED BY <1>4, <4>2 DEF EpochTable, Filed, Told
        <3> QED BY <1>4, <3>1 DEF EpochTable, Filed
    <2>8. OlderRowsStored'
        <3> SUFFICES ASSUME NEW e \in work'.epochs, e.from < cur
                     PROVE  \E f \in db.epochs : f.from = e.from /\ f.id = e.id
            BY <1>1 DEF OlderRowsStored
        <3>1. PICK f \in work.epochs : e.id = f.id /\ e.from = f.from
            BY <1>3, <2>2, <2>4
        <3> QED BY <1>4, <3>1 DEF OlderRowsStored
    <2> QED BY <1>1, <1>2, <2>5, <2>6, <2>7, <2>8 DEF EpochInv, EpochTable, SameButEpochs
<1> QED BY <1>5, <1>6

LEMMA EpochScoresProcessed == RowsInv /\ PoolsInv /\ EpochInv /\ ScoresProcessed => EpochInv'
<1> SUFFICES ASSUME RowsInv, PoolsInv, EpochInv, ScoresProcessed PROVE EpochInv'
    OBVIOUS
<1>1. /\ InBlock /\ InBlock' /\ chain' = chain /\ db' = db /\ work' = work /\ cur' = cur
    BY DEF ScoresProcessed, InBlock
<1>2. ASSUME cur > 1 PROVE LookedUp'
    <2>1. cur - 1 \in DOMAIN chain /\ chain[cur - 1].epoch \in Nat
        BY <1>1, <1>2, StoredFacts
    <2> DEFINE before == chain[cur - 1].epoch
    <2>2. EpochByBlock <= before /\ ((\E e \in db.epochs : e.id = before) => EpochByBlock = before)
        BY <1>2, <2>1, LookUpIsNewest
    <2>3. \/ epochData' = [id |-> EpochByBlock, unread |-> FALSE]
          \/ epochData' = [id |-> 0, unread |-> TRUE]
        BY DEF ScoresProcessed
    <2>4. epochData'.id <= before
        BY <2>1, <2>2, <2>3
    <2>5. (\E e \in db.epochs : e.id = before) /\ ~epochData'.unread => epochData'.id = before
        BY <2>2, <2>3
    <2> QED BY <1>1, <2>4, <2>5 DEF LookedUp
<1> QED BY <1>1, <1>2 DEF EpochInv, OlderRowsStored

(* A reason is that of a row which is not the first of its pool: its block *)
(* has one before it.                                                      *)
LEMMA EpochDetectReasons == RowsInv /\ PoolsInv /\ ReasonInv /\ EpochInv /\ DetectReasons => EpochInv'
<1> SUFFICES ASSUME RowsInv, PoolsInv, ReasonInv, EpochInv, DetectReasons PROVE EpochInv'
    OBVIOUS
<1>1. /\ InBlock /\ InBlock' /\ WorkInv /\ chain' = chain /\ db' = db /\ cur' = cur
      /\ pc = "reasons" /\ ~aborted /\ epochData' = epochData
    BY DEF DetectReasons, InBlock, RowsInv, epochs
<1>2. PICK d \in changes : \E why \in Reasons(d) : work' = WithReason(work, ReasonRow(d, why))
    BY DEF DetectReasons, ReasonRow
<1> PICK why : work' = WithReason(work, ReasonRow(d, why))
    BY <1>2
<1> DEFINE row == ReasonRow(d, why)
<1>3. row.block = cur /\ row.epoch = epochData.id /\ row.unread = epochData.unread
    BY DEF ReasonRow
<1>4. /\ work'.epochs = work.epochs /\ work'.blocks = work.blocks
      /\ work'.reasons \subseteq work.reasons \cup {row}
    BY <1>1 DEF WithReason, WorkInv, Tiled
<1> HIDE DEF row
<1>5. cur \in Nat \ {0} /\ cur \in work.blocks
    BY <1>1, StoredFacts
<1>6. cur > 1
    <2>1. PICK r \in work.rows : r.from = cur /\ ~FirstRow(work.rows, r)
        BY <1>1, <1>2 DEF ReasonInv, ChangesTell
    <2>2. PICK k \in work.rows : k.pool = r.pool /\ ~(r.from <= k.from)
        BY <2>1 DEF FirstRow
    <2>3. k \in Row /\ k.pool \in DOMAIN work.nodes
        BY <1>1 DEF WorkInv, Tiled
    <2>4. PICK first \in 1 .. cur : TiledFrom(work, k.pool, first, cur)
        BY <1>1, <2>3 DEF WorkInv, Tiled
    <2>5. k.from \in Nat /\ 1 <= k.from
        BY <2>3, <2>4 DEF TiledFrom, Row
    <2> QED BY <1>5, <2>1, <2>2, <2>5
<1>7. LookedUp
    BY <1>1, <1>6 DEF EpochInv
<1>8. Told(row, work.epochs, chain)
    <2>1. ASSUME NEW e \in work.epochs, e.from < cur, e.id = chain[cur - 1].epoch
          PROVE  \E f \in db.epochs : f.id = chain[cur - 1].epoch
        BY <1>1, <2>1 DEF EpochInv, OlderRowsStored
    <2> QED BY <1>3, <1>7, <2>1 DEF Told, LookedUp
<1>9. EpochTable(work', chain)
    BY <1>1, <1>3, <1>4, <1>5, <1>6, <1>8 DEF EpochInv, EpochTable, Filed
<1> QED BY <1>1, <1>4, <1>9 DEF EpochInv, OlderRowsStored, LookedUp

(* The steps that touch neither epochs nor reasons.                        *)
LEMMA EpochSame ==
    ASSUME EpochInv, chain' = chain, db' = db, cur' = cur,
           InBlock' => /\ InBlock /\ work'.epochs = work.epochs /\ work'.reasons = work.reasons
                       /\ work'.blocks = work.blocks,
           pc' = "reasons" => pc = "reasons" /\ epochData' = epochData
    PROVE  EpochInv'
BY DEF EpochInv, EpochTable, OlderRowsStored, LookedUp

LEMMA EpochStep == RowsInv /\ PoolsInv /\ ReasonInv /\ EpochInv /\ [Next]_vars => EpochInv'
<1> SUFFICES ASSUME RowsInv, PoolsInv, ReasonInv, EpochInv, [Next]_vars PROVE EpochInv'
    OBVIOUS
<1>1. CASE NewBlock \/ BeginBlock \/ EventsProcessed \/ ScoresProcessed \/ DetectReasons
    BY <1>1, EpochNewBlock, EpochBeginBlock, EpochEventsProcessed, EpochScoresProcessed, EpochDetectReasons
<1>2. CASE Startup \/ Crash \/ BlockFails
    <2>1. chain' = chain /\ db' = db /\ pc' \in {"idle", "down"}
        BY <1>2 DEF Startup, Crash, BlockFails
    <2> QED BY <2>1 DEF EpochInv, InBlock
<1>3. CASE RegisterNode
    <2>1. PICK p : work' = WithNode(work, p, now.score[p])
        BY <1>3 DEF RegisterNode
    <2>2. InBlock /\ WorkInv
        BY <1>3 DEF RegisterNode, InBlock, RowsInv
    <2>3. /\ work'.epochs = work.epochs /\ work'.reasons = work.reasons /\ work'.blocks = work.blocks
        BY <2>1, <2>2 DEF WithNode, WorkInv, Tiled
    <2>4. chain' = chain /\ db' = db /\ cur' = cur /\ pc' = "nodes"
        BY <1>3 DEF RegisterNode
    <2> QED BY <2>2, <2>3, <2>4, EpochSame
<1>4. CASE ScoreChanged
    <2>1. PICK p : work' = WithScore(work, p, now.score[p])
        BY <1>4 DEF ScoreChanged
    <2>2. InBlock /\ WorkInv /\ chain' = chain /\ db' = db /\ cur' = cur /\ pc' = "scores"
        BY <1>4 DEF ScoreChanged, Settle, InBlock, RowsInv
    <2>3. /\ work'.epochs = work.epochs /\ work'.reasons = work.reasons /\ work'.blocks = work.blocks
        BY <2>1, <2>2 DEF WithScore, WorkInv, Tiled
    <2> QED BY <2>2, <2>3, EpochSame
<1>5. CASE ScoreUnchanged \/ ScoreReadFails \/ ScoreStatementFails \/ ReasonStatementFails
    <2>1. /\ chain' = chain /\ db' = db /\ cur' = cur /\ work' = work /\ pc' = pc
          /\ epochData' = epochData
        BY <1>5 DEF ScoreUnchanged, ScoreReadFails, ScoreStatementFails, ReasonStatementFails, epochs, Settle
    <2> QED BY <2>1, EpochSame DEF InBlock
<1>6. CASE Commit
    <2>1. /\ chain' = chain /\ pc' = "idle" /\ InBlock /\ db' \in {db, work}
        BY <1>6 DEF Commit, BlockDone, InBlock
    <2> QED BY <2>1 DEF EpochInv, InBlock
<1>7. CASE UNCHANGED vars
    <2>1. /\ chain' = chain /\ db' = db /\ cur' = cur /\ work' = work /\ pc' = pc
          /\ epochData' = epochData
        BY <1>7 DEF vars, epochs
    <2> QED BY <2>1, EpochSame DEF InBlock
<1> QED BY <1>1, <1>2, <1>3, <1>4, <1>5, <1>6, <1>7 DEF Next

LEMMA EpochInvFiles == EpochInv => FiledUnderEpoch
BY DEF EpochInv, EpochTable, Filed, Told, FiledUnderEpoch

(* A reason is never filed under an epoch later than that of the block     *)
(* before its own, and under an earlier one only if the look-up failed or  *)
(* that epoch had no row: what a row of posdao_epoch tells does not depend *)
(* on rollbacks, restarts and lost blocks between (bonusScoreProcessor.ts  *)
(* 234-300, database-persistent.ts 462, 505, 880-902, runFillDb.ts         *)
(* 321-431).                                                               *)
THEOREM FiledUnderEpochAlways == Spec => []FiledUnderEpoch
<1> QED BY InitRowsInv, NextRowsInv, PoolsInit, PoolsStep, HistoryInit, HistoryStep, HiddenInit,
           HiddenStep, ReasonInit, ReasonStep, EpochInit, EpochStep, EpochInvFiles, PTL DEF Spec
=============================================================================
