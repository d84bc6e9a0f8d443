------------------------------ MODULE BlockNet ------------------------------
(***************************************************************************)
(* The HTTP block device of block_net.c: an image split into blocks that   *)
(* are downloaded on demand into an LRU cache, and clusters that hold the  *)
(* data the guest has written.                                             *)
(*                                                                         *)
(* The program has one thread, which runs the guest and, from its event    *)
(* loop, the callbacks of the downloads.  A request or a callback is       *)
(* modelled by several steps, between which only the code it calls may     *)
(* run: "rw" tells whether bf_rw_async1 is active and "host" what is below *)
(* it on the stack.                                                        *)
(***************************************************************************)
EXTENDS Integers, Sequences, SequencesExt

CONSTANTS
    BlockSize,          \* sectors of a block of the image
    SectorsPerCluster,
    NbBlocks,
    CacheMax,           \* n_cached_blocks_max
    GroupLen,           \* prefetch_group_len
    Prefetch,           \* the "prefetch" array of the image's description
    Value,              \* what a sector may contain
    Image,              \* the contents of each sector of the image
    Garbage,            \* contents of memory that nothing has initialised
    Request,            \* requests of the client: [is_write, sector_num, data]
    Addr,               \* heap cells for CachedBlock
    NULL

NbSectors == BlockSize * NbBlocks
Sector    == 0 .. NbSectors - 1
NClusters == (NbSectors + SectorsPerCluster - 1) \div SectorsPerCluster
Cluster   == 0 .. NClusters - 1
Block     == 0 .. NbBlocks - 1

ASSUME SizesAssumption ==
    {BlockSize, SectorsPerCluster, NbBlocks, CacheMax, GroupLen}
        \subseteq Nat \ {0}

ASSUME DataAssumption == Image \in [Sector -> Value]

CachedBlock == [block_num : Block, state : {"loading", "loaded"}]

ClusterData == [0 .. SectorsPerCluster - 1 -> Value \cup {Garbage}]

ASSUME NullAssumption == NULL \notin Addr \cup CachedBlock \cup ClusterData

\* bf_init_onload checks that the elements of the array are integers; that they
\* name blocks of the image is up to the author of the description.
ASSUME PrefetchAssumption == Prefetch \in Seq(Block)

\* The client asks for sectors of the device: block_net.c does not check it.
ASSUME RequestAssumption ==
    \A r \in Request :
        /\ r.is_write \in BOOLEAN /\ r.sector_num \in Nat
        /\ r.data \in Seq(Value \cup {Garbage})
        /\ r.sector_num + Len(r.data) <= NbSectors

VARIABLES
    cached_blocks,  \* the list, most recently used first: sequence of addresses
    heap,           \* address -> CachedBlock, or NULL if the cell is free
    clusters,       \* cluster -> its sectors, or NULL if no written data
    request,        \* is_write, first sector and caller's data of the request
    sector_index,   \* sectors already moved
    io_buf,         \* the caller's buffer
    cur_block_num,
    busy,           \* is the client waiting for the end of its request?
    rw,             \* bf_rw_async1: "no" (not active), "sync" or "async"
    host,           \* below it: "init" (bf_init_onload), "run" (the guest or the
                    \* event loop), "onload" (bf_prefetch_group_onload),
                    \* "cb" (the client's callback) or "exit"
    to_prefetch,    \* what bf_init_onload has still to prefetch
    tab_block,      \* blocks of the group being requested, or still to deliver
    inflight        \* downloads not answered: the tab_block of each

vars == <<cached_blocks, heap, clusters, request, sector_index, io_buf,
          cur_block_num, busy, rw, host, to_prefetch, tab_block, inflight>>

cache == <<cached_blocks, heap>>
call  == <<request, sector_index, io_buf, busy>>
net   == <<to_prefetch, tab_block, inflight>>

\* No request has been made: bf was allocated by mallocz.
NoRequest == [is_write |-> FALSE, sector_num |-> 0, data |-> <<>>]

Init ==
    /\ cached_blocks = <<>> /\ heap = [p \in Addr |-> NULL]
    /\ clusters = [c \in Cluster |-> NULL]
    /\ request = NoRequest /\ sector_index = 0 /\ io_buf = <<>>
    /\ cur_block_num = -1
    /\ busy = FALSE
    /\ rw = "no" /\ host = "init"
    /\ to_prefetch = Prefetch /\ tab_block = <<>> /\ inflight = {}
-----------------------------------------------------------------------------
(* The cache *)

Positions == 1 .. Len(cached_blocks)
At(i)     == heap[cached_blocks[i]]

IsCached(n) == \E i \in Positions : At(i).block_num = n

\* bf_find_block when block n is cached: the block is moved to the front.
FindBlock(i, n) ==
    /\ i \in Positions /\ At(i).block_num = n
    /\ \A j \in 1 .. i - 1 : At(j).block_num # n
    /\ cached_blocks' = <<cached_blocks[i]>> \o RemoveAt(cached_blocks, i)

(* Faulty variants, to show that the properties can fail. *)
EvictableAnyState(i) == i \in Positions
MustEvictOneLate ==
    Len(cached_blocks) > CacheMax
        /\ \E i \in Positions : At(i).state = "loaded"

\* The blocks bf_add_block may free, and whether it has to.
Evictable(i)  == i \in Positions /\ At(i).state = "loaded"
MustEvict     == Len(cached_blocks) >= CacheMax /\ \E i \in Positions : Evictable(i)

\* The end of bf_add_block: cell p becomes a block being loaded.
AddBlock(p, n) ==
    /\ ~MustEvict
    /\ heap[p] = NULL
    /\ heap' = [heap EXCEPT ![p] = [block_num |-> n, state |-> "loading"]]
    /\ cached_blocks' = <<p>> \o cached_blocks

\* A sector of the buffer of cached block n; reading past its end gives anything.
BlockData(n, k) ==
    IF k < BlockSize THEN Image[n * BlockSize + k] ELSE Garbage
-----------------------------------------------------------------------------
(* The request: one iteration of the loop of bf_rw_async1 per step *)

LargerOf(a, b)  == IF a <= b THEN b ELSE a
SmallerOf(a, b) == IF a <= b THEN a ELSE b

Pos        == request.sector_num + sector_index      \* bf->sector_num
Left       == Len(request.data) - sector_index
ClusterNum == Pos \div SectorsPerCluster
BlockNum   == Pos \div BlockSize

\* Both directions of the copy of n sectors between io_buf and memory.
ReadInto(n, source) ==
    io_buf' = [i \in DOMAIN io_buf |->
                 IF i \in sector_index + 1 .. sector_index + n
                 THEN source[i] ELSE io_buf[i]]
ClusterSectors ==
    [i \in DOMAIN io_buf |->
        clusters[ClusterNum][(request.sector_num + i - 1) % SectorsPerCluster]]
Written(n) ==
    LET offset == Pos % SectorsPerCluster
    IN  [k \in 0 .. SectorsPerCluster - 1 |->
            IF k \in offset .. offset + n - 1
            THEN io_buf[sector_index + 1 + k - offset]
            ELSE clusters[ClusterNum][k]]

InRw       == rw # "no" /\ Left > 0
NoCluster  == clusters[ClusterNum] = NULL

\* The sectors are in a cluster.
RwCluster ==
    LET n == SmallerOf(Left, SectorsPerCluster - (Pos % SectorsPerCluster))
    IN  /\ InRw /\ ~NoCluster
        /\ IF request.is_write
           THEN /\ clusters' = [clusters EXCEPT ![ClusterNum] = Written(n)]
                /\ UNCHANGED io_buf
           ELSE ReadInto(n, ClusterSectors) /\ UNCHANGED clusters
        /\ sector_index' = sector_index + n
        /\ UNCHANGED <<cache, request, cur_block_num, busy, rw, host, net>>

\* Faulty: cur_block_num is set only when the block is not in the cache.
RwWaitOnly ==
    /\ InRw /\ NoCluster
    /\ \E i \in Positions :
         At(i).state = "loading" /\ FindBlock(i, BlockNum)
    /\ rw' = "no"
    /\ UNCHANGED <<heap, clusters, call, cur_block_num, host, net>>

\* The block is being loaded: the request waits.
RwWait ==
    /\ InRw /\ NoCluster
    /\ \E i \in Positions :
         At(i).state = "loading" /\ FindBlock(i, BlockNum)
    /\ cur_block_num' = BlockNum
    /\ rw' = "no"
    /\ UNCHANGED <<heap, clusters, call, host, net>>

\* Faulty: every cluster is copied from the start of its block.
RwAllocFirstCluster ==
    /\ InRw /\ NoCluster /\ request.is_write
    /\ \E i \in Positions :
         At(i).state = "loaded" /\ FindBlock(i, BlockNum)
    /\ cur_block_num' = BlockNum
    /\ clusters' = [clusters EXCEPT ![ClusterNum] =
                      [k \in 0 .. SectorsPerCluster - 1 |->
                         BlockData(BlockNum, k)]]
    /\ UNCHANGED <<heap, call, rw, host, net>>

\* A write allocates the cluster and copies into it what the image contains;
\* "continue" then takes the branch of the cluster, and cur_block_num stays.
RwAllocCluster ==
    LET first == (ClusterNum * SectorsPerCluster) % BlockSize
    IN  /\ InRw /\ NoCluster /\ request.is_write
        /\ \E i \in Positions :
             At(i).state = "loaded" /\ FindBlock(i, BlockNum)
        /\ cur_block_num' = BlockNum
        /\ clusters' = [clusters EXCEPT ![ClusterNum] =
                          [k \in 0 .. SectorsPerCluster - 1 |->
                             BlockData(BlockNum, first + k)]]
        /\ UNCHANGED <<heap, call, rw, host, net>>

\* A read takes from the cached block all it can, up to the end of the block.
RwRead ==
    LET n == SmallerOf(Left, BlockSize - (Pos % BlockSize))
        cached == [i \in DOMAIN io_buf |->
                     BlockData(BlockNum, (request.sector_num + i - 1) % BlockSize)]
    IN  /\ InRw /\ NoCluster /\ ~request.is_write
        /\ \E i \in Positions :
             At(i).state = "loaded" /\ FindBlock(i, BlockNum)
        /\ ReadInto(n, cached)
        /\ sector_index' = sector_index + n
        /\ cur_block_num' = -1
        /\ UNCHANGED <<heap, clusters, request, busy, rw, host, net>>

\* The block is not in the cache: bf_start_load_block.
RwStartLoad ==
    /\ InRw /\ NoCluster /\ ~IsCached(BlockNum)
    /\ \E p \in Addr :
         AddBlock(p, BlockNum) /\ inflight' = inflight \cup {<<p>>}
    /\ cur_block_num' = BlockNum
    /\ rw' = "no"
    /\ UNCHANGED <<clusters, call, host, to_prefetch, tab_block>>

\* The end of the request; the client hears of it by the value returned or, if
\* the request had to wait, by its callback.
RwEnd ==
    /\ rw # "no" /\ Left = 0
    /\ busy' = FALSE
    /\ rw' = "no"
    /\ host' = IF rw = "async" THEN "cb" ELSE host
    /\ UNCHANGED <<cache, clusters, request, sector_index, io_buf,
                   cur_block_num, net>>

\* bf_read_async, bf_write_async: called by the guest's access to a device, or
\* by the client's callback.
Submit ==
    /\ host \in {"run", "cb"} /\ rw = "no" /\ ~busy
    /\ \E r \in Request : request' = r /\ io_buf' = r.data
    /\ sector_index' = 0
    /\ busy' = TRUE
    /\ rw' = "sync"
    /\ UNCHANGED <<cache, clusters, cur_block_num, host, net>>
-----------------------------------------------------------------------------
(* Downloads *)

NeedsBlock ==
    \/ InRw /\ NoCluster /\ ~IsCached(BlockNum)
    \/ /\ host = "init" /\ to_prefetch # <<>> /\ Len(tab_block) < GroupLen
       /\ ~IsCached(Head(to_prefetch))

\* One iteration of the loop of bf_add_block that frees blocks.
Evict ==
    /\ NeedsBlock /\ MustEvict
    /\ \E i \in Positions :
         /\ Evictable(i) /\ \A j \in i + 1 .. Len(cached_blocks) : ~Evictable(j)
         /\ cached_blocks' = RemoveAt(cached_blocks, i)
         /\ heap' = [heap EXCEPT ![cached_blocks[i]] = NULL]
    /\ UNCHANGED <<clusters, call, cur_block_num, rw, host, net>>

\* bf_start_load_prefetch_group, bf_start_load_block called by bf_init_onload:
\* a block already in the cache is not requested.
PrefetchBlock ==
    /\ host = "init" /\ to_prefetch # <<>> /\ Len(tab_block) < GroupLen
    /\ \/ /\ \E i \in Positions : FindBlock(i, Head(to_prefetch))
          /\ tab_block' = Append(tab_block, NULL)
          /\ UNCHANGED heap
       \/ /\ ~IsCached(Head(to_prefetch))
          /\ \E p \in Addr : /\ AddBlock(p, Head(to_prefetch))
                             /\ tab_block' = Append(tab_block, p)
    /\ to_prefetch' = Tail(to_prefetch)
    /\ UNCHANGED <<clusters, call, cur_block_num, rw, host, inflight>>

PrefetchSend ==
    /\ host = "init" /\ tab_block # <<>>
    /\ Len(tab_block) = GroupLen \/ to_prefetch = <<>>
    /\ inflight' = IF \E i \in 1 .. Len(tab_block) : tab_block[i] # NULL
                   THEN inflight \cup {tab_block} ELSE inflight
    /\ tab_block' = <<>>
    /\ UNCHANGED <<cache, clusters, call, cur_block_num, rw, host, to_prefetch>>

\* The virtual machine is started.
InitDone ==
    /\ host = "init" /\ to_prefetch = <<>> /\ tab_block = <<>>
    /\ host' = "run"
    /\ UNCHANGED <<cache, clusters, call, cur_block_num, rw, net>>

\* The data of a download arrive, in any order (bf_read_onload is the case of a
\* single block).
Onload ==
    /\ host = "run" /\ rw = "no"
    /\ \E t \in inflight : inflight' = inflight \ {t} /\ tab_block' = t
    /\ host' = "onload"
    /\ UNCHANGED <<cache, clusters, call, cur_block_num, rw, to_prefetch>>

\* Faulty: bf_update_block does not continue the request.
UpdateBlockOnly ==
    /\ host = "onload" /\ rw = "no" /\ tab_block # <<>>
    /\ LET p == Head(tab_block)
       IN  heap' = IF p = NULL THEN heap
                   ELSE [heap EXCEPT ![p].state = "loaded"]
    /\ tab_block' = Tail(tab_block)
    /\ UNCHANGED <<cached_blocks, clusters, call, cur_block_num, rw, host,
                   to_prefetch, inflight>>

\* bf_update_block, called for each block of the group that was requested.
UpdateBlock ==
    /\ host = "onload" /\ rw = "no" /\ tab_block # <<>>
    /\ LET p == Head(tab_block)
       IN  IF p = NULL
           THEN UNCHANGED <<heap, rw>>
           ELSE /\ heap' = [heap EXCEPT ![p].state = "loaded"]
                /\ rw' = IF heap[p].block_num = cur_block_num
                         THEN "async" ELSE "no"
    /\ tab_block' = Tail(tab_block)
    /\ UNCHANGED <<cached_blocks, clusters, call, cur_block_num, host,
                   to_prefetch, inflight>>

CallbackReturns ==
    /\ host = "cb" /\ rw = "no"
    /\ host' = "onload"
    /\ UNCHANGED <<cache, clusters, call, cur_block_num, rw, net>>

OnloadReturns ==
    /\ host = "onload" /\ rw = "no" /\ tab_block = <<>>
    /\ host' = "run"
    /\ UNCHANGED <<cache, clusters, call, cur_block_num, rw, net>>

\* The download fails: the program exits.
LoadError ==
    /\ host = "run" /\ rw = "no" /\ inflight # {}
    /\ host' = "exit"
    /\ UNCHANGED <<cache, clusters, call, cur_block_num, rw, net>>

\* What the program does by itself, once it has begun.
Step ==
    \/ RwCluster \/ RwWait \/ RwAllocCluster \/ RwRead \/ RwStartLoad \/ RwEnd
    \/ Evict \/ PrefetchBlock \/ PrefetchSend \/ InitDone
    \/ UpdateBlock \/ CallbackReturns \/ OnloadReturns

Answer == Onload \/ LoadError

Next == Submit \/ Step \/ Answer

Spec == Init /\ [][Next]_vars

\* The program goes on with what it has begun, and a download is answered in
\* the end; the client need not make requests.
FairSpec == Spec /\ WF_vars(Step) /\ WF_vars(Answer)
-----------------------------------------------------------------------------
(* Properties *)

Tabs == inflight \cup {tab_block}

DataTypeOK ==
    /\ clusters \in [Cluster -> ClusterData \cup {NULL}]
    /\ request \in Request \cup {NoRequest}
    /\ sector_index \in 0 .. Len(request.data)
    /\ io_buf \in Seq(Value \cup {Garbage}) /\ Len(io_buf) = Len(request.data)

CacheTypeOK ==
    /\ cached_blocks \in Seq(Addr)
    /\ heap \in [Addr -> CachedBlock \cup {NULL}]
    /\ cur_block_num \in Block \cup {-1}
    /\ to_prefetch \in Seq(Block)
    /\ tab_block \in Seq(Addr \cup {NULL})
    /\ inflight \subseteq Seq(Addr \cup {NULL})

\* The variables have the types of the fields of BlockDeviceHTTP.
TypeOK ==
    /\ DataTypeOK
    /\ CacheTypeOK
    /\ busy \in BOOLEAN
    /\ rw \in {"no", "sync", "async"}
    /\ host \in {"init", "run", "onload", "cb", "exit"}

\* bf_update_block is given a pointer that fs_wget or a PrefetchGroupRequest
\* has kept since the download began: the block must not have been freed
\* (bf_add_block frees blocks, also from the callback run between two blocks of
\* a group), must still be loading (the assertion of bf_update_block), and no
\* other download may be going to fill it.
DownloadsAreLive ==
    \A t \in Tabs : \A i \in 1 .. Len(t) :
        t[i] # NULL =>
            /\ heap[t[i]] # NULL /\ heap[t[i]].state = "loading"
            /\ \A u \in Tabs : \A j \in 1 .. Len(u) :
                 u[j] = t[i] => u = t /\ j = i

\* A request that waits, waits for the block that cur_block_num names, which is
\* cached and loading; and when no request waits the arrival of no block runs
\* bf_rw_async1, although cur_block_num is left behind by writes: the callback
\* of a request would be called twice.
WaitsForCurrentBlock ==
    rw = "no" =>
        (busy <=> \E p \in Addr : /\ heap[p] # NULL
                                  /\ heap[p].block_num = cur_block_num
                                  /\ heap[p].state = "loading")

\* bf_add_block leaves the cache within n_cached_blocks_max unless every block
\* in it is being loaded.
CacheBounded ==
    [][Len(cached_blocks') > Len(cached_blocks)
         => \/ Len(cached_blocks') <= CacheMax
            \/ \A i \in 1 .. Len(cached_blocks') :
                 heap'[cached_blocks'[i]].state = "loading"]_vars

\* Every request is completed, unless a download fails and the program exits:
\* no request waits for a block that nobody is downloading.
RequestEnds == busy ~> (~busy \/ host = "exit")

\* The disk the client sees: its own data where a cluster has been allocated,
\* the image elsewhere.
DiskContents ==
    [s \in Sector |->
        IF clusters[s \div SectorsPerCluster] = NULL THEN Image[s]
        ELSE clusters[s \div SectorsPerCluster][s % SectorsPerCluster]]

\* The cache, the downloads and the clusters are invisible to the client: it
\* sees a disk that moves the sectors of one request at a time and completes
\* each request once.
BlockDevice == INSTANCE Disk WITH
    Contents <- Image, disk <- DiskContents, buffer <- io_buf,
    moved <- sector_index
ImplementsDisk == BlockDevice!Spec

\* block_net.c:66 says that "modified data is stored per cluster": a read takes
\* a sector whose cluster has been allocated from this cluster.
ReadsModifiedData ==
    [][\A i \in 1 .. Len(io_buf) :
         LET s == request.sector_num + i - 1
         IN  ~request.is_write /\ sector_index < i /\ i <= sector_index'
               => io_buf'[i] = DiskContents[s]]_vars
=============================================================================
