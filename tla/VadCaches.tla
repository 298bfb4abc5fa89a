------------------------------ MODULE VadCaches ------------------------------
(***************************************************************************)
(* The caches of the voice edge's speech detector: pools of model sessions *)
(* for the configurations in use, and in each pool the detector's memory   *)
(* of the audio streams it heard last.  A request looks its pool up under  *)
(* one lock and uses it later under another; in between the pool may leave *)
(* the cache, and lives on for as long as a request holds it.  A pool has  *)
(* several slots and a stream's key chooses one: the slot below stands for *)
(* each.                                                                   *)
(***************************************************************************)
EXTENDS Integers, FiniteSets, SequencesExt

CONSTANTS FileConfigs,    \* a model file with the sizes of its pool
          BundledConfigs, \* sizes of the pool of the bundled model
          MaxPools,       \* MAX_SILERO_FILE_SESSION_POOLS
          Streams,        \* stream keys, each with a sample rate
          NoStream,       \* a request without a stream key
          MaxStreams,     \* streams remembered by a slot
          Requests,
          Asks(_),        \* the configurations and streams a request asks for
          MaxListed       \* bound on the length of a slot's list

Configs == FileConfigs \cup BundledConfigs

ASSUME VadAssumption ==
    /\ MaxPools \in Nat \ {0} /\ MaxStreams \in Nat \ {0} /\ MaxListed \in Nat
    /\ FileConfigs \cap BundledConfigs = {}
    /\ IsFiniteSet(Streams) /\ IsFiniteSet(Requests)
    /\ NoStream \notin Streams
    /\ \A q \in Requests : Asks(q) \subseteq Configs \X (Streams \cup {NoStream})

\* Enough for the pools that the cache or a request holds.
Pools == 1..(MaxPools + 1 + Cardinality(Requests))

NoPool == 0

VARIABLES bundled, \* the pool of the bundled model, or NoPool
          files,   \* the pools of model files that are cached
          fileLru, \* their configurations, the one used last at the end
          pool,    \* the contents of each pool
          request, \* request[q]: the pool it holds and its stream
          heard,   \* heard[i]: what pool i remembers, heard last at the end
          failed   \* failed[i]: the listed streams that pool i failed to process

vadVars == <<bundled, files, fileLru, pool, request, heard, failed>>

Empty(c) == [config |-> {c}, loaded |-> FALSE, streams |-> {}, lru |-> <<>>]

Gone == [config |-> {}, loaded |-> FALSE, streams |-> {}, lru |-> <<>>]

Idle == [pool |-> NoPool, stream |-> NoStream]

PoolState == [config : SUBSET Configs, loaded : BOOLEAN, streams : SUBSET Streams, lru : Seq(Streams)]

VadTypeOK ==
    /\ bundled \in Pools \cup {NoPool}
    /\ files \subseteq Pools
    /\ fileLru \in Seq(FileConfigs) /\ Len(fileLru) <= MaxPools
    /\ pool \in [Pools -> PoolState]
    /\ \A i \in Pools : Len(pool[i].lru) <= MaxListed
    /\ request \in [Requests -> [pool : Pools \cup {NoPool}, stream : Streams \cup {NoStream}]]
    /\ heard \in [Pools -> Seq(Streams)]
    /\ failed \in [Pools -> SUBSET Streams]

VadInit ==
    /\ bundled = NoPool
    /\ files = {}
    /\ fileLru = <<>>
    /\ pool = [i \in Pools |-> Gone]
    /\ request = [q \in Requests |-> Idle]
    /\ heard = [i \in Pools |-> <<>>]
    /\ failed = [i \in Pools |-> {}]

-----------------------------------------------------------------------------
\* What VecDeque::retain keeps.
Kept(seq, K) ==
    LET kept[n \in 0..Len(seq)] ==
            IF n = 0 THEN <<>>
            ELSE IF seq[n] \in K THEN Append(kept[n - 1], seq[n]) ELSE kept[n - 1]
    IN kept[Len(seq)]

\* Faulty variant of Touched: the earlier entry stays.
ListedAgain(lru, k) == Append(lru, k)

\* touch_file_session_key, touch_stream_key
Touched(lru, k) == Append(Kept(lru, ToSet(lru) \ {k}), k)

Held(i) == i \in files \cup {bundled} \cup {request[q].pool : q \in Requests}

\* A pool that nothing holds any more is dropped with what it remembers.
Dropped(p) == [i \in Pools |-> IF Held(i)' THEN p[i] ELSE Gone]

DropGhosts(h, f) ==
    /\ heard' = [i \in Pools |-> IF Held(i)' THEN h[i] ELSE <<>>]
    /\ failed' = [i \in Pools |-> IF Held(i)' THEN f[i] ELSE {}]

Take(q, i, s) == request' = [request EXCEPT ![q] = [pool |-> i, stream |-> s]]

\* A new pool takes the first free number.
Fresh(i) == ~Held(i) /\ \A j \in Pools : j < i => Held(j)

NewPool(i, c) ==
    /\ pool' = Dropped([pool EXCEPT ![i] = Empty(c)])
    /\ DropGhosts(heard, failed)

OfConfig(c) == {i \in files : pool[i].config = {c}}

\* SileroSessionCache.pool for a model file that is cached.
FindFilePool(q, c, s) ==
    \E i \in OfConfig(c) :
        /\ fileLru' = Touched(fileLru, c)
        /\ Take(q, i, s)
        /\ UNCHANGED <<bundled, files, pool, heard, failed>>

\* ... and for one that is not: with the cache full, the pool that was used
\* longest ago makes room.
MakeFilePool(q, c, s) ==
    /\ OfConfig(c) = {}
    /\ LET full == Cardinality(files) >= MaxPools /\ fileLru # <<>>
           left == IF full THEN files \ OfConfig(Head(fileLru)) ELSE files
       IN \E i \in Pools :
             /\ Fresh(i)
             /\ files' = left \cup {i}
             /\ fileLru' = Append(IF full THEN Tail(fileLru) ELSE fileLru, c)
             /\ Take(q, i, s)
             /\ UNCHANGED bundled
             /\ NewPool(i, c)

\* The pool of the bundled model is replaced when a request asks for other
\* sizes.
TakeBundledPool(q, c, s) ==
    /\ UNCHANGED <<files, fileLru>>
    /\ \/ /\ bundled # NoPool /\ pool[bundled].config = {c}
          /\ Take(q, bundled, s)
          /\ UNCHANGED <<bundled, pool, heard, failed>>
       \/ /\ bundled # NoPool => pool[bundled].config # {c}
          /\ \E i \in Pools :
                /\ Fresh(i)
                /\ bundled' = i
                /\ Take(q, i, s)
                /\ NewPool(i, c)

LookUp(q) ==
    /\ request[q] = Idle
    /\ \E ask \in Asks(q) :
         \/ ask[1] \in FileConfigs /\ FindFilePool(q, ask[1], ask[2])
         \/ ask[1] \in FileConfigs /\ MakeFilePool(q, ask[1], ask[2])
         \/ ask[1] \in BundledConfigs /\ TakeBundledPool(q, ask[1], ask[2])

-----------------------------------------------------------------------------
\* The streams are forgotten in the order of the list until there is room or
\* the list is at its end.
RoomAfter(p) ==
    CHOOSE n \in 0..Len(p.lru) :
        LET left(k) == Cardinality(p.streams \ ToSet(SubSeq(p.lru, 1, k)))
        IN /\ left(n) < MaxStreams \/ n = Len(p.lru)
           /\ \A k \in 0..(n - 1) : left(k) >= MaxStreams

\* Faulty variant of WithStream: a stream that is found keeps its place.
WithStreamInPlace(p, s) ==
    IF s \in p.streams THEN p
    ELSE LET n == RoomAfter(p)
         IN [p EXCEPT !.streams = (@ \ ToSet(SubSeq(p.lru, 1, n))) \cup {s},
                      !.lru = Append(SubSeq(@, n + 1, Len(@)), s)]

\* ensure_stream_state
WithStream(p, s) ==
    IF s \in p.streams THEN [p EXCEPT !.lru = Touched(@, s)]
    ELSE LET n == RoomAfter(p)
         IN [p EXCEPT !.streams = (@ \ ToSet(SubSeq(p.lru, 1, n))) \cup {s},
                      !.lru = Append(SubSeq(@, n + 1, Len(@)), s)]

Answer(q, p, f) ==
    LET i == request[q].pool
        s == request[q].stream
    IN /\ request' = [request EXCEPT ![q] = Idle]
       /\ UNCHANGED <<bundled, files, fileLru>>
       /\ pool' = Dropped([pool EXCEPT ![i] = p])
       /\ DropGhosts([heard EXCEPT ![i] =
                         IF s = NoStream THEN @
                         ELSE Kept(Touched(@, s), p.streams)],
                     [failed EXCEPT ![i] = (@ \cup f) \cap ToSet(p.lru)])

\* The model cannot be loaded: the request fails before its stream is looked
\* for.
LoadFails(q) ==
    /\ request[q].pool # NoPool
    /\ ~pool[request[q].pool].loaded
    /\ request' = [request EXCEPT ![q] = Idle]
    /\ UNCHANGED <<bundled, files, fileLru>>
    /\ pool' = Dropped(pool)
    /\ DropGhosts(heard, failed)

\* SileroSessionPool.process: a request without a key leaves no memory.  The
\* memory of a stream that fails is lost; the list keeps its key.
Process(q) ==
    /\ request[q].pool # NoPool
    /\ LET s == request[q].stream
           p == [pool[request[q].pool] EXCEPT !.loaded = TRUE]
           w == WithStream(p, s)
       IN \/ s = NoStream /\ Answer(q, p, {})
          \/ s # NoStream /\ Len(w.lru) <= MaxListed /\ Answer(q, w, {})
          \/ /\ s # NoStream /\ Len(w.lru) <= MaxListed
             /\ Answer(q, [w EXCEPT !.streams = @ \ {s}], {s})

VadNext == \E q \in Requests : LookUp(q) \/ LoadFails(q) \/ Process(q)

VadSpec == VadInit /\ [][VadNext]_vadVars

-----------------------------------------------------------------------------
\* What is cached is bounded, and can be found again to make room for other
\* things: the list of pools names every cached pool once, the list of a slot
\* every stream it remembers (failures leave further keys in it).
CachesAreListed ==
    /\ Cardinality(files) <= MaxPools
    /\ IsInjective(fileLru)
    /\ {pool[i].config : i \in files} = {{c} : c \in ToSet(fileLru)}
    /\ Cardinality(files) = Len(fileLru)
    /\ \A i \in Pools : /\ Cardinality(pool[i].streams) <= MaxStreams
                        /\ pool[i].streams \subseteq ToSet(pool[i].lru)

Before(seq, s, t) ==
    \E j, k \in DOMAIN seq : j < k /\ seq[j] = s /\ seq[k] = t

\* Room is made at the expense of the stream heard longest ago, over requests
\* that look a pool up and use it in any order, and over pools that come and
\* go; only a stream that has failed may be forgotten early
\* (ensure_stream_state, touch_stream_key).
StreamsLeaveOldestFirst ==
    [][\A i \in Pools : Held(i)' =>
         \A s \in pool[i].streams \ (pool'[i].streams \cup failed'[i]) :
             \A t \in pool[i].streams \cap pool'[i].streams : Before(heard[i], s, t)]_vadVars
=============================================================================
