--------------------------- MODULE CacheBackends ---------------------------
(***************************************************************************)
(* The backends behind CacheBackend and AsyncCacheBackend, as their        *)
(* callers see them: each method is a sequence of commands for one store   *)
(* (a server, or a dict under a lock), each command is atomic, and between *)
(* two commands of one call other callers have theirs executed.            *)
(*                                                                         *)
(* Time is in ticks.  Unit is what the store counts expiry in: a           *)
(* millisecond for Redis, a second for Memcached.  `now' is the clock of   *)
(* the store; a client of Memcached stamps and judges its envelopes by its *)
(* own clock, which is Ahead[c] ticks ahead.                               *)
(***************************************************************************)
EXTENDS Integers, SequencesExt

CONSTANTS
    Clients,
    Keys,
    Foreign,      \* keys that others keep on the same server, outside key_prefix
    Kinds,        \* the backends to look at
    Lifetimes,    \* values of the ttl argument, in ticks
    NoTTL,        \* ttl=None
    Never,        \* no deadline
    Unit, Month,  \* ticks per unit; _MAX_RELATIVE_TTL in units
    Ahead, Skew,  \* of the clients' clocks; the most by which they differ
    DefaultTTL, MaxSize,  \* of the backends that live in the process
    Epoch,        \* when the model begins
    MaxTime, MaxCalls     \* bounds

ASSUME BackendConstants ==
    /\ Kinds \subseteq {"redis", "async_redis", "memcached", "django", "memory", "null", "asyncio"}
    /\ Lifetimes \subseteq Int /\ NoTTL \notin Int /\ Never \notin Int
    /\ Keys \cap Foreign = {} /\ IsFiniteSet(Keys) /\ IsFiniteSet(Foreign)
    /\ Unit \in Nat \ {0} /\ Month \in Nat /\ Epoch \in Nat /\ Epoch > Unit * Month
    /\ Skew \in Nat /\ Ahead \in [Clients -> 0..Skew]
    /\ DefaultTTL \in Int /\ MaxSize \in Nat \ {0}

VARIABLES
    kind,     \* which backend this is; chosen first
    now,
    store,    \* the entries, in the order of a dict
    todo,     \* the commands of a call that were not executed yet
    scanned,  \* keys that the pages of a running clear() have named
    writes,   \* history: entries written so far
    clearing, \* the clients in clear()
    begun,    \* history: `writes' when a client's clear() began
    cleared,  \* history: `begun' of the last clear() that has finished
    made      \* calls so far

backendVars == <<kind, now, store, todo, scanned, clearing, writes, begun, cleared, made>>

IsRedis == kind \in {"redis", "async_redis"}
Locked  == kind \in {"null", "asyncio"}

----------------------------------------------------------------------------
(* TTLs.                                                                   *)

\* _ttl_seconds(), _get_timeout(): what ttl means to this backend, in ticks.
Seconds(ttl) ==
    IF Locked THEN Never
    ELSE IF ttl # NoTTL THEN ttl
    ELSE IF kind = "memory" THEN DefaultTTL ELSE Never

Lapsed(ttl) == Seconds(ttl) # Never /\ Seconds(ttl) <= 0

Ceil(t) == (t + Unit - 1) \div Unit
AtLeast(n, m) == IF n < m THEN m ELSE n

\* _ttl_ms(): whole milliseconds, and never zero.
Milliseconds(ttl) == AtLeast(Seconds(ttl) \div Unit, 1)

\* Wrong: a long TTL is sent as it is.
AlwaysRelative(c, ttl) == AtLeast(Ceil(Seconds(ttl)), 1)

\* _memcached_expire(): relative up to a month, a point in time beyond.
Expire(c, ttl) ==
    IF Seconds(ttl) > Month * Unit THEN Ceil(now + Ahead[c] + Seconds(ttl))
    ELSE AtLeast(Ceil(Seconds(ttl)), 1)

\* How Memcached reads that number.
Deadline(expire) == IF expire > Month THEN expire * Unit ELSE now + expire * Unit

\* What put means for the store, from the moment it is executed.
Until(cmd) ==
    IF cmd.ttl = Never THEN Never
    ELSE CASE IsRedis            -> now + cmd.expire * Unit
           [] kind = "memcached" -> Deadline(cmd.expire)
           [] OTHER              -> now + cmd.ttl

\* A client's command for setting keys.
Put(c, ks, ttl) ==
    [op |-> "put", keys |-> ks, ttl |-> Seconds(ttl),
     bulk |-> Len(ks) > 1, asked |-> now,
     expire   |-> IF Seconds(ttl) = Never THEN 0
                  ELSE IF IsRedis THEN Milliseconds(ttl)
                  ELSE IF kind = "memcached" THEN Expire(c, ttl) ELSE 0,
     envelope |-> IF Seconds(ttl) = Never \/ kind # "memcached" THEN Never
                  ELSE now + Ahead[c] + Seconds(ttl)]

----------------------------------------------------------------------------
(* The store.                                                              *)

Alive(e) == e.until = Never \/ now < e.until

\* _unpack(): the deadline in the envelope, by the reader's clock.
Valid(e, c) == e.envelope = Never \/ now + Ahead[c] < e.envelope

Readable(e, c) == Alive(e) /\ Valid(e, c)

\* What is at these places, of the first n entries.
Choosing(s, places) ==
    LET chosen[n \in 0..Len(s)] ==
            IF n = 0 THEN <<>>
            ELSE IF n \in places THEN Append(chosen[n - 1], s[n]) ELSE chosen[n - 1]
    IN  chosen

Chosen(s, places) == Choosing(s, places)[Len(s)]

Dropped(s, ks) == Chosen(s, {i \in DOMAIN s : s[i].key \notin ks})
Purged(s)      == Chosen(s, {i \in DOMAIN s : Alive(s[i])})
Held(s)        == {s[i].key : i \in DOMAIN s}

Written(cmd, k) ==
    [key |-> k, seq |-> writes + 1, asked |-> cmd.asked, at |-> now, ttl |-> cmd.ttl,
     until |-> Until(cmd), envelope |-> cmd.envelope]

AllWritten(cmd, ks) == [i \in DOMAIN ks |-> Written(cmd, ks[i])]

\* Wrong: a key that is there is added again.
Doubled(s, cmd) == s \o AllWritten(cmd, cmd.keys)

\* A key that is there keeps its place in a dict; the others follow in order.
Replaced(s, cmd) ==
    [i \in DOMAIN s |-> IF s[i].key \in Range(cmd.keys) THEN Written(cmd, s[i].key) ELSE s[i]]
    \o AllWritten(cmd, Chosen(cmd.keys, {i \in DOMAIN cmd.keys : cmd.keys[i] \notin Held(s)}))

\* MemoryCacheBackend.set(): purge, append, drop the oldest.
InMemory(e) ==
    LET s == Append(Dropped(Purged(store), {e.key}), e)
    IN  IF Len(s) > MaxSize THEN Tail(s) ELSE s

\* AsyncIOCacheBackend: set() makes room for a new key, set_many() does not.
RoomInAsyncio(cmd) ==
    IF kind = "asyncio" /\ ~cmd.bulk /\ Len(store) >= MaxSize /\ cmd.keys[1] \notin Held(store)
    THEN Tail(store) ELSE store

AfterPut(cmd) ==
    IF kind = "memory" THEN InMemory(Written(cmd, cmd.keys[1]))
    ELSE Replaced(RoomInAsyncio(cmd), cmd)

\* A hit moves its entry to the end of the OrderedDict; an expired one goes.
AfterGet(cmd) ==
    IF kind # "memory" THEN store
    ELSE Dropped(store, {cmd.keys[1]})
         \o Chosen(store, {i \in DOMAIN store : store[i].key = cmd.keys[1] /\ Alive(store[i])})

----------------------------------------------------------------------------
(* The methods, as the commands they send.                                 *)

Get(ks)    == [op |-> "get", keys |-> ks]
Del(ks)    == [op |-> "del", keys |-> ks]
Set(ks, t) == [op |-> "set", keys |-> ks, ttl |-> t]
Each(C(_), ks) == [i \in DOMAIN ks |-> C(<<ks[i]>>)]

EachSet(ks, t) == Each(LAMBDA k : Set(k, t), ks)

\* set(): nothing is written with a lifetime that is over.
SetOne(k, t) == IF Lapsed(t) THEN <<Del(<<k>>)>> ELSE <<Set(<<k>>, t)>>

\* clear() of Redis, which has no command that ends at a prefix.
Clear == <<[op |-> "scan"]>>
Flush == <<[op |-> "flush"]>>

\* The methods for one key, and for many as a loop over them.
OneKey(k, t)    == {<<Get(<<k>>)>>, <<Del(<<k>>)>>, SetOne(k, t)}
InTurn(ks, t)   == {Each(Get, ks), Each(Del, ks), IF Lapsed(t) THEN Each(Del, ks) ELSE EachSet(ks, t)}

\* MGET and DEL take many keys; set_many() is a pipeline without a transaction.
RedisCalls(k, ks, t) ==
    OneKey(k, t) \cup {<<Get(ks)>>, <<Del(ks)>>, IF Lapsed(t) THEN <<Del(ks)>> ELSE EachSet(ks, t), Clear}

\* The asynchronous client sends the same commands, awaiting each.
AsyncRedisCalls(k, ks, t) == RedisCalls(k, ks, t)

MemcachedCalls(k, ks, t) == OneKey(k, t) \cup InTurn(ks, t) \cup {Flush}

\* Django's get_many(), set_many() and delete_many() go through the keys.
DjangoCalls(k, ks, t) == OneKey(k, t) \cup InTurn(ks, t) \cup {Flush}

\* size() purges before it counts.
MemoryCalls(k, ks, t) == OneKey(k, t) \cup InTurn(ks, t) \cup {Flush, <<[op |-> "purge"]>>}

\* Every method is one look at the dict, or one update(), under the lock.
NullCalls(k, ks, t) == OneKey(k, t) \cup {<<Get(ks)>>, <<Del(ks)>>, <<Set(ks, t)>>, Flush}

AsyncioCalls(k, ks, t) == OneKey(k, t) \cup {<<Get(ks)>>, <<Del(ks)>>, <<Set(ks, t)>>, Flush}

Calls(k, ks, t) ==
    CASE kind = "redis"       -> RedisCalls(k, ks, t)
      [] kind = "async_redis" -> AsyncRedisCalls(k, ks, t)
      [] kind = "memcached"   -> MemcachedCalls(k, ks, t)
      [] kind = "django"      -> DjangoCalls(k, ks, t)
      [] kind = "memory"      -> MemoryCalls(k, ks, t)
      [] kind = "null"        -> NullCalls(k, ks, t)
      [] kind = "asyncio"     -> AsyncioCalls(k, ks, t)

----------------------------------------------------------------------------
BackendInit ==
    /\ kind = "none"
    /\ now = Epoch
    /\ store = <<>>
    /\ todo = [c \in Clients |-> <<>>]
    /\ scanned = [c \in Clients |-> {}]
    /\ clearing = {}
    /\ writes = 0
    /\ begun = [c \in Clients |-> 0]
    /\ cleared = 0
    /\ made = 0

Stranger(k) ==
    [key |-> k, seq |-> 0, asked |-> Epoch, at |-> Epoch,
     ttl |-> Never, until |-> Never, envelope |-> Never]

\* The backend is configured; a Redis server may hold the keys of others.
Configure(k) ==
    /\ kind = "none"
    /\ kind' = k
    /\ store' = IF k \in {"redis", "async_redis"} THEN SetToSeq({Stranger(f) : f \in Foreign}) ELSE <<>>
    /\ UNCHANGED <<now, todo, scanned, clearing, writes, begun, cleared, made>>

Call(c) ==
    /\ kind # "none"
    /\ todo[c] = <<>>
    /\ made < MaxCalls
    /\ made' = made + 1
    /\ \E k \in Keys, t \in Lifetimes \cup {NoTTL} : \E call \in Calls(k, SetToSeq(Keys), t) :
          /\ todo' = [todo EXCEPT ![c] = call]
          /\ clearing' = IF call \in {Clear, Flush} THEN clearing \cup {c} ELSE clearing
          /\ begun' = IF call \in {Clear, Flush} THEN [begun EXCEPT ![c] = writes] ELSE begun
    /\ UNCHANGED <<kind, now, store, scanned, writes, cleared>>

\* Memcached: the client reads its clock, packs the value, and only then sends it.
Stamp(c) ==
    /\ kind = "memcached"
    /\ todo[c] # <<>> /\ Head(todo[c]).op = "set"
    /\ todo' = [todo EXCEPT ![c] = <<Put(c, Head(@).keys, Head(@).ttl)>> \o Tail(@)]
    /\ UNCHANGED <<kind, now, store, scanned, clearing, writes, begun, cleared, made>>

\* What becomes of a client's call once `rest' is left of it.
Goes(c, rest) ==
    /\ todo' = [todo EXCEPT ![c] = rest]
    /\ clearing' = IF rest = <<>> THEN clearing \ {c} ELSE clearing
    /\ cleared' = IF rest = <<>> /\ c \in clearing THEN AtLeast(cleared, begun[c]) ELSE cleared

Execute(c) ==
    /\ todo[c] # <<>>
    /\ LET first == Head(todo[c])
           cmd   == IF first.op = "set" THEN Put(c, first.keys, first.ttl) ELSE first
       IN  /\ first.op = "set" => kind # "memcached"
           /\ cmd.op # "scan"
           /\ store' = CASE cmd.op = "get"   -> AfterGet(cmd)
                         [] cmd.op = "put"   -> AfterPut(cmd)
                         [] cmd.op = "del"   -> Dropped(store, Range(cmd.keys))
                         [] cmd.op = "purge" -> Purged(store)
                         [] cmd.op = "flush" -> <<>>
           /\ writes' = IF cmd.op = "put" THEN writes + 1 ELSE writes
    /\ Goes(c, Tail(todo[c]))
    /\ UNCHANGED <<kind, now, scanned, begun, made>>

\* The escaped key_prefix of clear() names no one else's keys.
MatchesPrefix(k) == k \notin Foreign

\* Wrong: an empty page ends the loop.
StopAtEmpty(page, last) ==
    (IF page = {} THEN <<>> ELSE <<Del(SetToSeq(page))>>) \o (IF last \/ page = {} THEN <<>> ELSE Clear)

\* The rest of clear() after a page: delete its keys, go on unless the cursor is 0.
AfterPage(page, last) ==
    (IF page = {} THEN <<>> ELSE <<Del(SetToSeq(page))>>) \o (IF last THEN <<>> ELSE Clear)

\* SCAN: a page may hold any keys; over all pages, whatever was there all along.
Scan(c) ==
    /\ todo[c] # <<>> /\ Head(todo[c]).op = "scan"
    /\ LET matching == {e \in Range(store) : Alive(e) /\ MatchesPrefix(e.key)}
           allAlong == {e.key : e \in {e \in matching : e.seq <= begun[c]}}
       IN  \E page \in SUBSET {e.key : e \in matching}, last \in BOOLEAN :
             /\ last => allAlong \subseteq scanned[c] \cup page
             /\ scanned' = [scanned EXCEPT ![c] = IF last THEN {} ELSE @ \cup page]
             /\ Goes(c, AfterPage(page, last))
    /\ UNCHANGED <<kind, now, store, writes, begun, made>>

\* The client raises, before or after the server has done what it was sent.
Raise(c) ==
    /\ todo[c] # <<>>
    /\ IsRedis \/ kind \in {"memcached", "django"}
    /\ todo' = [todo EXCEPT ![c] = <<>>]
    /\ scanned' = [scanned EXCEPT ![c] = {}]
    /\ clearing' = clearing \ {c}
    /\ UNCHANGED <<kind, now, store, writes, begun, cleared, made>>

Pass ==
    /\ kind # "none"
    /\ now < MaxTime
    /\ now' = now + 1
    /\ UNCHANGED <<kind, store, todo, scanned, clearing, writes, begun, cleared, made>>

BackendNext ==
    \/ \E k \in Kinds : Configure(k)
    \/ \E c \in Clients : Call(c) \/ Stamp(c) \/ Execute(c) \/ Scan(c) \/ Raise(c)
    \/ Pass

----------------------------------------------------------------------------
BackendTypeOK ==
    /\ kind \in Kinds \cup {"none"}
    /\ Held(store) \subseteq Keys \cup Foreign
    /\ Cardinality(Held(store)) = Len(store)
    /\ \A c \in clearing : todo[c] # <<>>
    /\ \A c \in Clients : scanned[c] # {} => c \in clearing

\* How much earlier or later than asked an entry may go: what rounding to the
\* unit takes, or the difference between two clocks.
Tolerance ==
    IF IsRedis THEN Unit
    ELSE IF kind = "memcached" THEN Skew
    ELSE 0

\* An entry can be read by every client until its TTL is over and by none
\* afterwards, up to rounding and the clocks' difference: fractions of a unit,
\* Memcached's month and the envelope of _pack() and _unpack() included.
LivesForItsTTL ==
    \A i \in DOMAIN store, c \in Clients :
        LET e == store[i]
        IN  IF e.ttl = Never THEN Readable(e, c)
            ELSE /\ now >= e.at + e.ttl + Tolerance => ~Readable(e, c)
                 /\ now < e.asked + e.ttl - Tolerance => Readable(e, c)

\* What a clear() that returned left behind was written after it began, and it
\* took nothing that is not under its prefix: Redis is scanned page by page
\* while other clients write.
ClearIsExact ==
    /\ \A e \in Range(store) : Alive(e) /\ e.key \notin Foreign => e.seq > cleared \/ e.seq = 0
    /\ IsRedis => Foreign \subseteq Held(store)
=============================================================================
