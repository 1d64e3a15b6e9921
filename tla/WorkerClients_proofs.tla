------------------------- MODULE WorkerClients_proofs -------------------------
(***************************************************************************)
(* With one worker every request is made as its note demands, for any      *)
(* notes and any authorisations.  The run worker_clients_race shows that   *)
(* two workers are too many.                                               *)
(***************************************************************************)
EXTENDS WorkerClients, TLAPS

\* The option that starts one download thread.
OneWorker == \A v, w \in Workers : v = w

\* What a client may be configured for.
Clients == [token  : {a.token : a \in Auths},
            shard  : {a.shard : a \in Auths} \cup {HomeShard[a.token] : a \in Auths},
            access : {a.access : a \in Auths} \cup {"OWN"}]

\* Types, as far as they matter.
Shapes ==
    /\ todo \subseteq Notes
    /\ wpc \in [Workers -> {"idle", "lookup", "setShard", "setAccess", "cache", "request",
                            "answer"}]
    /\ heap \in Seq(Clients)
    /\ job = [w \in Workers |-> job[w]]
    /\ cache = [w \in Workers |-> cache[w]]
    /\ call = [w \in Workers |-> call[w]]
    /\ \A w \in Workers : wpc[w] # "idle" => job[w] \in Notes

\* Cached clients are configured for what they are found under.
CacheOK ==
    \A w \in Workers : \A id \in DOMAIN cache[w] :
        cache[w][id] \in DOMAIN heap /\ heap[cache[w][id]] = Proper(id)

\* The attribute points to a client of the note at hand: a new one, which is
\* not in the cache while it is configured, or one that is ready.
CurrentOK ==
    \A w \in Workers :
        LET a == Auth[job[w]] IN
        /\ wpc[w] \in {"setShard", "setAccess", "cache", "request", "answer"}
              => noteClient \in DOMAIN heap
        /\ wpc[w] \in {"setShard", "setAccess"}
              => \A id \in DOMAIN cache[w] : cache[w][id] # noteClient
        /\ wpc[w] = "setShard" => heap[noteClient] = [token  |-> a.token,
                                                      shard  |-> HomeShard[a.token],
                                                      access |-> "OWN"]
        /\ wpc[w] = "setAccess" => heap[noteClient] = [token  |-> a.token,
                                                       shard  |-> Proper(a).shard,
                                                       access |-> "OWN"]
        /\ wpc[w] \in {"cache", "request", "answer"} => heap[noteClient] = Proper(a)
        /\ wpc[w] = "answer" => call[w] = [client |-> noteClient, token |-> Proper(a).token,
                                           shard |-> Proper(a).shard]

IInv == Shapes /\ CacheOK /\ CurrentOK /\ RightClient

\* No client is there before the first note.
LEMMA InitInv == Init => IInv
BY DEF Init, IInv, Shapes, CacheOK, CurrentOK, RightClient

\* A note is taken.
LEMMA Takes == ASSUME OneWorker, IInv, NEW w \in Workers, Take(w) PROVE IInv'
<1>1. Shapes'
  BY DEF Take, Goto, IInv, Shapes
<1>2. CacheOK' /\ RightClient'
  BY DEF Take, IInv, CacheOK, RightClient
<1>3. wpc'[w] = "lookup" /\ \A v \in Workers : v = w
  BY DEF OneWorker, Take, Goto, IInv, Shapes
<1>4. CurrentOK'
  BY <1>3 DEF CurrentOK
<1> QED
  BY <1>1, <1>2, <1>4 DEF IInv

\* A cached client is ready; a new one is in nobody's cache.
LEMMA LooksUp == ASSUME OneWorker, IInv, NEW w \in Workers, Lookup(w) PROVE IInv'
<1> DEFINE a == Auth[job[w]]
<1>1. wpc[w] = "lookup" /\ job[w] \in Notes
  BY DEF Lookup, IInv, Shapes
<1>2. CASE ClientId(a) \in DOMAIN cache[w]
  BY <1>1, <1>2 DEF OneWorker, Lookup, Goto, ClientId, IInv, Shapes, CacheOK, CurrentOK, RightClient
<1>3. CASE ClientId(a) \notin DOMAIN cache[w]
  <2> DEFINE c == [token |-> a.token, shard |-> HomeShard[a.token], access |-> "OWN"]
  <2>1. heap' = Append(heap, c) /\ noteClient' = Len(heap')
    BY <1>3 DEF Lookup
  <2>2. c \in Clients /\ heap \in Seq(Clients)
    BY <1>1 DEF Clients, Auths, IInv, Shapes
  <2> HIDE DEF c
  <2>3. /\ heap' \in Seq(Clients) /\ Len(heap') = Len(heap) + 1
        /\ Len(heap') \in DOMAIN heap' /\ Len(heap') \notin DOMAIN heap
        /\ heap'[Len(heap')] = c
        /\ \A i \in DOMAIN heap : i \in DOMAIN heap' /\ heap'[i] = heap[i]
    BY <2>2, <2>1
  <2>4. Shapes'
    BY <1>1, <1>3, <2>3 DEF Lookup, Goto, IInv, Shapes
  <2>5. CacheOK'
    BY <1>3, <2>3 DEF Lookup, IInv, Shapes, CacheOK
  <2>6. CurrentOK'
    BY <1>1, <1>3, <2>1, <2>3 DEF OneWorker, Lookup, Goto, IInv, Shapes, CacheOK, CurrentOK, c
  <2> QED
    BY <1>3, <2>4, <2>5, <2>6 DEF Lookup, IInv, RightClient
<1> QED
  BY <1>2, <1>3

\* The new client is moved to the shard of the note.
LEMMA SetsShard == ASSUME OneWorker, IInv, NEW w \in Workers, SetShard(w) PROVE IInv'
<1>1. wpc[w] = "setShard" /\ noteClient \in DOMAIN heap
  BY DEF SetShard, IInv, CurrentOK
<1>2. job[w] \in Notes
  BY <1>1 DEF IInv, Shapes
<1>3. DOMAIN heap' = DOMAIN heap /\ \A i \in DOMAIN heap : i # noteClient => heap'[i] = heap[i]
  BY DEF SetShard, IInv, Shapes
<1>4. heap'[noteClient] = [token  |-> Auth[job[w]].token,
                           shard  |-> Proper(Auth[job[w]]).shard,
                           access |-> "OWN"]
  <2>1. /\ heap[noteClient] = [token  |-> Auth[job[w]].token,
                               shard  |-> HomeShard[Auth[job[w]].token],
                               access |-> "OWN"]
        /\ heap \in Seq(Clients)
    BY <1>1 DEF IInv, Shapes, CurrentOK
  <2>2. CASE Auth[job[w]].shard = NoShard
    BY <1>1, <2>1, <2>2 DEF SetShard, Proper
  <2>3. CASE Auth[job[w]].shard # NoShard
    <3>1. heap' = [heap EXCEPT ![noteClient].shard = Auth[job[w]].shard]
      BY <2>3 DEF SetShard
    <3> QED
      BY <1>1, <2>1, <2>3, <3>1 DEF Proper
  <2> QED
    BY <2>2, <2>3
<1>5. heap' \in Seq(Clients)
  <2>1. heap'[noteClient] \in Clients
    BY <1>4, <1>2 DEF Clients, Proper, Auths
  <2>2. heap \in Seq(Clients)
    BY DEF IInv, Shapes
  <2>3. CASE heap' = heap
    BY <2>2, <2>3
  <2>4. CASE heap' # heap
    <3>1. heap' = [heap EXCEPT ![noteClient] = heap'[noteClient]]
      BY <1>1, <2>2, <2>4 DEF SetShard
    <3> QED
      BY <1>1, <2>1, <2>2, <3>1
  <2> QED
    BY <2>3, <2>4
<1>6. Shapes'
  BY <1>3, <1>5 DEF SetShard, Goto, IInv, Shapes
<1>7. CacheOK'
  BY <1>1, <1>3 DEF OneWorker, SetShard, IInv, Shapes, CacheOK, CurrentOK
<1>8. CurrentOK'
  BY <1>1, <1>3, <1>4 DEF OneWorker, SetShard, Goto, IInv, Shapes, CurrentOK
<1> QED
  BY <1>6, <1>7, <1>8 DEF SetShard, IInv, RightClient

\* The new client gets the access of the note, and is ready.
LEMMA SetsAccess == ASSUME OneWorker, IInv, NEW w \in Workers, SetAccess(w) PROVE IInv'
<1>1. wpc[w] = "setAccess" /\ noteClient \in DOMAIN heap
  BY DEF SetAccess, IInv, CurrentOK
<1>2. job[w] \in Notes
  BY <1>1 DEF IInv, Shapes
<1>3. DOMAIN heap' = DOMAIN heap /\ \A i \in DOMAIN heap : i # noteClient => heap'[i] = heap[i]
  BY DEF SetAccess, IInv, Shapes
<1>4. heap'[noteClient] = Proper(Auth[job[w]])
  BY <1>1 DEF SetAccess, Proper, IInv, Shapes, CurrentOK
<1>5. heap' \in Seq(Clients)
  <2>1. heap'[noteClient] \in Clients
    BY <1>4, <1>2 DEF Clients, Proper, Auths
  <2>2. heap \in Seq(Clients)
    BY DEF IInv, Shapes
  <2>3. heap' = [heap EXCEPT ![noteClient] = heap'[noteClient]]
    BY <1>1, <2>2 DEF SetAccess
  <2> QED
    BY <1>1, <2>1, <2>2, <2>3
<1>6. Shapes'
  BY <1>3, <1>5 DEF SetAccess, Goto, IInv, Shapes
<1>7. CacheOK'
  BY <1>1, <1>3 DEF OneWorker, SetAccess, IInv, Shapes, CacheOK, CurrentOK
<1>8. CurrentOK'
  BY <1>1, <1>3, <1>4 DEF OneWorker, SetAccess, Goto, IInv, Shapes, CurrentOK
<1> QED
  BY <1>6, <1>7, <1>8 DEF SetAccess, IInv, RightClient

\* What is cached is ready.
LEMMA Caches == ASSUME OneWorker, IInv, NEW w \in Workers, CacheClient(w) PROVE IInv'
<1>1. wpc[w] = "cache" /\ noteClient \in DOMAIN heap /\ heap[noteClient] = Proper(Auth[job[w]])
  BY DEF CacheClient, IInv, CurrentOK
<1>2. cache'[w] = [a \in DOMAIN cache[w] \cup {Auth[job[w]]} |->
                      IF a = Auth[job[w]] THEN noteClient ELSE cache[w][a]]
  BY DEF CacheClient, ClientId, IInv, Shapes
<1>3. Shapes'
  BY DEF CacheClient, Goto, IInv, Shapes
<1>4. CacheOK'
  BY <1>1, <1>2 DEF OneWorker, CacheClient, IInv, CacheOK
<1>5. CurrentOK'
  BY <1>1 DEF OneWorker, CacheClient, Goto, IInv, Shapes, CurrentOK
<1> QED
  BY <1>3, <1>4, <1>5 DEF CacheClient, IInv, RightClient

\* A request is sent through the client that the attribute points to.
LEMMA Requests == ASSUME OneWorker, IInv, NEW w \in Workers, Request(w) PROVE IInv'
<1>1. wpc[w] = "request" /\ noteClient \in DOMAIN heap /\ heap[noteClient] = Proper(Auth[job[w]])
  BY DEF Request, IInv, CurrentOK
<1>2. Shapes'
  BY DEF Request, Goto, IInv, Shapes
<1>3. CurrentOK'
  BY <1>1 DEF OneWorker, Request, Goto, IInv, Shapes, CurrentOK
<1> QED
  BY <1>2, <1>3 DEF Request, IInv, CacheOK, RightClient

\* An answer is read through the client it was asked for with, and an attempt
\* that failed leaves the client as it is.
LEMMA Answers == ASSUME OneWorker, IInv, NEW w \in Workers, Answer(w) \/ AttemptFails(w) PROVE IInv'
<1>1. wpc[w] = "answer" /\ heap[noteClient] = Proper(Auth[job[w]])
  BY DEF Answer, AttemptFails, IInv, CurrentOK
<1>2. call[w].client = noteClient /\ call[w].token = Proper(Auth[job[w]]).token
      /\ call[w].shard = Proper(Auth[job[w]]).shard
  <2>1. call[w] = [client |-> noteClient, token |-> Proper(Auth[job[w]]).token,
                   shard |-> Proper(Auth[job[w]]).shard]
    BY <1>1 DEF IInv, CurrentOK
  <2> QED
    BY <2>1
<1>3. Shapes'
  BY DEF Answer, AttemptFails, Goto, IInv, Shapes
<1>4. CurrentOK'
  BY <1>1 DEF OneWorker, Answer, AttemptFails, Goto, IInv, Shapes, CurrentOK
<1>5. RightClient'
  <2>1. CASE Answer(w)
    <3> DEFINE u == [note |-> job[w], token |-> call[w].token, shard |-> call[w].shard,
                     access |-> heap[call[w].client].access]
    <3>1. uses' = uses \cup {u}
      BY <2>1 DEF Answer
    <3>2. [token |-> u.token, shard |-> u.shard, access |-> u.access] = Proper(Auth[u.note])
      BY <1>1, <1>2 DEF Proper
    <3> HIDE DEF u
    <3> QED
      BY <3>1, <3>2 DEF IInv, RightClient
  <2>2. CASE AttemptFails(w)
    BY <2>2 DEF AttemptFails, IInv, RightClient
  <2> QED
    BY <2>1, <2>2
<1> QED
  BY <1>3, <1>4, <1>5 DEF Answer, AttemptFails, IInv, CacheOK

\* IInv holds in every reachable state, if there is one worker.
THEOREM Invariance == ASSUME OneWorker PROVE Spec => []IInv
<1>1. OneWorker
  OBVIOUS
<1>2. IInv /\ [Next]_vars => IInv'
  <2> SUFFICES ASSUME IInv, [Next]_vars PROVE IInv'
    OBVIOUS
  <2>1. CASE UNCHANGED vars
    BY <2>1 DEF vars, IInv, Shapes, CacheOK, CurrentOK, RightClient
  <2>2. CASE Next
    BY <1>1, <2>2, Takes, LooksUp, SetsShard, SetsAccess, Caches, Requests, Answers
       DEF Next, Worker
  <2> QED
    BY <2>1, <2>2
<1> QED
  BY <1>2, InitInv, PTL DEF Spec

\* RightClient: with one worker every note is asked for with its own token, on
\* its own shard, and read with its own access.
THEOREM AsksRight == ASSUME OneWorker PROVE Spec => []RightClient
<1>1. Spec => []IInv
  BY Invariance
<1>2. IInv => RightClient
  BY DEF IInv
<1> QED
  BY <1>1, <1>2, PTL

\* CacheExact: with one worker a cached client stays what it was cached for.
THEOREM CachesExactly == ASSUME OneWorker PROVE Spec => []CacheExact
<1>1. Spec => []IInv
  BY Invariance
<1>2. IInv => CacheExact
  BY DEF IInv, CacheOK, CacheExact, ClientId
<1> QED
  BY <1>1, <1>2, PTL
============================================================================
