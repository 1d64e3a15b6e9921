---------------------------- MODULE WorkerClients ----------------------------
(***************************************************************************)
(* Which client a download goes through.  Every worker thread keeps its    *)
(* own cache of clients (threading.local), one per authorisation; the      *)
(* client of the note at hand is kept in NoteClientWorker._note_client, an *)
(* attribute of the one object that all threads call.                      *)
(*                                                                         *)
(* A step is what a thread does between two reads or writes of what the    *)
(* threads share: the attribute, and the clients themselves once the       *)
(* attribute has pointed to them.                                          *)
(***************************************************************************)
EXTENDS Naturals, Sequences, FiniteSets

CONSTANTS Workers, Notes,
          Auth,         \* NotebookAuth of each note (OWN for one without)
          HomeShard,    \* the shard named in a token
          NoShard,      \* the empty shard of NoteStoreAccess.OWN
          MaxAttempts   \* retry_count of download_note

Auths == {Auth[n] : n \in Notes}

ASSUME AuthAssumption == \A a \in Auths : DOMAIN a = {"token", "shard", "access"}

VARIABLES
    todo,        \* notes no worker has taken
    wpc, job,    \* step and note of each worker
    attempts,    \* attempts each worker has made for its note
    heap,        \* all EvernoteClientSync objects, in order of creation
    noteClient,  \* self._note_client, an index of heap, 0 before the first
    cache,       \* per worker: authorisation -> index of heap
    call,        \* per worker: the client whose get_note is running and what
                 \* the request was sent with
    uses         \* how each finished request was made: note, token, shard, access

vars == <<todo, wpc, job, attempts, heap, noteClient, cache, call, uses>>

NoCall == [client |-> 0, token |-> NoShard, shard |-> NoShard]

Init ==
    /\ todo = Notes
    /\ wpc = [w \in Workers |-> "idle"]
    /\ job = [w \in Workers |-> CHOOSE n \in Notes : TRUE]
    /\ attempts = [w \in Workers |-> 0]
    /\ heap = <<>> /\ noteClient = 0
    /\ cache = [w \in Workers |-> <<>>]
    /\ call = [w \in Workers |-> NoCall]
    /\ uses = {}

Goto(w, step) == wpc' = [wpc EXCEPT ![w] = step]

Take(w) ==
    /\ wpc[w] = "idle"
    /\ \E n \in todo : todo' = todo \ {n} /\ job' = [job EXCEPT ![w] = n]
    /\ attempts' = [attempts EXCEPT ![w] = 0]
    /\ Goto(w, "lookup")
    /\ UNCHANGED <<heap, noteClient, cache, call, uses>>

\* Fault: clients are told apart by their token only.
ClientIdByToken(a) == a.token

\* The client_id of the cache: shard, token and access.
ClientId(a) == a

\* A cached client, or a new one for the token: it starts on the token's own
\* shard and with access OWN.
Lookup(w) ==
    LET a == Auth[job[w]] IN
    /\ wpc[w] = "lookup"
    /\ IF ClientId(a) \in DOMAIN cache[w]
       THEN /\ noteClient' = cache[w][ClientId(a)]
            /\ Goto(w, "request") /\ UNCHANGED heap
       ELSE /\ heap' = Append(heap, [token |-> a.token, shard |-> HomeShard[a.token],
                                     access |-> "OWN"])
            /\ noteClient' = Len(heap')
            /\ Goto(w, "setShard")
    /\ UNCHANGED <<todo, job, attempts, cache, call, uses>>

\* Fault: only clients of linked notebooks are moved to another shard.
SetShardIfLinked(w) ==
    /\ wpc[w] = "setShard"
    /\ heap' = IF Auth[job[w]].access = "LINKED_NOTEBOOK"
               THEN [heap EXCEPT ![noteClient].shard = Auth[job[w]].shard]
               ELSE heap
    /\ Goto(w, "setAccess")
    /\ UNCHANGED <<todo, job, attempts, noteClient, cache, call, uses>>

\* The three statements that configure "self._note_client" and cache it.
SetShard(w) ==
    /\ wpc[w] = "setShard"
    /\ heap' = IF Auth[job[w]].shard # NoShard
               THEN [heap EXCEPT ![noteClient].shard = Auth[job[w]].shard]
               ELSE heap
    /\ Goto(w, "setAccess")
    /\ UNCHANGED <<todo, job, attempts, noteClient, cache, call, uses>>

SetAccess(w) ==
    /\ wpc[w] = "setAccess"
    /\ heap' = [heap EXCEPT ![noteClient].access = Auth[job[w]].access]
    /\ Goto(w, "cache")
    /\ UNCHANGED <<todo, job, attempts, noteClient, cache, call, uses>>

CacheClient(w) ==
    /\ wpc[w] = "cache"
    /\ LET id == ClientId(Auth[job[w]]) IN
       cache' = [cache EXCEPT ![w] =
                    [a \in DOMAIN @ \cup {id} |-> IF a = id THEN noteClient ELSE @[a]]]
    /\ Goto(w, "request")
    /\ UNCHANGED <<todo, job, attempts, heap, noteClient, call, uses>>

\* An attempt of download_note: getNote goes to the note store of the client
\* that the attribute points to now.
Request(w) ==
    /\ wpc[w] = "request"
    /\ attempts' = [attempts EXCEPT ![w] = @ + 1]
    /\ call' = [call EXCEPT ![w] = [client |-> noteClient,
                                    token  |-> heap[noteClient].token,
                                    shard  |-> heap[noteClient].shard]]
    /\ Goto(w, "answer")
    /\ UNCHANGED <<todo, job, heap, noteClient, cache, uses>>

\* The answer: get_note looks at the client's access to map the tags.
Answer(w) ==
    /\ wpc[w] = "answer"
    /\ uses' = uses \cup {[note   |-> job[w],
                           token  |-> call[w].token,
                           shard  |-> call[w].shard,
                           access |-> heap[call[w].client].access]}
    /\ Goto(w, "idle")
    /\ call' = [call EXCEPT ![w] = NoCall]
    /\ UNCHANGED <<todo, job, attempts, heap, noteClient, cache>>

\* Bad data: try again while attempts are left.  An EDAMSystemException, or
\* the last attempt: give the note up.
AttemptFails(w) ==
    /\ wpc[w] = "answer"
    /\ \/ attempts[w] < MaxAttempts /\ Goto(w, "request")
       \/ Goto(w, "idle")
    /\ call' = [call EXCEPT ![w] = NoCall]
    /\ UNCHANGED <<todo, job, attempts, heap, noteClient, cache, uses>>

Worker(w) == \/ Take(w) \/ Lookup(w) \/ SetShard(w) \/ SetAccess(w)
             \/ CacheClient(w) \/ Request(w) \/ Answer(w) \/ AttemptFails(w)

Next == \E w \in Workers : Worker(w)

Spec == Init /\ [][Next]_vars

----------------------------------------------------------------------------
(* Properties.                                                             *)

\* How a note that is authorised by a has to be asked for.
Proper(a) == [token  |-> a.token,
              shard  |-> IF a.shard = NoShard THEN HomeShard[a.token] ELSE a.shard,
              access |-> a.access]

\* Every answer that becomes a note of the backup was asked for with the
\* token and on the shard of that note, and its tags are read with that
\* note's access ("How this NoteStore client is being used for downloads",
\* evernote_client_util.py:25), whatever the other threads do.
RightClient ==
    \A u \in uses : [token |-> u.token, shard |-> u.shard, access |-> u.access]
                        = Proper(Auth[u.note])

\* A thread's cache never serves, for one authorisation, a client that is
\* configured for another.
CacheExact ==
    \A w \in Workers : \A n \in Notes :
        ClientId(Auth[n]) \in DOMAIN cache[w]
            => heap[cache[w][ClientId(Auth[n])]] = Proper(Auth[n])
============================================================================
