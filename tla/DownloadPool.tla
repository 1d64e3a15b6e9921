---------------------------- MODULE DownloadPool ----------------------------
(***************************************************************************)
(* _download_scheduled_notes: a ThreadPoolExecutor whose workers download  *)
(* notes, the main thread that stores finished downloads one by one, the   *)
(* memory gate between them (NoteClientMemoryManager) and the abort path.  *)
(*                                                                         *)
(* The gate has two locks.  memory_lock guards the counter only; each use  *)
(* of it is one step here.  memory_cond is held from the test of the       *)
(* counter until wait() has put the worker to sleep, so who holds it is    *)
(* part of the state.  A thread that needs it for one step only takes it   *)
(* in a state where it is free.                                            *)
(***************************************************************************)
EXTENDS Integers, FiniteSetsExt

CONSTANTS Workers, Notes,
          Size,          \* get_note_size of each note
          memory_limit,
          ChunkSize,     \* THREAD_CHUNK_SIZE
          MaxFailures,   \* bound on downloads that end with an exception
          MaxInterrupts, \* bound on interrupts and failing transactions
          None

ASSUME PoolAssumption ==
    /\ Size \in [Notes -> Nat]
    /\ memory_limit \in Nat \ {0} /\ ChunkSize \in Nat \ {0}
    /\ None \notin Notes /\ None \notin Workers
    /\ MaxFailures \in Nat /\ MaxInterrupts \in Nat

VARIABLES
    unsubmitted,  \* notes of later chunks
    queue,        \* submitted, not taken by a worker; any order, as the notes
                  \* come from a query without an order
    wpc,          \* step of each worker; "idle" waits for work
    job,          \* the note each worker is on
    future,       \* state of the Future of each submitted note
    memory,       \* NoteClientMemoryManager.memory
    condOwner,    \* the worker that holds memory_cond over several steps
    stop,         \* NoteClientWorker.stop
    mpc,          \* step of the main thread
    hand,         \* the note the main thread is storing
    stored,       \* notes written by add_note
    failures, interrupts

pool == <<queue, wpc, job, future, memory, condOwner>>
main == <<unsubmitted, stop, mpc, hand, stored>>
vars == <<pool, main, failures, interrupts>>

Init ==
    /\ unsubmitted = Notes /\ queue = {}
    /\ wpc = [w \in Workers |-> "idle"] /\ job = [w \in Workers |-> None]
    /\ future = [n \in Notes |-> "none"]
    /\ memory = 0 /\ condOwner = None
    /\ stop = FALSE /\ mpc = "submit" /\ hand = None /\ stored = {}
    /\ failures = 0 /\ interrupts = 0

----------------------------------------------------------------------------
(* A worker: one call of NoteClientWorker.                                 *)

Goto(w, step) == wpc' = [wpc EXCEPT ![w] = step]

\* The call is over: its Future gets the outcome, the thread is free again.
Return(w, outcome) ==
    /\ future' = [future EXCEPT ![job[w]] = outcome]
    /\ job' = [job EXCEPT ![w] = None]
    /\ Goto(w, "idle")

Take(w) ==
    /\ wpc[w] = "idle"
    /\ \E n \in queue : /\ queue' = queue \ {n}
                        /\ job' = [job EXCEPT ![w] = n]
    /\ Goto(w, "gate")
    /\ UNCHANGED <<future, memory, condOwner, main, failures, interrupts>>

\* Fault: a full memory lets one more note in.
CheckMemoryLate(w) ==
    /\ wpc[w] = "gate" /\ condOwner = None
    /\ IF memory <= memory_limit
       THEN Goto(w, "checkStop") /\ UNCHANGED condOwner
       ELSE Goto(w, "goingToSleep") /\ condOwner' = w
    /\ UNCHANGED <<queue, job, future, memory, main, failures, interrupts>>

\* wait_for tests the counter with memory_cond held; it keeps it if the test
\* fails, to go to sleep.
CheckMemory(w) ==
    /\ wpc[w] = "gate" /\ condOwner = None
    /\ IF memory < memory_limit
       THEN Goto(w, "checkStop") /\ UNCHANGED condOwner
       ELSE Goto(w, "goingToSleep") /\ condOwner' = w
    /\ UNCHANGED <<queue, job, future, memory, main, failures, interrupts>>

Sleep(w) ==
    /\ wpc[w] = "goingToSleep"
    /\ Goto(w, "asleep")
    /\ condOwner' = None
    /\ UNCHANGED <<queue, job, future, memory, main, failures, interrupts>>

\* Fault: a worker that is told to stop returns without an outcome.
CheckStopQuietly(w) ==
    /\ wpc[w] = "checkStop"
    /\ Goto(w, IF stop THEN "idle" ELSE "download")
    /\ UNCHANGED <<queue, job, future, memory, condOwner, main, failures, interrupts>>

CheckStop(w) ==
    /\ wpc[w] = "checkStop"
    /\ IF stop
       THEN Return(w, "stopped")
       ELSE Goto(w, "download") /\ UNCHANGED <<job, future>>
    /\ UNCHANGED <<queue, memory, condOwner, main, failures, interrupts>>

\* Fault: a note that arrives over the limit is not counted.
DownloadedUncounted(w) ==
    /\ wpc[w] = "download"
    /\ memory' = IF memory < memory_limit THEN memory + Size[job[w]] ELSE memory
    /\ Return(w, "done")
    /\ UNCHANGED <<queue, condOwner, main, failures, interrupts>>

\* download_note returns the note, and add_note_size counts it before the
\* Future is done.
Downloaded(w) ==
    /\ wpc[w] = "download"
    /\ memory' = memory + Size[job[w]]
    /\ Return(w, "done")
    /\ UNCHANGED <<queue, condOwner, main, failures, interrupts>>

\* download_note gives the note up ("skipped", a NoteDownloadException) or
\* raises what ends the run ("fatal", the rate limit).
DownloadFails(w) ==
    /\ wpc[w] = "download" /\ failures < MaxFailures
    /\ failures' = failures + 1
    /\ \E outcome \in {"skipped", "fatal"} : Return(w, outcome)
    /\ UNCHANGED <<queue, memory, condOwner, main, interrupts>>

Worker(w) == \/ Take(w) \/ CheckMemory(w) \/ Sleep(w) \/ CheckStop(w)
             \/ Downloaded(w)

----------------------------------------------------------------------------
(* The main thread.                                                        *)

WakeAll == wpc' = [w \in Workers |-> IF wpc[w] = "asleep" THEN "gate" ELSE wpc[w]]

\* The next chunk of notes, or no more: leaving the "with" block of the
\* executor waits for its threads.
Submit ==
    /\ mpc = "submit"
    /\ IF unsubmitted = {}
       THEN mpc' = "shutdown" /\ UNCHANGED <<unsubmitted, queue, future>>
       ELSE /\ \E S \in SUBSET unsubmitted :
                  /\ S = unsubmitted \/ Cardinality(S) = ChunkSize
                  /\ Cardinality(S) <= ChunkSize /\ S # {}
                  /\ unsubmitted' = unsubmitted \ S
                  /\ queue' = queue \cup S
                  /\ future' = [n \in Notes |-> IF n \in S THEN "pending" ELSE future[n]]
            /\ mpc' = "consume"
    /\ UNCHANGED <<wpc, job, memory, condOwner, stop, hand, stored, failures, interrupts>>

\* Fault: the downloads that are done with a skipped note are dropped too.
ConsumeOrDrop(n) ==
    /\ mpc = "consume" /\ future[n] \in {"done", "skipped", "fatal", "stopped"}
    /\ future' = [m \in Notes |->
           CASE m = n -> IF future[n] = "skipped" THEN "givenUp" ELSE "handled"
             [] m # n /\ future[n] = "skipped" /\ future[m] = "done" -> "handled"
             [] OTHER -> future[m]]
    /\ CASE future[n] = "done"    -> mpc' = "store" /\ hand' = n
         [] future[n] = "skipped" -> UNCHANGED <<mpc, hand>>
         [] OTHER                 -> mpc' = "abort" /\ UNCHANGED hand
    /\ UNCHANGED <<queue, wpc, job, memory, condOwner, unsubmitted, stop, stored,
                   failures, interrupts>>

\* as_completed yields a Future that is done; a skipped note is only logged,
\* any other exception aborts.
Consume(n) ==
    /\ mpc = "consume" /\ future[n] \in {"done", "skipped", "fatal", "stopped"}
    /\ future' = [future EXCEPT ![n] = IF @ = "skipped" THEN "givenUp" ELSE "handled"]
    /\ CASE future[n] = "done"    -> mpc' = "store" /\ hand' = n
         [] future[n] = "skipped" -> UNCHANGED <<mpc, hand>>
         [] OTHER                 -> mpc' = "abort" /\ UNCHANGED hand
    /\ UNCHANGED <<queue, wpc, job, memory, condOwner, unsubmitted, stop, stored,
                   failures, interrupts>>

\* as_completed is exhausted.
ChunkDone ==
    /\ mpc = "consume"
    /\ \A n \in Notes : future[n] \in {"none", "handled", "givenUp"}
    /\ mpc' = "submit"
    /\ UNCHANGED <<pool, unsubmitted, stop, hand, stored, failures, interrupts>>

AddNote ==
    /\ mpc = "store"
    /\ stored' = stored \cup {hand}
    /\ mpc' = "subtract"
    /\ UNCHANGED <<pool, unsubmitted, stop, hand, failures, interrupts>>

\* sub_note_size: the counter first, then memory_cond to wake the sleepers.
Subtract ==
    /\ mpc = "subtract"
    /\ memory' = memory - Size[hand]
    /\ mpc' = "notify"
    /\ UNCHANGED <<queue, wpc, job, future, condOwner, unsubmitted, stop, hand, stored,
                   failures, interrupts>>

\* Fault: notify() in place of notify_all().
NotifyOne ==
    /\ mpc = "notify" /\ condOwner = None
    /\ LET asleep == {w \in Workers : wpc[w] = "asleep"} IN
       IF memory < memory_limit /\ asleep # {}
       THEN \E w \in asleep : Goto(w, "gate") ELSE UNCHANGED wpc
    /\ mpc' = "consume" /\ hand' = None
    /\ UNCHANGED <<queue, job, future, memory, condOwner, unsubmitted, stop, stored,
                   failures, interrupts>>

Notify ==
    /\ mpc = "notify" /\ condOwner = None
    /\ IF memory < memory_limit THEN WakeAll ELSE UNCHANGED wpc
    /\ mpc' = "consume" /\ hand' = None
    /\ UNCHANGED <<queue, job, future, memory, condOwner, unsubmitted, stop, stored,
                   failures, interrupts>>

\* An interrupt, or a failing transaction, while the main thread is inside
\* the "try": the handler runs.
Interrupt ==
    /\ mpc \in {"consume", "store", "subtract", "notify"} /\ interrupts < MaxInterrupts
    /\ interrupts' = interrupts + 1
    /\ mpc' = "abort"
    /\ UNCHANGED <<pool, unsubmitted, stop, hand, stored, failures>>

\* The futures are submitted before the "try": an interrupt that comes after
\* some of the chunk's notes are in the queue leaves the "with" block at once.
InterruptSubmit ==
    /\ mpc = "submit" /\ interrupts < MaxInterrupts
    /\ interrupts' = interrupts + 1
    /\ \E S \in SUBSET unsubmitted :
          /\ Cardinality(S) <= ChunkSize
          /\ unsubmitted' = unsubmitted \ S
          /\ queue' = queue \cup S
          /\ future' = [n \in Notes |-> IF n \in S THEN "pending" ELSE future[n]]
    /\ mpc' = "unwind"
    /\ UNCHANGED <<wpc, job, memory, condOwner, stop, hand, stored, failures>>

SetStop ==
    /\ mpc = "abort"
    /\ stop' = TRUE /\ mpc' = "reset"
    /\ UNCHANGED <<pool, unsubmitted, hand, stored, failures, interrupts>>

\* reset_memory, in two steps as well.
ResetMemory ==
    /\ mpc = "reset"
    /\ memory' = 0 /\ mpc' = "resetNotify"
    /\ UNCHANGED <<queue, wpc, job, future, condOwner, unsubmitted, stop, hand, stored,
                   failures, interrupts>>

\* After the notification the handler waits at most 30 seconds for the first
\* exception and lets the exception leave the "with" block.
ResetNotify ==
    /\ mpc = "resetNotify" /\ condOwner = None
    /\ WakeAll
    /\ mpc' = "unwind"
    /\ UNCHANGED <<queue, job, future, memory, condOwner, unsubmitted, stop, hand, stored,
                   failures, interrupts>>

\* shutdown(wait=True): the workers drain the queue, nothing is cancelled.
\* The run ends normally ("shutdown") or with the exception ("unwind").
Shutdown ==
    /\ mpc \in {"shutdown", "unwind"}
    /\ queue = {} /\ \A w \in Workers : wpc[w] = "idle"
    /\ mpc' = IF mpc = "unwind" THEN "aborted" ELSE "finished"
    /\ UNCHANGED <<pool, unsubmitted, stop, hand, stored, failures, interrupts>>

MainThread == \/ Submit \/ (\E n \in Notes : Consume(n)) \/ ChunkDone
              \/ AddNote \/ Subtract \/ Notify
              \/ SetStop \/ ResetMemory \/ ResetNotify \/ Shutdown

Next == \/ \E w \in Workers : Worker(w)
        \/ \E w \in Workers : DownloadFails(w)
        \/ MainThread
        \/ Interrupt
        \/ InterruptSubmit

Spec == Init /\ [][Next]_vars

\* Threads run; a download ends (connections and retries are bounded).
FairSpec == Spec /\ (\A w \in Workers : WF_vars(Worker(w))) /\ WF_vars(MainThread)

----------------------------------------------------------------------------
(* Properties.                                                             *)

TypeOK ==
    /\ unsubmitted \subseteq Notes /\ queue \subseteq Notes /\ stored \subseteq Notes
    /\ wpc \in [Workers -> {"idle", "gate", "goingToSleep", "asleep", "checkStop",
                            "download"}]
    /\ job \in [Workers -> Notes \cup {None}]
    /\ \A w \in Workers : job[w] = None <=> wpc[w] = "idle"
    /\ future \in [Notes -> {"none", "pending", "done", "skipped", "fatal", "stopped",
                             "handled", "givenUp"}]
    /\ memory \in Int
    /\ condOwner \in Workers \cup {None}
    /\ stop \in BOOLEAN
    /\ mpc \in {"submit", "consume", "store", "subtract", "notify", "abort", "reset",
                "resetNotify", "shutdown", "unwind", "finished", "aborted"}
    /\ hand \in Notes \cup {None}
    /\ failures \in Nat /\ interrupts \in Nat

\* Between downloads and stores the counter is exactly the size of the notes
\* that are in memory and not written: no note is counted twice or forgotten
\* by the two threads that update it.
MemoryAccounted ==
    mpc \in {"submit", "consume", "store", "subtract", "notify", "shutdown", "finished"} =>
        memory = MapThenSumSet(LAMBDA n : Size[n], {n \in Notes : future[n] = "done"})
                 + IF mpc \in {"store", "subtract"} THEN Size[hand] ELSE 0

MaxSize == Max({Size[n] : n \in Notes})

\* The gate bounds the counter: what is counted exceeds the limit by less
\* than one largest note per worker, also while a run is being aborted.
MemoryBounded ==
    memory <= memory_limit - 1 + Cardinality(Workers) * MaxSize

\* A run that ends normally has written every note or given it up with a
\* warning, over all chunks.
NoneLost ==
    mpc = "finished" => \A n \in Notes : n \in stored \/ future[n] = "givenUp"

\* Without an abort the run ends: no worker sleeps at the gate for ever
\* because the notification that would wake it was missed.
Completes == <>(mpc = "finished") \/ <>(mpc \in {"abort", "unwind"})

\* README.md:123, "You can interrupt this process at any point": an interrupt
\* or an error while downloads are consumed and stored ends the run.  (Not so
\* either while a chunk is being submitted: nothing tells the workers to stop.)
AbortEnds == mpc = "abort" ~> mpc = "aborted"
============================================================================
