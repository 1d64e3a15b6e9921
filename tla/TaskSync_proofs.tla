---------------------------- MODULE TaskSync_proofs ----------------------------
(***************************************************************************)
(* Proofs about TaskSync: the types, and that the saved time is honest.    *)
(***************************************************************************)
EXTENDS TaskSync, FiniteInduction

LogEntry == [item : Items, kind : {"update", "misplaced", "delete"}, updated : Nat]
            \cup [item : {None}, kind : {"other"}, updated : Nat]

Updates == UNION {[S -> Nat] : S \in SUBSET Items}

Chunk == [updated : Updates, expunged : SUBSET Items, last_timestamp : Nat]

Processing == {"expungeTasks", "expungeReminders", "addTasks", "addReminders", "setConnection"}

Typed ==
    /\ events \in Seq(LogEntry)
    /\ rows \in [Items -> 0 .. Len(events)]
    /\ \A x \in Items : rows[x] # 0 => events[rows[x]].item = x /\ events[rows[x]].kind = "update"
    /\ last_connection_tasks \in Nat
    /\ pc \in {"idle", "stream"} \cup Processing
    /\ pos \in 0 .. Len(events)
    /\ pc \in Processing => chunk \in Chunk
    /\ undecodable \subseteq DOMAIN events

\* Times do not decrease, and the saved one is not ahead of the log.
Ordered ==
    /\ \A i, j \in DOMAIN events : i <= j => events[i].updated <= events[j].updated
    /\ last_connection_tasks # 0 =>
          events # <<>> /\ last_connection_tasks <= events[Len(events)].updated + 1

\* The tables show event i, which is about what event k is about.
CoveredBy(k, i) ==
    Accepted(i) /\ events[i].item = events[k].item /\ Shows(events[k].item, i)

\* The tables show event k or a later one about the same task or reminder,
\* unless it may be lost.
Covered(k) == Accepted(k) => MayBeLost(k) \/ \E i \in k .. Len(events) : CoveredBy(k, i)

Saved == \A k \in DOMAIN events : events[k].updated < last_connection_tasks => Covered(k)

\* What was sent up to n is covered, and what lies beyond and is before the
\* saved time may be lost.
Sent(n) ==
    /\ \A k \in 1 .. n : Covered(k)
    /\ \A k \in n + 1 .. Len(events) :
          events[k].updated < last_connection_tasks => MayBeLost(k)

\* Event m is the last one about its item up to pos.
IsLast(m) ==
    /\ Accepted(m)
    /\ \A k \in m + 1 .. pos : ~ (Accepted(k) /\ events[k].item = events[m].item)

ExpungePending(x) ==
    /\ x \in chunk.expunged
    /\ pc \in IF x \in Tasks THEN {"expungeTasks"} ELSE {"expungeTasks", "expungeReminders"}

\* Every deletion of the message is one of the events after lo, every update
\* the last event about its item.
ChunkOf(lo) ==
    /\ \A x \in chunk.expunged : \E j \in lo + 1 .. pos : /\ events[j].item = x
                                                         /\ events[j].kind = "delete"
    /\ \A x \in DOMAIN chunk.updated :
          /\ chunk.updated[x] \in lo + 1 .. pos
          /\ IsLast(chunk.updated[x])
          /\ events[chunk.updated[x]].item = x
          /\ events[chunk.updated[x]].kind = "update"

\* The last event about an item is in the tables, or still to be written.
WrittenOrPending(m) ==
    LET x == events[m].item IN
    IF events[m].kind = "delete"
    THEN rows[x] = 0 \/ ExpungePending(x)
    ELSE \/ x \in DOMAIN chunk.updated
         \/ rows[x] = m /\ pc \notin {"expungeTasks", "expungeReminders"}

\* The message is what lies after lo.
Message(lo) ==
    /\ chunk.last_timestamp = events[pos].updated
    /\ ChunkOf(lo)
    /\ \A m \in lo + 1 .. pos : IsLast(m) => WrittenOrPending(m)
    /\ pc \in {"addReminders", "setConnection"} => DOMAIN chunk.updated \cap Tasks = {}
    /\ pc = "setConnection" => DOMAIN chunk.updated \cap Reminders = {}

Streamed ==
    /\ pc = "idle" => Saved
    /\ pc = "stream" => Sent(pos)
    /\ pc \in Processing => \E lo \in 0 .. pos - 1 : Sent(lo) /\ Message(lo)

IInv == Typed /\ Ordered /\ Streamed

----------------------------------------------------------------------------
(* The operators.                                                          *)

\* What a member of the log is.
LEMMA Entries ==
    ASSUME Typed
    PROVE  \A i \in DOMAIN events :
              /\ events[i] \in LogEntry
              /\ events[i].updated \in Nat
              /\ Accepted(i) => events[i].item \in Items
<1>1. \A i \in DOMAIN events : events[i] \in LogEntry
  BY DEF Typed
<1>2. \A e \in LogEntry : /\ e.updated \in Nat
                          /\ e.kind \in {"update", "delete"} => e.item \in Items
  BY DEF LogEntry
<1> QED
  BY <1>1, <1>2 DEF Accepted

\* LastAbout is the last accepted event about x, or 0.
LEMMA LastAboutIs ==
    ASSUME NEW x, NEW lo \in Nat, NEW hi \in Nat
    PROVE  /\ LastAbout(x, lo, hi) \in Nat
           /\ LastAbout(x, lo, hi) # 0 =>
                 /\ LastAbout(x, lo, hi) \in lo + 1 .. hi
                 /\ Accepted(LastAbout(x, lo, hi))
                 /\ events[LastAbout(x, lo, hi)].item = x
           /\ \A k \in lo + 1 .. hi :
                 Accepted(k) /\ events[k].item = x =>
                    k <= LastAbout(x, lo, hi) /\ LastAbout(x, lo, hi) # 0
<1> DEFINE T == {0} \cup {i \in (lo + 1) .. hi : Accepted(i) /\ events[i].item = x}
<1>1. T \in SUBSET Nat /\ T # {} /\ \A k \in T : k <= hi
  OBVIOUS
<1>2. \A k \in lo + 1 .. hi : Accepted(k) /\ events[k].item = x => k \in T /\ k > 0
  OBVIOUS
<1>3. \A m \in T : m # 0 => m \in lo + 1 .. hi /\ Accepted(m) /\ events[m].item = x
  OBVIOUS
<1>4. LastAbout(x, lo, hi) = Max(T)
  BY DEF LastAbout
<1> HIDE DEF T
<1>5. Max(T) \in T /\ \A k \in T : Max(T) >= k
  BY <1>1, MaxOfNats
<1>6. Max(T) \in Nat /\ T \subseteq Nat
  BY <1>1, <1>5
<1> QED
  BY <1>2, <1>3, <1>4, <1>5, <1>6

\* A log in order has a prefix of what is before a time; its length is what
\* Connect computes.
LEMMA Prefix ==
    ASSUME Typed, Ordered, NEW t \in Nat, NEW n,
           n = Cardinality({i \in DOMAIN events : events[i].updated < t})
    PROVE  /\ n \in 0 .. Len(events)
           /\ \A i \in DOMAIN events : events[i].updated < t <=> i <= n
<1> DEFINE S == {i \in DOMAIN events : events[i].updated < t}
           T == {0} \cup S
<1>1. Len(events) \in Nat /\ DOMAIN events = 1 .. Len(events)
  BY DEF Typed
<1>2. \A i \in DOMAIN events : events[i].updated \in Nat
  BY Entries
<1>3. T \in SUBSET Nat /\ T # {} /\ \A k \in T : k <= Len(events)
  BY <1>1
<1>4. \A i \in DOMAIN events : i \in S <=> events[i].updated < t
  OBVIOUS
<1>5. \A i, j \in DOMAIN events : j \in S /\ i <= j => i \in S
  BY <1>2 DEF Ordered
<1>6. S \subseteq DOMAIN events /\ n = Cardinality(S)
  OBVIOUS
<1>7. \A m \in T : m = 0 \/ m \in S
  OBVIOUS
<1>8. S \subseteq T
  OBVIOUS
<1> HIDE DEF S, T
<1>9. PICK m \in T : \A k \in T : m >= k
  BY <1>1, <1>3, MaxOfNats
<1>10. m \in 0 .. Len(events)
  BY <1>1, <1>3, <1>9
<1>11. S = 1 .. m
  <2>1. \A i \in S : i \in 1 .. m
    BY <1>1, <1>6, <1>8, <1>9, <1>10
  <2>2. ASSUME NEW i \in 1 .. m PROVE i \in S
    <3>1. m \in S /\ i \in DOMAIN events /\ m \in DOMAIN events /\ i <= m
      BY <1>1, <1>7, <1>9, <1>10
    <3> QED
      BY <1>5, <3>1
  <2> QED
    BY <2>1, <2>2
<1>12. Cardinality(1 .. m) = m
  BY <1>10, FS_Interval
<1>13. n = m
  BY <1>6, <1>11, <1>12
<1>14. \A i \in DOMAIN events : i \in S <=> i <= m
  BY <1>1, <1>10, <1>11
<1> QED
  BY <1>4, <1>10, <1>13, <1>14

\* The time of a message is that of its last event.
LEMMA LastTime ==
    ASSUME Typed, Ordered, NEW lo \in Nat, NEW hi \in lo + 1 .. Len(events)
    PROVE  Max({events[i].updated : i \in (lo + 1) .. hi}) = events[hi].updated
<1> DEFINE T == {events[i].updated : i \in (lo + 1) .. hi}
<1>1. /\ Len(events) \in Nat /\ DOMAIN events = 1 .. Len(events)
      /\ hi \in (lo + 1) .. hi /\ hi \in DOMAIN events
      /\ (lo + 1) .. hi \subseteq DOMAIN events
  BY DEF Typed
<1>2. \A i \in DOMAIN events : events[i].updated \in Nat
  BY Entries
<1>3. \A i \in (lo + 1) .. hi : events[i].updated <= events[hi].updated
  BY <1>1 DEF Ordered
<1>4. T \in SUBSET Nat /\ events[hi].updated \in T /\ \A k \in T : k <= events[hi].updated
  BY <1>1, <1>2, <1>3
<1> HIDE DEF T
<1>5. Max(T) \in T /\ \A k \in T : Max(T) >= k
  BY <1>1, <1>2, <1>4, MaxOfNats
<1>6. Max(T) \in Nat /\ Max(T) >= events[hi].updated /\ Max(T) <= events[hi].updated
  BY <1>4, <1>5
<1>7. events[hi].updated \in Nat
  BY <1>1, <1>2
<1> QED
  BY <1>6, <1>7 DEF T

\* The dictionaries of updates.
LEMMA UpdatesAre ==
    \A u \in Updates : /\ DOMAIN u \subseteq Items /\ \A x \in DOMAIN u : u[x] \in Nat
                       /\ \A S \in SUBSET DOMAIN u : [y \in S |-> u[y]] \in Updates
<1> SUFFICES ASSUME NEW u \in Updates
             PROVE  /\ DOMAIN u \subseteq Items /\ \A x \in DOMAIN u : u[x] \in Nat
                    /\ \A S \in SUBSET DOMAIN u : [y \in S |-> u[y]] \in Updates
  OBVIOUS
<1>1. PICK D \in SUBSET Items : u \in [D -> Nat]
  BY DEF Updates
<1>2. DOMAIN u = D /\ \A x \in D : u[x] \in Nat
  BY <1>1
<1>3. ASSUME NEW S \in SUBSET D PROVE [y \in S |-> u[y]] \in Updates
  <2>1. [y \in S |-> u[y]] \in [S -> Nat]
    BY <1>2
  <2>2. S \in SUBSET Items
    OBVIOUS
  <2> QED
    BY <2>1, <2>2 DEF Updates
<1> QED
  BY <1>2, <1>3

\* Whatever a run is doing, what is before the saved time is covered.
LEMMA SavedAlways ==
    ASSUME IInv
    PROVE  Saved
<1>1. Len(events) \in Nat /\ DOMAIN events = 1 .. Len(events)
  BY DEF IInv, Typed
<1>2. \A k \in DOMAIN events : MayBeLost(k) => Covered(k)
  BY DEF Covered
<1>3. ASSUME NEW n \in 0 .. Len(events), Sent(n) PROVE Saved
  <2>1. \A k \in DOMAIN events : k \in 1 .. n \/ k \in n + 1 .. Len(events)
    BY <1>1
  <2> QED
    BY <1>2, <1>3, <2>1 DEF Sent, Saved
<1>4. pos \in 0 .. Len(events) /\ pc \in {"idle", "stream"} \cup Processing
  BY DEF IInv, Typed
<1>5. \A lo \in 0 .. pos - 1 : lo \in 0 .. Len(events)
  BY <1>1, <1>4
<1> QED
  BY <1>3, <1>4, <1>5 DEF IInv, Streamed

----------------------------------------------------------------------------
(* The steps.                                                              *)

\* A step that leaves log and tables alone, or counts more events as not
\* decoded, keeps what is covered.
LEMMA Kept ==
    ASSUME events' = events, rows' = rows, undecodable \subseteq undecodable'
    PROVE  /\ \A k : Accepted(k)' <=> Accepted(k)
           /\ \A k : MayBeLost(k) => MayBeLost(k)'
           /\ \A k : Covered(k) => Covered(k)'
<1>1. \A k : Accepted(k)' <=> Accepted(k)
  BY DEF Accepted
<1>2. \A k : MayBeLost(k) => MayBeLost(k)'
  BY DEF MayBeLost
<1>3. \A k, i : CoveredBy(k, i)' <=> CoveredBy(k, i)
  BY <1>1 DEF CoveredBy, Shows
<1> QED
  BY <1>1, <1>2, <1>3 DEF Covered

\* Publish extends the log: what is there keeps its place, and a new event
\* before the saved time has the time of its predecessor.
LEMMA PublishKeeps ==
    ASSUME IInv, Publish
    PROVE  IInv'
<1>1. PICK e \in Event, tick \in {0, 1} :
         events' = Append(events, [item |-> e.item, kind |-> e.kind, updated |-> Now + tick])
  BY DEF Publish
<1>2. /\ rows' = rows /\ last_connection_tasks' = last_connection_tasks /\ pc' = pc
      /\ pos' = pos /\ chunk' = chunk /\ undecodable' = undecodable
  BY DEF Publish
<1>3. PICK L \in Nat : /\ events \in Seq(LogEntry) /\ Len(events) = L
                       /\ DOMAIN events = 1 .. L /\ pos \in 0 .. L
  BY DEF IInv, Typed
<1> DEFINE new == [item |-> e.item, kind |-> e.kind, updated |-> Now + tick]
<1>4. events = <<>> \/ L \in DOMAIN events
  BY <1>3
<1>5. Now \in Nat /\ (L \in DOMAIN events => Now = events[L].updated)
  <2>1. IInv => Typed
    BY DEF IInv
  <2> QED
    BY <1>3, <1>4, <2>1, Entries DEF Now
<1>6. new \in LogEntry
  <2>1. \/ e.kind \in {"update", "misplaced", "delete"} /\ e.item \in Items
        \/ e.kind = "other" /\ e.item = None
    BY DEF Event
  <2> QED
    BY <1>5, <2>1 DEF LogEntry
<1> HIDE DEF new
<1>7. /\ events' \in Seq(LogEntry) /\ Len(events') = L + 1 /\ DOMAIN events' = 1 .. L + 1
      /\ events'[L + 1] = new /\ \A k \in 1 .. L : events'[k] = events[k]
  BY <1>1, <1>3, <1>6 DEF new
<1>8. \A k \in 1 .. L : Accepted(k)' <=> Accepted(k)
  BY <1>7 DEF Accepted
<1>9. \A k \in 1 .. L : MayBeLost(k) => MayBeLost(k)'
  <2>1. \A k \in 1 .. L : \A j \in 1 .. (k - 1) : j \in 1 .. L
    BY <1>3
  <2> QED
    BY <1>2, <1>7, <2>1 DEF MayBeLost
<1>10. \A k, i \in 1 .. L : CoveredBy(k, i) => CoveredBy(k, i)'
  BY <1>2, <1>7, <1>8 DEF CoveredBy, Shows
<1>11. \A k \in 1 .. L : Covered(k) => Covered(k)'
  <2> SUFFICES ASSUME NEW k \in 1 .. L, Covered(k), Accepted(k)', ~ MayBeLost(k)'
               PROVE  \E i \in k .. L + 1 : CoveredBy(k, i)'
    BY <1>7 DEF Covered
  <2>1. PICK i \in k .. L : CoveredBy(k, i)
    BY <1>3, <1>8, <1>9 DEF Covered
  <2>2. i \in 1 .. L /\ i \in k .. L + 1
    BY <1>3
  <2> QED
    BY <1>10, <2>1, <2>2
<1>12. /\ \A i \in 1 .. L : events[i].updated \in Nat /\ events[i].updated <= Now
       /\ new.updated \in Nat /\ Now <= new.updated
  <2>1. \A i \in 1 .. L : L \in DOMAIN events /\ i \in DOMAIN events /\ i <= L
    BY <1>3
  <2>2. \A i \in 1 .. L : events[i].updated \in Nat
    BY <1>3, Entries DEF IInv
  <2>3. new.updated = Now + tick
    BY DEF new
  <2> QED
    BY <1>5, <2>1, <2>2, <2>3 DEF IInv, Ordered
<1>13. Typed'
  <2>1. rows' \in [Items -> 0 .. Len(events')]
    BY <1>2, <1>3, <1>7 DEF IInv, Typed
  <2>2. ASSUME NEW x \in Items, rows'[x] # 0
        PROVE  events'[rows'[x]].item = x /\ events'[rows'[x]].kind = "update"
    <3>1. rows[x] \in 1 .. L
      BY <1>2, <1>3, <2>2 DEF IInv, Typed
    <3> QED
      BY <1>2, <1>7, <2>2, <3>1 DEF IInv, Typed
  <2>3. pos' \in 0 .. Len(events') /\ undecodable' \subseteq DOMAIN events'
    BY <1>2, <1>3, <1>7 DEF IInv, Typed
  <2>4. /\ last_connection_tasks' \in Nat /\ pc' \in {"idle", "stream"} \cup Processing
        /\ pc' \in Processing => chunk' \in Chunk
    BY <1>2 DEF IInv, Typed
  <2> QED
    BY <1>7, <2>1, <2>2, <2>3, <2>4 DEF Typed
<1>14. Ordered'
  <2>1. ASSUME NEW i \in 1 .. L + 1, NEW j \in 1 .. L + 1, i <= j
        PROVE  events'[i].updated <= events'[j].updated
    <3>1. CASE j \in 1 .. L
      <4>1. i \in 1 .. L
        BY <1>3, <2>1, <3>1
      <4> QED
        BY <1>3, <1>7, <2>1, <3>1, <4>1 DEF IInv, Ordered
    <3>2. CASE j = L + 1
      <4>1. i = L + 1 \/ i \in 1 .. L
        BY <1>3
      <4> QED
        BY <1>5, <1>7, <1>12, <3>2, <4>1
    <3> QED
      BY <1>3, <3>1, <3>2
  <2>2. last_connection_tasks' # 0 =>
           events' # <<>> /\ last_connection_tasks' <= events'[Len(events')].updated + 1
    <3>1. events' # <<>>
      BY <1>3, <1>7
    <3>2. last_connection_tasks \in Nat
      BY DEF IInv, Typed
    <3>3. last_connection_tasks # 0 => last_connection_tasks <= Now + 1
      BY <1>3, <1>4, <1>5 DEF IInv, Ordered
    <3> QED
      BY <1>2, <1>5, <1>7, <1>12, <3>1, <3>2, <3>3
  <2> QED
    BY <1>7, <2>1, <2>2 DEF Ordered
<1>15. events'[L + 1].updated < last_connection_tasks' => MayBeLost(L + 1)'
  <2> SUFFICES ASSUME new.updated < last_connection_tasks
               PROVE  MayBeLost(L + 1)'
    BY <1>2, <1>7
  <2>1. last_connection_tasks \in Nat /\ last_connection_tasks # 0
    BY <1>12 DEF IInv, Typed
  <2>2. L \in DOMAIN events /\ last_connection_tasks <= events[L].updated + 1
    BY <1>3, <1>4, <2>1 DEF IInv, Ordered
  <2>3. L \in 1 .. (L + 1) - 1 /\ events'[L].updated = events'[L + 1].updated
    BY <1>3, <1>5, <1>7, <1>12, <2>1, <2>2
  <2> QED
    BY <2>3 DEF MayBeLost
<1>16. ASSUME NEW n \in 0 .. L, Sent(n) PROVE Sent(n)'
  <2>1. \A k \in 1 .. n : Covered(k)'
    BY <1>3, <1>11, <1>16 DEF Sent
  <2>2. ASSUME NEW k \in n + 1 .. L + 1, events'[k].updated < last_connection_tasks'
        PROVE  MayBeLost(k)'
    <3>1. k = L + 1 \/ (k \in 1 .. L /\ k \in n + 1 .. L)
      BY <1>3
    <3>2. CASE k = L + 1
      BY <1>15, <2>2, <3>2 DEF MayBeLost
    <3>3. CASE k \in 1 .. L /\ k \in n + 1 .. L
      BY <1>2, <1>3, <1>7, <1>9, <1>16, <2>2, <3>3 DEF Sent
    <3> QED
      BY <3>1, <3>2, <3>3
  <2> QED
    BY <1>7, <2>1, <2>2 DEF Sent
<1>17. pc' = "idle" => Saved'
  <2> SUFFICES ASSUME pc = "idle", NEW k \in 1 .. L + 1,
                      events'[k].updated < last_connection_tasks'
               PROVE  Covered(k)'
    BY <1>2, <1>7 DEF Saved
  <2>1. CASE k = L + 1
    BY <1>15, <2>1 DEF Covered
  <2>2. CASE k \in 1 .. L
    BY <1>2, <1>3, <1>7, <1>11, <2>2 DEF IInv, Streamed, Saved
  <2> QED
    BY <1>3, <2>1, <2>2
<1>18. pc' = "stream" => Sent(pos)'
  BY <1>2, <1>3, <1>16 DEF IInv, Streamed, Sent
<1>19. ASSUME pc' \in Processing, NEW lo \in 0 .. pos - 1, Sent(lo), Message(lo)
       PROVE  Message(lo)'
  <2>1. pos \in 1 .. L /\ \A k \in lo + 1 .. pos : k \in 1 .. L
    BY <1>3
  <2>2. \A m \in lo + 1 .. pos : IsLast(m)' <=> IsLast(m)
    <3>1. \A m \in lo + 1 .. pos : \A k \in m + 1 .. pos : k \in 1 .. L
      BY <1>3
    <3> QED
      BY <1>2, <1>7, <1>8, <2>1, <3>1 DEF IsLast
  <2>3. ChunkOf(lo)'
    BY <1>2, <1>7, <1>19, <2>1, <2>2 DEF Message, ChunkOf
  <2>4. \A m \in lo + 1 .. pos : WrittenOrPending(m) => WrittenOrPending(m)'
    BY <1>2, <1>7, <2>1 DEF WrittenOrPending, ExpungePending
  <2> QED
    BY <1>2, <1>7, <1>19, <2>1, <2>2, <2>3, <2>4 DEF Message
<1>20. pc' \in Processing => \E lo \in 0 .. pos' - 1 : Sent(lo)' /\ Message(lo)'
  <2> SUFFICES ASSUME pc' \in Processing
               PROVE  \E lo \in 0 .. pos' - 1 : Sent(lo)' /\ Message(lo)'
    OBVIOUS
  <2>1. PICK lo \in 0 .. pos - 1 : Sent(lo) /\ Message(lo)
    BY <1>2 DEF IInv, Streamed
  <2>2. lo \in 0 .. L
    BY <1>3
  <2> QED
    BY <1>2, <1>16, <1>19, <2>1, <2>2
<1>21. Streamed'
  BY <1>17, <1>18, <1>20 DEF Streamed
<1> QED
  BY <1>13, <1>14, <1>21 DEF IInv

\* Connect starts after what is before the saved time, all of it covered.
LEMMA ConnectKeeps ==
    ASSUME IInv, Connect
    PROVE  IInv'
<1>1. /\ events' = events /\ rows' = rows /\ last_connection_tasks' = last_connection_tasks
      /\ chunk' = chunk /\ undecodable' = undecodable /\ pc = "idle" /\ pc' = "stream"
      /\ pos' = Cardinality({i \in DOMAIN events : events[i].updated < last_connection_tasks})
  BY DEF Connect
<1>2. Typed /\ Ordered /\ Saved /\ last_connection_tasks \in Nat
  BY <1>1 DEF IInv, Streamed, Typed
<1>3. /\ pos' \in 0 .. Len(events)
      /\ \A i \in DOMAIN events : events[i].updated < last_connection_tasks <=> i <= pos'
  BY <1>1, <1>2, Prefix
<1>4. Len(events) \in Nat /\ DOMAIN events = 1 .. Len(events)
  BY <1>2 DEF Typed
<1>5. \A k : Covered(k) => Covered(k)'
  BY <1>1, Kept
<1>6. \A k \in 1 .. pos' : Covered(k)'
  <2>1. \A k \in 1 .. pos' : k \in DOMAIN events /\ k <= pos'
    BY <1>3, <1>4
  <2> QED
    BY <1>2, <1>3, <1>5, <2>1 DEF Saved
<1>7. \A k \in pos' + 1 .. Len(events) : ~ (events[k].updated < last_connection_tasks)
  <2>1. \A k \in pos' + 1 .. Len(events) : k \in DOMAIN events /\ ~ (k <= pos')
    BY <1>3, <1>4
  <2> QED
    BY <1>3, <2>1
<1>8. Sent(pos)'
  BY <1>1, <1>6, <1>7 DEF Sent
<1>9. Streamed'
  BY <1>1, <1>8 DEF Streamed, Processing
<1>10. Typed'
  BY <1>1, <1>2, <1>3 DEF Typed, Processing
<1>11. Ordered'
  BY <1>1, <1>2 DEF Ordered
<1> QED
  BY <1>9, <1>10, <1>11 DEF IInv

\* GetMessage cuts a message off what lies ahead.
LEMMA GetMessageKeeps ==
    ASSUME IInv, GetMessage
    PROVE  IInv'
<1>1. PICK hi \in (pos + 1) .. Len(events) : chunk' = SyncChunkV2(pos, hi) /\ pos' = hi
  BY DEF GetMessage
<1>2. /\ events' = events /\ rows' = rows /\ last_connection_tasks' = last_connection_tasks
      /\ undecodable' = undecodable /\ pc = "stream" /\ pc' = "expungeTasks"
  BY DEF GetMessage
<1>3. PICK lo \in Nat : lo = pos
  BY DEF IInv, Typed
<1>4. Typed /\ Ordered /\ Sent(lo) /\ last_connection_tasks \in Nat
  BY <1>2, <1>3 DEF IInv, Streamed, Typed
<1>5. /\ Len(events) \in Nat /\ DOMAIN events = 1 .. Len(events)
      /\ lo \in 0 .. hi - 1 /\ hi \in Nat /\ hi \in lo + 1 .. Len(events)
      /\ \A k \in lo + 1 .. hi : k \in DOMAIN events /\ k # 0
  BY <1>1, <1>3, <1>4 DEF Typed
<1>6. /\ chunk'.updated = [x \in Updated(lo, hi) |-> LastAbout(x, lo, hi)]
      /\ chunk'.expunged = Expunged(lo, hi)
      /\ chunk'.last_timestamp = events[hi].updated
      /\ chunk' = [updated |-> chunk'.updated, expunged |-> chunk'.expunged,
                   last_timestamp |-> chunk'.last_timestamp]
  BY <1>1, <1>3, <1>4, <1>5, LastTime DEF SyncChunkV2
<1>7. \A x : /\ LastAbout(x, lo, hi) \in Nat
             /\ LastAbout(x, lo, hi) # 0 =>
                   /\ LastAbout(x, lo, hi) \in lo + 1 .. hi
                   /\ Accepted(LastAbout(x, lo, hi))
                   /\ events[LastAbout(x, lo, hi)].item = x
             /\ \A k \in lo + 1 .. hi :
                   Accepted(k) /\ events[k].item = x =>
                      k <= LastAbout(x, lo, hi) /\ LastAbout(x, lo, hi) # 0
  BY <1>5, LastAboutIs
<1>8. \A i \in DOMAIN events : /\ events[i].updated \in Nat
                               /\ Accepted(i) => events[i].item \in Items
  BY <1>4, Entries
<1>9. /\ \A k : Accepted(k)' <=> Accepted(k)
      /\ \A k : MayBeLost(k) => MayBeLost(k)'
      /\ \A k : Covered(k) => Covered(k)'
  BY <1>2, Kept
<1>10. Sent(lo)'
  BY <1>2, <1>4, <1>9 DEF Sent
<1>11. \A x \in chunk'.expunged : \E j \in lo + 1 .. hi : /\ events[j].item = x
                                                         /\ events[j].kind = "delete"
  BY <1>6 DEF Expunged
<1>12. chunk'.expunged \subseteq Items
  BY <1>5, <1>8, <1>11 DEF Accepted
<1>13. ASSUME NEW x \in DOMAIN chunk'.updated
       PROVE  /\ x \in Items /\ chunk'.updated[x] = LastAbout(x, lo, hi)
              /\ LastAbout(x, lo, hi) # 0
              /\ events[LastAbout(x, lo, hi)].kind # "delete"
  BY <1>6 DEF Updated
<1>14. chunk' \in Chunk
  <2>1. Updated(lo, hi) \in SUBSET Items
    BY DEF Updated
  <2>2. [x \in Updated(lo, hi) |-> LastAbout(x, lo, hi)] \in [Updated(lo, hi) -> Nat]
    BY <1>7
  <2>3. chunk'.updated \in Updates
    BY <1>6, <2>1, <2>2 DEF Updates
  <2> QED
    BY <1>5, <1>6, <1>8, <1>12, <2>3 DEF Chunk
<1>15. ASSUME NEW m \in lo + 1 .. hi, IsLast(m)'
       PROVE  /\ Accepted(m) /\ events[m].item \in Items
              /\ m = LastAbout(events[m].item, lo, hi)
  <2>1. /\ Accepted(m)
        /\ \A k \in m + 1 .. hi : ~ (Accepted(k) /\ events[k].item = events[m].item)
    BY <1>1, <1>2, <1>9, <1>15 DEF IsLast
  <2>2. PICK l \in Nat : l = LastAbout(events[m].item, lo, hi)
    BY <1>7
  <2>3. m <= l /\ l # 0 /\ l \in lo + 1 .. hi /\ Accepted(l) /\ events[l].item = events[m].item
    BY <1>7, <2>1, <2>2
  <2>4. l \notin m + 1 .. hi
    BY <2>1, <2>3
  <2>5. m = l
    BY <1>5, <2>3, <2>4
  <2> QED
    BY <1>5, <1>8, <2>1, <2>2, <2>5
<1>16. ASSUME NEW x \in DOMAIN chunk'.updated, NEW m \in Nat, m = chunk'.updated[x]
       PROVE  m \in lo + 1 .. hi /\ IsLast(m)' /\ events[m].item = x /\ events[m].kind = "update"
  <2>1. /\ m = LastAbout(x, lo, hi) /\ m # 0 /\ events[m].kind # "delete"
        /\ m \in lo + 1 .. hi /\ Accepted(m) /\ events[m].item = x
    BY <1>7, <1>13, <1>16
  <2>2. ASSUME NEW k \in m + 1 .. hi PROVE ~ (Accepted(k) /\ events[k].item = x)
    <3>1. k \in lo + 1 .. hi /\ ~ (k <= m)
      BY <1>5, <2>1
    <3> QED
      BY <1>7, <2>1, <3>1
  <2>3. IsLast(m)'
    BY <1>1, <1>2, <1>9, <2>1, <2>2 DEF IsLast
  <2> QED
    BY <2>1, <2>3 DEF Accepted
<1>17. ChunkOf(lo)'
  <2>1. \A x \in DOMAIN chunk'.updated : chunk'.updated[x] \in Nat
    BY <1>7, <1>13
  <2> QED
    BY <1>1, <1>2, <1>11, <1>16, <2>1 DEF ChunkOf
<1>18. ASSUME NEW m \in lo + 1 .. hi, IsLast(m)'
       PROVE  WrittenOrPending(m)'
  <2>1. /\ Accepted(m) /\ events[m].item \in Items
        /\ m = LastAbout(events[m].item, lo, hi) /\ m # 0
    BY <1>5, <1>15, <1>18
  <2>2. CASE events[m].kind = "delete"
    <3>1. events[m].item \in chunk'.expunged
      BY <1>6, <2>2 DEF Expunged
    <3> QED
      BY <1>2, <2>2, <3>1 DEF WrittenOrPending, ExpungePending
  <2>3. CASE events[m].kind # "delete"
    <3>1. events[m].item \in Updated(lo, hi)
      BY <2>1, <2>3 DEF Updated
    <3>2. events[m].item \in DOMAIN chunk'.updated
      BY <1>6, <3>1
    <3> QED
      BY <1>2, <2>3, <3>2 DEF WrittenOrPending
  <2> QED
    BY <2>2, <2>3
<1>19. Message(lo)'
  BY <1>1, <1>2, <1>6, <1>17, <1>18 DEF Message
<1>20. Streamed'
  BY <1>1, <1>2, <1>5, <1>10, <1>19 DEF Streamed, Processing
<1>21. Typed'
  BY <1>1, <1>2, <1>4, <1>5, <1>14 DEF Typed, Processing
<1>22. Ordered'
  BY <1>2, <1>4 DEF Ordered
<1> QED
  BY <1>20, <1>21, <1>22 DEF IInv

\* What SkipMessage passes over is counted as lost.
LEMMA SkipMessageKeeps ==
    ASSUME IInv, SkipMessage
    PROVE  IInv'
<1>1. PICK hi \in (pos + 1) .. Len(events) :
         undecodable' = undecodable \cup ((pos + 1) .. hi) /\ pos' = hi
  BY DEF SkipMessage
<1>2. /\ events' = events /\ rows' = rows /\ last_connection_tasks' = last_connection_tasks
      /\ chunk' = chunk /\ pc = "stream" /\ pc' = pc
  BY DEF SkipMessage
<1>3. Typed /\ Ordered /\ Sent(pos)
  BY <1>2 DEF IInv, Streamed
<1>4. /\ Len(events) \in Nat /\ DOMAIN events = 1 .. Len(events)
      /\ pos \in 0 .. Len(events) /\ hi \in 0 .. Len(events)
      /\ \A k \in 1 .. hi : k \in 1 .. pos \/ k \in (pos + 1) .. hi
      /\ \A k \in hi + 1 .. Len(events) : k \in pos + 1 .. Len(events)
  BY <1>1, <1>3 DEF Typed
<1>5. /\ \A k : MayBeLost(k) => MayBeLost(k)'
      /\ \A k : Covered(k) => Covered(k)'
  BY <1>1, <1>2, Kept
<1>6. \A k \in (pos + 1) .. hi : Covered(k)'
  BY <1>1 DEF Covered, MayBeLost
<1>7. Sent(pos)'
  BY <1>1, <1>2, <1>3, <1>4, <1>5, <1>6 DEF Sent
<1>8. Streamed'
  BY <1>2, <1>7 DEF Streamed, Processing
<1>9. Typed'
  <2>1. undecodable' \subseteq DOMAIN events
    BY <1>1, <1>3, <1>4 DEF Typed
  <2> QED
    BY <1>1, <1>2, <1>3, <1>4, <2>1 DEF Typed
<1>10. Ordered'
  BY <1>2, <1>3 DEF Ordered
<1> QED
  BY <1>8, <1>9, <1>10 DEF IInv

\* A run may end anywhere: what the tables cover stays covered.
LEMMA EndKeeps ==
    ASSUME IInv, EndOfStream \/ Die
    PROVE  IInv'
<1>1. /\ events' = events /\ rows' = rows /\ last_connection_tasks' = last_connection_tasks
      /\ undecodable' = undecodable /\ pc' = "idle" /\ pos' = 0
  BY DEF EndOfStream, Die
<1>2. Saved
  BY SavedAlways
<1>3. Saved'
  BY <1>1, <1>2, Kept DEF Saved
<1>4. Streamed'
  BY <1>1, <1>3 DEF Streamed, Processing
<1>5. Typed'
  BY <1>1 DEF IInv, Typed, Processing
<1>6. Ordered'
  BY <1>1 DEF IInv, Ordered
<1> QED
  BY <1>4, <1>5, <1>6 DEF IInv

\* A transaction that deletes the rows of a kind.
LEMMA ExpungeKeeps ==
    ASSUME IInv, NEW kind, NEW here \in Processing, NEW next \in Processing,
           \/ kind = Tasks /\ here = "expungeTasks" /\ next = "expungeReminders"
           \/ kind = Reminders /\ here = "expungeReminders" /\ next = "addTasks",
           Expunge(kind, here, next)
    PROVE  IInv'
<1>1. /\ rows' = [x \in Items |-> IF x \in kind \cap chunk.expunged THEN 0 ELSE rows[x]]
      /\ pc = here /\ pc' = next
      /\ events' = events /\ last_connection_tasks' = last_connection_tasks /\ pos' = pos
      /\ chunk' = chunk /\ undecodable' = undecodable
  BY DEF Expunge
<1>2. PICK lo \in 0 .. pos - 1 : Sent(lo) /\ Message(lo)
  BY <1>1 DEF IInv, Streamed
<1>3. Typed /\ Ordered /\ chunk \in Chunk
  BY <1>1 DEF IInv, Typed
<1>4. /\ Len(events) \in Nat /\ DOMAIN events = 1 .. Len(events) /\ pos \in 0 .. Len(events)
      /\ \A k \in lo + 1 .. pos : k \in DOMAIN events /\ k # 0
      /\ \A k \in 1 .. lo : k \in DOMAIN events
  BY <1>2, <1>3 DEF Typed
<1>5. \A k \in DOMAIN events : Accepted(k) => events[k].item \in Items
  BY <1>3, Entries
<1>6. (\A k : Accepted(k)' <=> Accepted(k)) /\ (\A k : MayBeLost(k)' <=> MayBeLost(k))
  BY <1>1 DEF Accepted, MayBeLost
<1>7. ASSUME NEW k \in 1 .. lo, Covered(k) PROVE Covered(k)'
  <2> SUFFICES ASSUME Accepted(k), NEW i \in k .. Len(events), CoveredBy(k, i)
               PROVE  \E j \in k .. Len(events) : CoveredBy(k, j)'
    BY <1>1, <1>6, <1>7 DEF Covered
  <2>1. events[k].item \in Items
    BY <1>4, <1>5
  <2>2. CASE events[k].item \in kind \cap chunk.expunged
    <3>1. PICK j \in lo + 1 .. pos : /\ events[j].item = events[k].item
                                     /\ events[j].kind = "delete"
      BY <1>2, <2>2 DEF Message, ChunkOf
    <3>2. j \in k .. Len(events)
      BY <1>4
    <3>3. CoveredBy(k, j)'
      BY <1>1, <2>1, <2>2, <3>1 DEF CoveredBy, Shows, Accepted
    <3> QED
      BY <3>2, <3>3
  <2>3. CASE events[k].item \notin kind \cap chunk.expunged
    BY <1>1, <1>6, <2>1, <2>3 DEF CoveredBy, Shows
  <2> QED
    BY <2>2, <2>3
<1>8. Sent(lo)'
  BY <1>1, <1>2, <1>6, <1>7 DEF Sent
<1>9. \A m : IsLast(m)' <=> IsLast(m)
  BY <1>1, <1>6 DEF IsLast
<1>10. ASSUME NEW m \in lo + 1 .. pos, IsLast(m), WrittenOrPending(m)
       PROVE  WrittenOrPending(m)'
  <2>1. events[m].item \in Items
    BY <1>4, <1>5, <1>10 DEF IsLast
  <2>2. CASE events[m].kind = "delete"
    <3>1. rows[events[m].item] = 0 \/ ExpungePending(events[m].item)
      BY <1>10, <2>2 DEF WrittenOrPending
    <3>2. CASE rows[events[m].item] = 0
      BY <1>1, <2>1, <2>2, <3>2 DEF WrittenOrPending
    <3>3. CASE ExpungePending(events[m].item)
      BY <1>1, <2>1, <2>2, <3>3, TaskAssumption DEF WrittenOrPending, ExpungePending, Items
    <3> QED
      BY <3>1, <3>2, <3>3
  <2>3. CASE events[m].kind # "delete"
    BY <1>1, <1>10, <2>3 DEF WrittenOrPending
  <2> QED
    BY <2>2, <2>3
<1>11. ChunkOf(lo)'
  BY <1>1, <1>2, <1>9 DEF Message, ChunkOf
<1>12. Message(lo)'
  BY <1>1, <1>2, <1>9, <1>10, <1>11 DEF Message
<1>13. Streamed'
  BY <1>1, <1>8, <1>12 DEF Streamed, Processing
<1>14. Typed'
  <2>1. rows' \in [Items -> 0 .. Len(events)]
    BY <1>1, <1>3, <1>4 DEF Typed
  <2>2. \A x \in Items : rows'[x] # 0 => rows'[x] = rows[x]
    BY <1>1
  <2> QED
    BY <1>1, <1>3, <2>1, <2>2 DEF Typed
<1>15. Ordered'
  BY <1>1, <1>3 DEF Ordered
<1> QED
  BY <1>13, <1>14, <1>15 DEF IInv

\* A transaction that writes one row, or none is left to write.
LEMMA AddKeeps ==
    ASSUME IInv, NEW kind, NEW here \in Processing, NEW next \in Processing,
           \/ kind = Tasks /\ here = "addTasks" /\ next = "addReminders"
           \/ kind = Reminders /\ here = "addReminders" /\ next = "setConnection",
           Add(kind, here, next)
    PROVE  IInv'
<1>1. /\ pc = here /\ events' = events /\ last_connection_tasks' = last_connection_tasks
      /\ pos' = pos /\ undecodable' = undecodable
  BY DEF Add
<1>2. PICK lo \in 0 .. pos - 1 : Sent(lo) /\ Message(lo)
  BY <1>1 DEF IInv, Streamed
<1>3. Typed /\ Ordered /\ chunk \in Chunk
  BY <1>1 DEF IInv, Typed
<1>4. /\ Len(events) \in Nat /\ DOMAIN events = 1 .. Len(events) /\ pos \in 0 .. Len(events)
      /\ \A k \in lo + 1 .. pos : k \in DOMAIN events /\ k # 0
      /\ \A k \in 1 .. lo : k \in DOMAIN events
  BY <1>2, <1>3 DEF Typed
<1>5. \A k \in DOMAIN events : Accepted(k) => events[k].item \in Items
  BY <1>3, Entries
<1>6. (\A k : Accepted(k)' <=> Accepted(k)) /\ (\A k : MayBeLost(k)' <=> MayBeLost(k))
  BY <1>1 DEF Accepted, MayBeLost
<1>7. \A m : IsLast(m)' <=> IsLast(m)
  BY <1>1, <1>6 DEF IsLast
<1>8. CASE kind \cap DOMAIN chunk.updated = {}
  <2>1. pc' = next /\ rows' = rows /\ chunk' = chunk
    BY <1>8 DEF Add
  <2>2. Sent(lo)'
    BY <1>1, <1>2, <2>1, Kept DEF Sent
  <2>3. ChunkOf(lo)'
    BY <1>1, <1>2, <1>7, <2>1 DEF Message, ChunkOf
  <2>4. \A m : WrittenOrPending(m) => WrittenOrPending(m)'
    BY <1>1, <2>1 DEF WrittenOrPending, ExpungePending
  <2>5. Message(lo)'
    BY <1>1, <1>2, <1>7, <1>8, <2>1, <2>3, <2>4 DEF Message
  <2>6. Streamed'
    BY <1>1, <2>1, <2>2, <2>5 DEF Streamed, Processing
  <2>7. Typed'
    BY <1>1, <1>3, <2>1 DEF Typed
  <2>8. Ordered'
    BY <1>1, <1>3 DEF Ordered
  <2> QED
    BY <2>6, <2>7, <2>8 DEF IInv
<1>9. CASE kind \cap DOMAIN chunk.updated # {}
  <2>1. PICK x \in kind \cap DOMAIN chunk.updated :
           /\ rows' = [rows EXCEPT ![x] = chunk.updated[x]]
           /\ chunk' = [chunk EXCEPT !.updated = [y \in DOMAIN @ \ {x} |-> @[y]]]
           /\ pc' = pc
    BY <1>9 DEF Add
  <2>2. /\ chunk.updated \in Updates /\ chunk'.expunged = chunk.expunged
        /\ chunk'.last_timestamp = chunk.last_timestamp
        /\ chunk'.updated = [y \in DOMAIN chunk.updated \ {x} |-> chunk.updated[y]]
        /\ chunk.expunged \subseteq Items /\ chunk.last_timestamp \in Nat
    BY <1>3, <2>1 DEF Chunk
  <2>3. x \in Items /\ chunk.updated[x] \in Nat /\ chunk'.updated \in Updates
    <3>1. DOMAIN chunk.updated \ {x} \in SUBSET DOMAIN chunk.updated
      OBVIOUS
    <3> QED
      BY <2>2, <3>1, UpdatesAre
  <2>4. chunk' \in Chunk
    BY <1>3, <2>1, <2>2, <2>3 DEF Chunk
  <2>5. PICK m \in Nat : m = chunk.updated[x]
    BY <2>3
  <2>6. /\ m \in lo + 1 .. pos /\ IsLast(m) /\ Accepted(m)
        /\ events[m].item = x /\ events[m].kind = "update" /\ m # 0 /\ m \in DOMAIN events
    BY <1>2, <1>4, <2>5 DEF Message, ChunkOf, IsLast
  <2>7. /\ DOMAIN rows = Items /\ rows'[x] = m
        /\ \A y \in Items : y # x => rows'[y] = rows[y]
    BY <1>3, <2>1, <2>3, <2>5 DEF Typed
  <2>8. ASSUME NEW k \in 1 .. lo, Covered(k) PROVE Covered(k)'
    <3> SUFFICES ASSUME Accepted(k), NEW i \in k .. Len(events), CoveredBy(k, i)
                 PROVE  \E j \in k .. Len(events) : CoveredBy(k, j)'
      BY <1>1, <1>6, <2>8 DEF Covered
    <3>1. events[k].item \in Items
      BY <1>4, <1>5
    <3>2. CASE events[k].item = x
      <4>1. m \in k .. Len(events)
        BY <1>4, <2>6
      <4>2. CoveredBy(k, m)'
        BY <1>1, <1>6, <2>6, <2>7, <3>2 DEF CoveredBy, Shows
      <4> QED
        BY <4>1, <4>2
    <3>3. CASE events[k].item # x
      BY <1>1, <1>6, <2>7, <3>1, <3>3 DEF CoveredBy, Shows
    <3> QED
      BY <3>2, <3>3
  <2>9. Sent(lo)'
    BY <1>1, <1>2, <1>6, <2>8 DEF Sent
  <2>10. ChunkOf(lo)'
    BY <1>1, <1>2, <1>7, <2>2 DEF Message, ChunkOf
  <2>11. ASSUME NEW n \in lo + 1 .. pos, IsLast(n), WrittenOrPending(n)
         PROVE  WrittenOrPending(n)'
    <3>1. Accepted(n) /\ events[n].item \in Items
      BY <1>4, <1>5, <2>11 DEF IsLast
    <3>2. CASE events[n].item = x
      <4>1. n \notin m + 1 .. pos /\ m \notin n + 1 .. pos
        BY <2>6, <2>11, <3>1, <3>2 DEF IsLast
      <4>2. n = m
        BY <1>4, <2>6, <4>1
      <4> QED
        BY <1>1, <2>1, <2>6, <2>7, <4>2 DEF WrittenOrPending
    <3>3. CASE events[n].item # x
      BY <1>1, <2>1, <2>2, <2>7, <2>11, <3>1, <3>3 DEF WrittenOrPending, ExpungePending
    <3> QED
      BY <3>2, <3>3
  <2>12. DOMAIN chunk'.updated \subseteq DOMAIN chunk.updated
    BY <2>2
  <2>13. Message(lo)'
    BY <1>1, <1>2, <1>7, <2>1, <2>2, <2>10, <2>11, <2>12 DEF Message
  <2>14. Streamed'
    BY <1>1, <2>1, <2>9, <2>13 DEF Streamed, Processing
  <2>15. Typed'
    <3>1. rows' \in [Items -> 0 .. Len(events)]
      BY <1>3, <1>4, <2>1, <2>3, <2>5, <2>6 DEF Typed
    <3>2. ASSUME NEW y \in Items, rows'[y] # 0
          PROVE  events[rows'[y]].item = y /\ events[rows'[y]].kind = "update"
      <4>1. CASE y = x
        BY <2>6, <2>7, <4>1
      <4>2. CASE y # x
        BY <1>3, <2>7, <3>2, <4>2 DEF Typed
      <4> QED
        BY <4>1, <4>2
    <3> QED
      BY <1>1, <1>3, <2>1, <2>4, <3>1, <3>2 DEF Typed
  <2>16. Ordered'
    BY <1>1, <1>3 DEF Ordered
  <2> QED
    BY <2>14, <2>15, <2>16 DEF IInv
<1> QED
  BY <1>8, <1>9

\* When the time is saved everything that was sent is covered, and events to
\* come before it are as old as the last one that was sent.
LEMMA SetConnectionKeeps ==
    ASSUME IInv, SetConnection
    PROVE  IInv'
<1>1. /\ pc = "setConnection" /\ pc' = "stream" /\ events' = events /\ rows' = rows
      /\ last_connection_tasks' = chunk.last_timestamp + 1
      /\ pos' = pos /\ undecodable' = undecodable
  BY DEF SetConnection
<1>2. PICK lo \in 0 .. pos - 1 : Sent(lo) /\ Message(lo)
  BY <1>1 DEF IInv, Streamed, Processing
<1>3. Typed /\ Ordered /\ chunk \in Chunk
  BY <1>1 DEF IInv, Typed, Processing
<1>4. /\ Len(events) \in Nat /\ DOMAIN events = 1 .. Len(events) /\ pos \in 1 .. Len(events)
      /\ \A k \in lo + 1 .. pos : k \in DOMAIN events /\ k # 0
      /\ \A k \in 1 .. pos : k \in 1 .. lo \/ k \in lo + 1 .. pos
  BY <1>2, <1>3 DEF Typed
<1>5. \A k \in DOMAIN events : /\ events[k].updated \in Nat
                               /\ Accepted(k) => events[k].item \in Items
  BY <1>3, Entries
<1>6. /\ \A k : MayBeLost(k) => MayBeLost(k)'
      /\ \A k : Covered(k) => Covered(k)'
  BY <1>1, Kept
<1>7. DOMAIN chunk.updated = {}
  <2>1. DOMAIN chunk.updated \subseteq Items
    BY <1>3, UpdatesAre DEF Chunk
  <2> QED
    BY <1>1, <1>2, <2>1 DEF Message, Items
<1>8. ASSUME NEW k \in lo + 1 .. pos PROVE Covered(k)
  <2> SUFFICES ASSUME Accepted(k) PROVE \E i \in k .. Len(events) : CoveredBy(k, i)
    BY DEF Covered
  <2>1. PICK m \in Nat : m = LastAbout(events[k].item, lo, pos)
    BY <1>4, LastAboutIs
  <2>2. lo \in Nat /\ pos \in Nat
    BY <1>4
  <2>3. /\ m \in lo + 1 .. pos /\ Accepted(m) /\ events[m].item = events[k].item /\ k <= m
        /\ \A n \in lo + 1 .. pos : Accepted(n) /\ events[n].item = events[k].item => n <= m
    BY <2>1, <2>2, LastAboutIs
  <2>4. \A n \in m + 1 .. pos : n \in lo + 1 .. pos /\ ~ (n <= m)
    BY <1>4, <2>3
  <2>5. IsLast(m)
    BY <2>3, <2>4 DEF IsLast
  <2>6. WrittenOrPending(m)
    BY <1>2, <2>3, <2>5 DEF Message
  <2>7. Shows(events[k].item, m)
    BY <1>1, <1>4, <1>7, <2>3, <2>6 DEF WrittenOrPending, ExpungePending, Shows
  <2>8. m \in k .. Len(events)
    BY <1>4, <2>3
  <2> QED
    BY <2>3, <2>7, <2>8 DEF CoveredBy
<1>9. \A k \in 1 .. pos : Covered(k)'
  BY <1>2, <1>4, <1>6, <1>8 DEF Sent
<1>10. chunk.last_timestamp = events[pos].updated
  BY <1>2 DEF Message
<1>11. ASSUME NEW k \in pos + 1 .. Len(events), events[k].updated < last_connection_tasks'
       PROVE  MayBeLost(k)
  <2>1. /\ pos \in 1 .. (k - 1) /\ k \in DOMAIN events /\ pos \in DOMAIN events /\ pos <= k
        /\ events[k].updated \in Nat /\ events[pos].updated \in Nat
    BY <1>4, <1>5
  <2>2. events[pos].updated <= events[k].updated
    BY <1>3, <2>1 DEF Ordered
  <2>3. events[pos].updated = events[k].updated
    BY <1>1, <1>10, <1>11, <2>1, <2>2
  <2> QED
    BY <2>1, <2>3 DEF MayBeLost
<1>12. Sent(pos)'
  BY <1>1, <1>6, <1>9, <1>11 DEF Sent
<1>13. Streamed'
  BY <1>1, <1>12 DEF Streamed, Processing
<1>14. last_connection_tasks' \in Nat
  BY <1>1, <1>4, <1>5, <1>10
<1>15. Typed'
  BY <1>1, <1>3, <1>14 DEF Typed, Processing
<1>16. Ordered'
  <2>1. events # <<>> /\ pos \in DOMAIN events /\ Len(events) \in DOMAIN events /\ pos <= Len(events)
    BY <1>4
  <2>2. events[pos].updated <= events[Len(events)].updated
    BY <1>3, <2>1 DEF Ordered
  <2>3. events[pos].updated \in Nat /\ events[Len(events)].updated \in Nat
    BY <1>5, <2>1
  <2> QED
    BY <1>1, <1>3, <1>10, <2>1, <2>2, <2>3 DEF Ordered
<1> QED
  BY <1>13, <1>15, <1>16 DEF IInv

----------------------------------------------------------------------------
(* The theorems.                                                           *)

LEMMA InitIInv == Init => IInv
<1> SUFFICES ASSUME Init PROVE IInv
  OBVIOUS
<1>1. Len(events) = 0 /\ DOMAIN events = {}
  BY DEF Init
<1>2. events \in Seq(LogEntry)
  BY DEF Init
<1> QED
  BY <1>1, <1>2 DEF Init, IInv, Typed, Ordered, Streamed, Saved, Processing

LEMMA NextIInv == IInv /\ [Next]_vars => IInv'
<1> SUFFICES ASSUME IInv, [Next]_vars PROVE IInv'
  OBVIOUS
<1>1. CASE ProcessChunk
  <2>1. /\ "expungeTasks" \in Processing /\ "expungeReminders" \in Processing
        /\ "addTasks" \in Processing /\ "addReminders" \in Processing
        /\ "setConnection" \in Processing
    BY DEF Processing
  <2>2. CASE Expunge(Tasks, "expungeTasks", "expungeReminders")
    BY <2>1, <2>2, ExpungeKeeps
  <2>3. CASE Expunge(Reminders, "expungeReminders", "addTasks")
    BY <2>1, <2>3, ExpungeKeeps
  <2>4. CASE Add(Tasks, "addTasks", "addReminders")
    BY <2>1, <2>4, AddKeeps
  <2>5. CASE Add(Reminders, "addReminders", "setConnection")
    BY <2>1, <2>5, AddKeeps
  <2> QED
    BY <1>1, <2>2, <2>3, <2>4, <2>5 DEF ProcessChunk
<1>2. CASE UNCHANGED vars
  <2>1. \A k : Covered(k)' <=> Covered(k)
    BY <1>2 DEF Covered, CoveredBy, Shows, MayBeLost, Accepted, vars
  <2>2. \A k : MayBeLost(k)' <=> MayBeLost(k)
    BY <1>2 DEF MayBeLost, vars
  <2>3. Streamed'
    <3>1. \A n : Sent(n)' <=> Sent(n)
      BY <1>2, <2>1, <2>2 DEF Sent, vars
    <3>2. Saved' <=> Saved
      BY <1>2, <2>1 DEF Saved, vars
    <3>3. \A lo : Message(lo)' <=> Message(lo)
      BY <1>2 DEF Message, ChunkOf, IsLast, Accepted, WrittenOrPending, ExpungePending, vars
    <3> QED
      BY <1>2, <3>1, <3>2, <3>3 DEF IInv, Streamed, vars
  <2> QED
    BY <1>2, <2>3 DEF IInv, Typed, Ordered, vars
<1> QED
  BY <1>1, <1>2, PublishKeeps, ConnectKeeps, GetMessageKeeps, SetConnectionKeeps,
     EndKeeps, SkipMessageKeeps DEF Next, Sync

THEOREM Invariant == Spec => []IInv
  BY InitIInv, NextIInv, PTL DEF Spec

\* The types of TaskSync: every row was written from an update of its own
\* item, and the log has entries as the service makes them.
THEOREM Typing == Spec => []TypeOK
<1>1. IInv => TypeOK
  <2> SUFFICES ASSUME IInv PROVE TypeOK
    OBVIOUS
  <2>1. ASSUME NEW i \in DOMAIN events
        PROVE  /\ [item |-> events[i].item, kind |-> events[i].kind] \in Event
               /\ events[i].updated \in Nat
    <3>1. events[i] \in LogEntry
      BY Entries DEF IInv
    <3> QED
      BY <3>1 DEF LogEntry, Event
  <2> QED
    BY <2>1 DEF IInv, Typed, TypeOK
<1> QED
  BY <1>1, Invariant, PTL

\* The saved time is honest wherever a run ends: whatever was cut, dropped,
\* deleted and updated in one message, or interrupted, every task and reminder
\* the log knows before that time is in the tables as the log has it or newer.
THEOREM CursorSound == Spec => []TasksCursorSound
<1>1. IInv => TasksCursorSound
  <2> SUFFICES ASSUME IInv, NEW x \in Items, NEW seen,
                      seen = Cardinality({i \in DOMAIN events :
                                             events[i].updated < last_connection_tasks}),
                      LastAbout(x, 0, seen) # 0, ~ MayBeLost(LastAbout(x, 0, seen))
               PROVE  \E i \in LastAbout(x, 0, seen) .. Len(events) :
                         Accepted(i) /\ events[i].item = x /\ Shows(x, i)
    BY DEF TasksCursorSound
  <2>1. Typed /\ Ordered /\ Saved /\ last_connection_tasks \in Nat
    BY SavedAlways DEF IInv, Typed
  <2>2. /\ seen \in 0 .. Len(events)
        /\ \A i \in DOMAIN events : events[i].updated < last_connection_tasks <=> i <= seen
    BY <2>1, Prefix
  <2>3. Len(events) \in Nat /\ DOMAIN events = 1 .. Len(events) /\ seen \in Nat
    BY <2>1, <2>2 DEF Typed
  <2>4. PICK last \in Nat : last = LastAbout(x, 0, seen)
    BY <2>3, LastAboutIs
  <2>5. last \in 1 .. seen /\ Accepted(last) /\ events[last].item = x
    BY <2>3, <2>4, LastAboutIs
  <2>6. Covered(last)
    BY <2>1, <2>2, <2>3, <2>5 DEF Saved
  <2> QED
    BY <2>4, <2>5, <2>6 DEF Covered, CoveredBy
<1> QED
  BY <1>1, Invariant, PTL
================================================================================
