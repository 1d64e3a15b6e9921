---------------------------- MODULE ForeignSync_proofs ----------------------------
(***************************************************************************)
(* Proofs about ForeignSync: the types, and that the numbers of linked     *)
(* notebooks and the saved time of the shares are honest although both     *)
(* paths write to one row.                                                 *)
(*                                                                         *)
(* The invariant has four parts.  Typed: the types, and where a row may be *)
(* filed.  Known: what the servers know of themselves - one clock numbers  *)
(* everything, and the events tell who is a share.  LinkedInv: what a      *)
(* linked notebook's number, the scan and the chunk in hand claim.         *)
(* SharedInv: the same for the saved time and the message in hand.         *)
(* First come the parser and what a message is; then the servers, which    *)
(* may do nothing that makes a claim false; then, claim by claim, the      *)
(* steps of the program that could.                                        *)
(***************************************************************************)
EXTENDS ForeignSync, FiniteInduction

\* The steps of sync() that work on a chunk of the user's account, on one of a
\* linked notebook, on a message about shares; and all steps.
OwnPcs     == {"expungeLinked", "rehome", "dropNotebook", "setUSN"}
OnePcs     == {"addLinked", "expungeLinkedNotes", "addLinkedNotebooks", "addLinkedNotes",
               "setLinkedUSN"}
MessagePcs == {"memberships", "scheduleShared", "expungeShared", "removeShared", "unshare",
               "dropShared"}
Pcs        == {"idle", "own", "listLinked", "linked", "getLinked", "shared", "collect",
               "authorize", "download"} \cup OwnPcs \cup OnePcs \cup MessagePcs

\* An event of the second protocol.
SharedEvent == [kind : {"membership", "note"}, note : Notes, del : BOOLEAN, updated : Nat]

\* The servers have counters, notes, links and a log of events.
ServerTypes ==
    /\ clock \in Nat /\ ownCount \in 0 .. clock
    /\ remote \in [Notes -> [usn : Nat, live : BOOLEAN, shared : BOOLEAN]]
    /\ source \in [Linked -> [usn : Nat, count : Nat, open : BOOLEAN]]
    /\ link \in [Linked -> [state : {"none", "joined", "left"}, usn : Nat]]
    /\ events \in Seq(SharedEvent)

\* The tables, and the two numbers that are saved with them.
TableTypes ==
    /\ notes \in [Notes -> NoteRow \cup {None}]
    /\ notebooks \subseteq Linked /\ shared_notes \subseteq Notes
    /\ linked_usn \in [Linked -> Nat \cup {None}]
    /\ USN \in 0 .. ownCount /\ connection \in 0 .. clock + 1

\* A row is filed under the note's linked notebook or the synthetic one.
Filed == \A n \in Notes : notes[n] # None => notes[n].notebook_guid \in {Home[n], SharedWithMe}

\* What the program has in hand at its steps.
ProcessTypes ==
    /\ pc \in Pcs
    /\ todo \subseteq Notes /\ listed \subseteq Linked
    /\ results \in [Notes -> [usn : Nat, nb : Notebooks \cup {None}] \cup {None}]
    /\ pc \in OwnPcs =>
          /\ chunk.expungedLinkedNotebooks \subseteq Linked
          /\ chunk.chunkHighUSN \in 0 .. ownCount
    /\ pc \in {"expungeLinked", "rehome", "dropNotebook", "linked", "getLinked"} \cup OnePcs =>
          ahead \subseteq Linked
    /\ pc \in {"rehome", "dropNotebook", "getLinked"} \cup OnePcs => cur \in Linked
    /\ pc \in {"getLinked"} \cup OnePcs => after \in Nat
    /\ pc \in OnePcs =>
          /\ chunk.chunkHighUSN \in Nat
          /\ DOMAIN chunk.notes \subseteq Notes /\ chunk.expungedNotes \subseteq Notes
          /\ \A n \in DOMAIN chunk.notes : chunk.notes[n] = cur
    /\ pc \in MessagePcs =>
          /\ chunk.last_timestamp \in 0 .. clock
          /\ chunk.shared_note_memberships \subseteq Notes
          /\ chunk.expunged_shared_note_memberships \subseteq Notes
          /\ chunk.notes_to_sync \subseteq Notes
          /\ chunk.expunged_notes \subseteq Notes
          /\ ahead \subseteq Notes
    /\ pc \in {"scheduleShared", "dropShared"} => cur \in Notes

\* A download is for a linked notebook that the row is filed under, or a share.
Results ==
    \A n \in Notes : results[n] # None =>
        /\ pc = "download"
        /\ results[n].nb = Home[n]
        /\ n \in shared_notes \/ is_note_in_linked_notebook(n)

\* The types, as far as the proof needs them.
Typed == ServerTypes /\ TableTypes /\ Filed /\ ProcessTypes /\ Results

----------------------------------------------------------------------------
(* The servers.                                                            *)

\* One clock numbers everything; a note that is gone has changed before and is
\* not shared.
Numbered ==
    /\ \A n \in Notes : /\ remote[n].usn <= clock
                        /\ remote[n].live => remote[n].usn # 0
                        /\ remote[n].shared => remote[n].live
    /\ \A l \in Linked : source[l].count <= clock
    /\ \A i \in DOMAIN events : events[i].updated <= clock
    /\ \A i, j \in DOMAIN events : i < j => events[i].updated < events[j].updated

\* An event that starts or ends a share.
Turns(i, n) == /\ events[i].note = n
               /\ events[i].kind = "membership" \/ events[i].del

\* The stream knows who is a share: the last such event about a note says it.
Told ==
    /\ \A i \in DOMAIN events :
          /\ remote[events[i].note].usn # 0
          /\ events[i].kind = "note" /\ events[i].del => ~ remote[events[i].note].live
    /\ \A n \in Notes : remote[n].shared => \E i \in DOMAIN events : Turns(i, n)
    /\ \A i \in DOMAIN events : \A n \in Notes :
          Turns(i, n) /\ (\A j \in DOMAIN events : j > i => ~ Turns(j, n))
              => (remote[n].shared <=> ~ events[i].del)

\* What is true of the servers, whatever the program does.
Known == Numbered /\ Told

----------------------------------------------------------------------------
(* Linked notebooks.                                                       *)

\* The tables have what the linked notebook l says of its note n.
Reflected(n, l) ==
    IF remote[n].live
    THEN notes[n] # None /\ notes[n].notebook_guid = l /\ notes[n].raw_note \in {NULL, remote[n].usn}
    ELSE notes[n] = None \/ notes[n].notebook_guid # l

\* Everything that changed in l up to a number is in the tables.
ReflectedUpTo(l, high) ==
    \A n \in Notes : Home[n] = l /\ remote[n].usn \in 1 .. high => Reflected(n, l)

\* A number is saved only for a notebook that was joined, and is not ahead of
\* the clock.
Links ==
    \A l \in Linked :
        /\ linked_usn[l] # None => linked_usn[l] <= clock /\ link[l].state # "none"
        /\ l \in listed => link[l].state # "none"
        /\ pc \in {"linked", "getLinked"} \cup OnePcs /\ l \in ahead => link[l].state # "none"
        /\ pc \in {"getLinked"} \cup OnePcs /\ cur = l => link[l].state # "none"
        /\ pc \in OwnPcs /\ l \in chunk.expungedLinkedNotebooks => link[l].state = "left"
        /\ pc \in {"expungeLinked", "rehome", "dropNotebook"} /\ l \in ahead =>
              link[l].state = "left"
        /\ pc \in {"rehome", "dropNotebook"} /\ cur = l => link[l].state = "left"

\* The saved number is honest.
Cursors == \A l \in Linked : Joined(l) /\ linked_usn[l] # None => ReflectedUpTo(l, linked_usn[l])

\* The scan of a notebook has what it has passed, and is ahead of the number
\* that is saved.
Scanned ==
    pc \in {"getLinked"} \cup OnePcs =>
        /\ after <= clock
        /\ Joined(cur) => ReflectedUpTo(cur, after)
        /\ linked_usn[cur] # None => linked_usn[cur] <= after

\* The chunk has what changed in its window and did not change again.
Window ==
    pc \in OnePcs =>
        /\ after < chunk.chunkHighUSN /\ chunk.chunkHighUSN <= clock
        /\ \A n \in Notes : Home[n] = cur /\ remote[n].usn \in after + 1 .. chunk.chunkHighUSN =>
              n \in IF remote[n].live THEN DOMAIN chunk.notes ELSE chunk.expungedNotes
        /\ \A n \in DOMAIN chunk.notes :
              /\ Home[n] = cur
              /\ \/ remote[n].live /\ remote[n].usn \in after + 1 .. chunk.chunkHighUSN
                 \/ remote[n].usn > chunk.chunkHighUSN
        /\ \A n \in chunk.expungedNotes : ~ remote[n].live /\ remote[n].usn # 0

\* What of the chunk is in the tables.
Applied ==
    \A n \in Notes :
        /\ pc \in {"addLinkedNotebooks", "addLinkedNotes", "setLinkedUSN"}
              /\ n \in chunk.expungedNotes /\ n \notin DOMAIN chunk.notes => notes[n] = None
        /\ pc = "setLinkedUSN" /\ n \in DOMAIN chunk.notes =>
              notes[n] # None /\ notes[n].notebook_guid = cur /\ notes[n].raw_note = NULL

\* A row that is about to be dropped is in no linked notebook.
Dropped == pc = "dropShared" => ~ is_note_in_linked_notebook(cur)

\* A download that waits is not older than what its notebook claims.
ResultsLinked ==
    \A n \in Notes : results[n] # None /\ Home[n] # None =>
        LET l == Home[n] IN
        linked_usn[l] # None /\ remote[n].usn <= linked_usn[l] =>
            remote[n].live /\ results[n].usn = remote[n].usn

\* What is claimed of linked notebooks.
LinkedInv == Links /\ Cursors /\ Scanned /\ Window /\ Applied /\ Dropped /\ ResultsLinked

----------------------------------------------------------------------------
(* Shared notes.                                                           *)

\* Event i of m starts or ends the share of n.
IsMember(m, i, n) == m[i].kind = "membership" /\ m[i].note = n

\* Of the events in s, the last membership of a note has this value of del.
MembersOf(m, s, del) ==
    {n \in Notes : \E i \in s : /\ IsMember(m, i, n) /\ m[i].del = del
                                /\ \A j \in s : j > i => ~ IsMember(m, j, n)}
\* Of the events in s, the last one about a note is no deletion.
SyncOf(m, s) ==
    {n \in Notes : \E i \in s : /\ m[i].note = n /\ ~ m[i].del
                                /\ \A j \in s : j > i => m[j].note # n}
\* An event in s says that the note is gone.
ExpungedOf(m, s) ==
    {n \in Notes : \E i \in s : m[i].note = n /\ m[i].kind = "note" /\ m[i].del}

\* The events of the message in hand.
Message == {i \in DOMAIN events : /\ connection <= events[i].updated
                                  /\ events[i].updated <= chunk.last_timestamp}

\* What the parser made of them.
Parsed ==
    pc \in MessagePcs =>
        /\ chunk.shared_note_memberships = MembersOf(events, Message, FALSE)
        /\ chunk.expunged_shared_note_memberships = MembersOf(events, Message, TRUE)
        /\ chunk.notes_to_sync = SyncOf(events, Message)
        /\ chunk.expunged_notes = ExpungedOf(events, Message)

\* What of the message is in the tables.  A deletion also removes what a
\* membership before it has added.
Processed ==
    \A n \in Notes :
        /\ pc \in MessagePcs /\ n \in chunk.shared_note_memberships =>
              /\ pc \in {"memberships", "scheduleShared"} =>
                    n \in ahead \/ (n \in shared_notes /\ notes[n] # None)
              /\ pc \in {"expungeShared", "removeShared"} => n \in shared_notes
              /\ pc \notin {"memberships", "scheduleShared"} /\ n \notin chunk.expunged_notes =>
                    n \in shared_notes /\ notes[n] # None
              /\ pc \notin {"memberships", "scheduleShared", "expungeShared"}
                    /\ n \in chunk.expunged_notes => notes[n] = None
        /\ pc \in {"expungeShared", "removeShared", "unshare", "dropShared"}
              /\ n \in chunk.notes_to_sync /\ n \in shared_notes =>
                 notes[n] = None \/ notes[n].raw_note = NULL
        /\ pc = "removeShared" /\ n \in chunk.expunged_notes /\ n \in shared_notes =>
              notes[n] = None
        /\ pc \in {"unshare", "dropShared"} /\ n \in chunk.expunged_notes => n \notin shared_notes
        /\ pc \in {"unshare", "dropShared"} /\ n \in chunk.expunged_shared_note_memberships =>
              \/ n \in ahead
              \/ n \notin shared_notes
                    /\ (notes[n] = None \/ notes[n].notebook_guid # SharedWithMe)

\* The notes that are left of a list of the message, and the one in hand.
AtHand ==
    /\ pc = "memberships" => ahead \subseteq chunk.shared_note_memberships
    /\ pc = "scheduleShared" => /\ ahead \subseteq chunk.shared_note_memberships
                                /\ cur \in ahead /\ cur \in shared_notes
    /\ pc = "unshare" => ahead \subseteq chunk.expunged_shared_note_memberships
    /\ pc = "dropShared" => /\ ahead \subseteq chunk.expunged_shared_note_memberships
                            /\ cur \in ahead /\ cur \notin shared_notes

\* A turn that lies before the saved time.
Due(i) == connection <= events[i].updated

\* A note is tracked exactly if it is shared, unless events will tell.
Tracked ==
    \A n \in Notes :
        /\ n \in shared_notes => remote[n].usn # 0
        /\ (\A i \in DOMAIN events : Turns(i, n) => ~ Due(i)) =>
              (n \in shared_notes <=> remote[n].shared)

\* A note that is tracked has its row, unless the event that starts the share
\* comes again.
HasRow ==
    \A n \in shared_notes : remote[n].live =>
        \/ notes[n] # None
        \/ \E i \in DOMAIN events : Due(i) /\ events[i].note = n /\ events[i].kind = "membership"

\* A note that is not tracked is not filed under the synthetic notebook, unless
\* the event that ended the share comes again.
NotFiled ==
    \A n \in Notes \ shared_notes : notes[n] # None /\ notes[n].notebook_guid = SharedWithMe =>
        \E i \in DOMAIN events : Due(i) /\ events[i].note = n /\ events[i].kind = "membership"

\* A shared note about which no event is due is held or scheduled; so is a
\* download of it that waits.
UpToDate ==
    \A n \in Notes : remote[n].shared /\ Settled(n) =>
        /\ notes[n] # None /\ notes[n].raw_note \in {NULL, remote[n].usn}
        /\ results[n] # None => results[n].usn = remote[n].usn

\* What is claimed of shared notes.
SharedInv == Parsed /\ Processed /\ AtHand /\ Tracked /\ HasRow /\ NotFiled /\ UpToDate

\* The inductive invariant.
IInv == Typed /\ Known /\ LinkedInv /\ SharedInv

----------------------------------------------------------------------------
(* The parser.                                                             *)

\* What the parser makes of the events in s, in their order.
ParsedOf(m, s) ==
    [shared_note_memberships |-> MembersOf(m, s, FALSE),
     expunged_shared_note_memberships |-> MembersOf(m, s, TRUE),
     notes_to_sync |-> SyncOf(m, s), expunged_notes |-> ExpungedOf(m, s)]

\* The fold over the events of m, as a function of the positions folded.
ParseStep(m, g) ==
    [s \in SUBSET DOMAIN m |-> IF s = {} THEN Empty
                               ELSE parse_instance(g[s \ {Max(s)}], m[Max(s)])]

\* The parser is that function.
LEMMA ParseIsChosen ==
    ASSUME NEW m
    PROVE  FoldLeft(parse_instance, Empty, m) = (CHOOSE g : g = ParseStep(m, g))[DOMAIN m]
BY DEF FoldLeft, MapThenFoldSet, ParseStep

\* The last event is parsed last.
LEMMA ParseOne ==
    ASSUME NEW m \in Seq(SharedEvent), NEW s \in SUBSET DOMAIN m, NEW k \in s,
           \A i \in s : i <= k
    PROVE  ParsedOf(m, s) = parse_instance(ParsedOf(m, s \ {k}), m[k])
<1> DEFINE t == s \ {k}
           n == m[k].note
<1>1. \A i \in s : i \in Nat /\ m[i] \in SharedEvent
  OBVIOUS
<1>2. \A i \in t : i \in s /\ i < k /\ ~ i > k
  BY <1>1
<1>3. m[k] \in SharedEvent /\ n \in Notes /\ k \in s /\ ~ k > k
  BY <1>1 DEF SharedEvent
<1>4. \A i \in s : i = k \/ i \in t
  OBVIOUS
<1> HIDE DEF t
<1>5. ASSUME m[k].kind = "membership" PROVE
      /\ \A d \in BOOLEAN : MembersOf(m, s, d) =
            IF m[k].del = d THEN MembersOf(m, t, d) \cup {n} ELSE MembersOf(m, t, d) \ {n}
      /\ ExpungedOf(m, s) = ExpungedOf(m, t)
  <2>1. ASSUME NEW d \in BOOLEAN, NEW x \in Notes
        PROVE  x \in MembersOf(m, s, d) <=>
                  IF x = n THEN m[k].del = d ELSE x \in MembersOf(m, t, d)
    BY <1>2, <1>3, <1>4, <1>5 DEF MembersOf, IsMember
  <2>2. ASSUME NEW d \in BOOLEAN
        PROVE  MembersOf(m, s, d) =
            IF m[k].del = d THEN MembersOf(m, t, d) \cup {n} ELSE MembersOf(m, t, d) \ {n}
    <3>1. MembersOf(m, s, d) \subseteq Notes /\ MembersOf(m, t, d) \subseteq Notes
      BY DEF MembersOf
    <3> QED
      BY <1>3, <2>1, <3>1
  <2>3. ExpungedOf(m, s) = ExpungedOf(m, t)
    BY <1>2, <1>4, <1>5 DEF ExpungedOf
  <2> QED
    BY <2>2, <2>3
<1>6. ASSUME m[k].kind = "note" PROVE
      /\ \A d \in BOOLEAN : MembersOf(m, s, d) = MembersOf(m, t, d)
      /\ ExpungedOf(m, s) = IF m[k].del THEN ExpungedOf(m, t) \cup {n} ELSE ExpungedOf(m, t)
  <2>1. ASSUME NEW d \in BOOLEAN PROVE MembersOf(m, s, d) = MembersOf(m, t, d)
    <3>1. ASSUME NEW x \in Notes
          PROVE  x \in MembersOf(m, s, d) <=> x \in MembersOf(m, t, d)
      BY <1>2, <1>3, <1>4, <1>6 DEF MembersOf, IsMember
    <3>2. MembersOf(m, s, d) \subseteq Notes /\ MembersOf(m, t, d) \subseteq Notes
      BY DEF MembersOf
    <3> QED
      BY <3>1, <3>2
  <2>2. ExpungedOf(m, s) = IF m[k].del THEN ExpungedOf(m, t) \cup {n} ELSE ExpungedOf(m, t)
    BY <1>2, <1>3, <1>4, <1>6 DEF ExpungedOf
  <2> QED
    BY <2>1, <2>2
<1>7. SyncOf(m, s) = IF m[k].del THEN SyncOf(m, t) \ {n} ELSE SyncOf(m, t) \cup {n}
  <2>1. ASSUME NEW x \in Notes
        PROVE  x \in SyncOf(m, s) <=> IF x = n THEN ~ m[k].del ELSE x \in SyncOf(m, t)
    BY <1>2, <1>3, <1>4 DEF SyncOf
  <2>2. SyncOf(m, s) \subseteq Notes /\ SyncOf(m, t) \subseteq Notes
    BY DEF SyncOf
  <2> QED
    BY <1>3, <2>1, <2>2
<1>8. m[k].kind \in {"membership", "note"} /\ m[k].del \in BOOLEAN
  BY <1>3 DEF SharedEvent
<1>9. CASE m[k].kind = "membership"
  BY <1>5, <1>7, <1>8, <1>9 DEF ParsedOf, parse_instance, parse_membership_instance, t
<1>10. CASE m[k].kind = "note"
  BY <1>6, <1>7, <1>8, <1>10 DEF ParsedOf, parse_instance, parse_note_entity_instance, t
<1> QED
  BY <1>8, <1>9, <1>10

\* The parser makes of a message what its definition by the last events says.
LEMMA Parses ==
    ASSUME NEW m \in Seq(SharedEvent)
    PROVE  FoldLeft(parse_instance, Empty, m) = ParsedOf(m, DOMAIN m)
<1>1. IsFiniteSet(DOMAIN m) /\ DOMAIN m \subseteq Nat /\ \A i \in DOMAIN m : i <= Len(m)
  BY FS_Interval
<1>2. ASSUME NEW s \in SUBSET DOMAIN m, s # {}
      PROVE  Max(s) \in s /\ \A i \in s : i <= Max(s)
  <2>1. s \in SUBSET Nat /\ Len(m) \in Nat /\ \A i \in s : i <= Len(m)
    BY <1>1
  <2>2. Max(s) \in s /\ \A i \in s : Max(s) >= i
    BY <1>2, <2>1, MaxOfNats
  <2> QED
    BY <2>1, <2>2
<1>3. ParsedOf(m, {}) = Empty
  BY DEF ParsedOf, Empty, MembersOf, SyncOf, ExpungedOf
<1> DEFINE h == [s \in SUBSET DOMAIN m |-> ParsedOf(m, s)]
<1>4. h = ParseStep(m, h)
  <2>1. ASSUME NEW s \in SUBSET DOMAIN m, s # {}
        PROVE  h[s] = parse_instance(h[s \ {Max(s)}], m[Max(s)])
    <3>1. h[s] = ParsedOf(m, s) /\ h[s \ {Max(s)}] = ParsedOf(m, s \ {Max(s)})
      OBVIOUS
    <3> QED
      BY <1>2, <2>1, <3>1, ParseOne
  <2>2. h[{}] = Empty
    BY <1>3
  <2>3. h = [s \in SUBSET DOMAIN m |-> h[s]]
    OBVIOUS
  <2> HIDE DEF h
  <2>4. \A s \in SUBSET DOMAIN m :
           h[s] = IF s = {} THEN Empty ELSE parse_instance(h[s \ {Max(s)}], m[Max(s)])
    BY <2>1, <2>2
  <2> QED
    BY <2>3, <2>4, Zenon DEF ParseStep
<1>5. PICK g : g = (CHOOSE k : k = ParseStep(m, k))
  OBVIOUS
<1>6. g = ParseStep(m, g)
  BY <1>4, <1>5, Zenon
<1> HIDE DEF h
<1> DEFINE F == {s \in SUBSET DOMAIN m : g[s] # h[s]}
<1>7. F = {}
  <2> SUFFICES ASSUME F # {} PROVE FALSE
    OBVIOUS
  <2>1. F \in SUBSET SUBSET DOMAIN m /\ F # {} /\ \A s \in SUBSET DOMAIN m : s \in F <=> g[s] # h[s]
    OBVIOUS
  <2> HIDE DEF F
  <2>2. PICK s \in F : \A B \in SUBSET s : B # s => B \notin F
    BY <1>1, <2>1, SmallestSubset
  <2>3. s \in SUBSET DOMAIN m /\ g[s] # h[s]
    BY <2>1
  <2>4. \A k : k = ParseStep(m, k) =>
           k[s] = IF s = {} THEN Empty ELSE parse_instance(k[s \ {Max(s)}], m[Max(s)])
    BY <2>3, Zenon DEF ParseStep
  <2>5. s # {} /\ g[s \ {Max(s)}] # h[s \ {Max(s)}]
    BY <1>4, <1>6, <2>3, <2>4
  <2>6. s \ {Max(s)} \in SUBSET s /\ s \ {Max(s)} # s /\ s \ {Max(s)} \in SUBSET DOMAIN m
    BY <1>2, <2>3, <2>5
  <2> QED
    BY <2>1, <2>2, <2>5, <2>6
<1>8. g[DOMAIN m] = h[DOMAIN m]
  BY <1>7
<1>9. h[DOMAIN m] = ParsedOf(m, DOMAIN m)
  BY DEF h
<1> QED
  BY <1>5, <1>8, <1>9, ParseIsChosen

\* The events that are due, up to event k.
DueUpTo(k) == {i \in DOMAIN events : /\ connection <= events[i].updated
                                     /\ events[i].updated <= events[k].updated}

\* A message is what lies between two times, and the chunk is made of it.
LEMMA Gets ==
    ASSUME ServerTypes, Numbered, connection \in Nat, NEW k \in NewEvents
    PROVE  parse_sync_event_data(SubSeq(events, Min(NewEvents), k))
              = SyncChunkV2(ParsedOf(events, DueUpTo(k)), events[k].updated)
<1>1. PICK m, s : /\ m = SubSeq(events, Min(NewEvents), k)
                  /\ s = {i \in DOMAIN events : /\ connection <= events[i].updated
                                                /\ events[i].updated <= events[k].updated}
  OBVIOUS
<1> DEFINE lo == Min(NewEvents)
<1>2. /\ Len(events) \in Nat /\ DOMAIN events = 1 .. Len(events)
      /\ \A i \in DOMAIN events : events[i] \in SharedEvent
  BY DEF ServerTypes
<1>3. /\ \A i \in DOMAIN events : events[i].updated \in Nat
      /\ \A i, j \in DOMAIN events : i < j => events[i].updated < events[j].updated
  BY <1>2 DEF SharedEvent, Numbered
<1>4. NewEvents \in SUBSET Nat /\ NewEvents # {} /\ k \in DOMAIN events /\ k \in Nat
  BY <1>2 DEF NewEvents
<1>5. lo \in NewEvents /\ \A i \in NewEvents : lo <= i
  BY <1>4, MinOfNats
<1>6. lo \in DOMAIN events /\ lo \in Nat /\ lo <= k /\ lo >= 1 /\ k <= Len(events)
  BY <1>2, <1>4, <1>5 DEF NewEvents
<1>7. connection <= events[lo].updated
  BY <1>5 DEF NewEvents
<1> HIDE DEF lo
<1>8. ASSUME NEW i \in lo .. k
      PROVE  i \in s
  <2>1. i \in DOMAIN events /\ i \in Nat /\ lo <= i /\ i <= k
    BY <1>2, <1>4, <1>6
  <2>2. events[lo].updated <= events[i].updated
    <3>1. lo = i \/ lo < i
      BY <1>6, <2>1
    <3> QED
      BY <1>3, <1>6, <2>1, <3>1
  <2>3. events[i].updated <= events[k].updated
    <3>1. k = i \/ i < k
      BY <1>4, <2>1
    <3> QED
      BY <1>3, <1>4, <2>1, <3>1
  <2> QED
    BY <1>1, <1>3, <1>4, <1>6, <1>7, <2>1, <2>2, <2>3
<1>9. ASSUME NEW i \in s
      PROVE  i \in lo .. k
  <2>1. i \in DOMAIN events /\ i \in Nat
    BY <1>1, <1>2
  <2>2. lo <= i
    BY <1>1, <1>5, <2>1 DEF NewEvents
  <2>3. i <= k
    <3>1. ~ events[k].updated < events[i].updated
      BY <1>1, <1>3, <1>4, <2>1
    <3> QED
      BY <1>3, <1>4, <2>1, <3>1
  <2> QED
    BY <1>4, <1>6, <2>1, <2>2, <2>3
<1>10. s = lo .. k
  BY <1>8, <1>9
<1>11. PICK N : N = k - lo + 1
  OBVIOUS
<1>12. /\ m \in Seq(SharedEvent) /\ DOMAIN m = 1 .. N
       /\ \A i \in 1 .. N : m[i] = events[lo + i - 1]
  BY <1>1, <1>2, <1>4, <1>6, <1>11 DEF lo, ServerTypes
<1>13. /\ N \in Nat /\ N >= 1 /\ N \in 1 .. N /\ lo + N - 1 = k
       /\ \A i \in 1 .. N : lo + i - 1 \in lo .. k
       /\ \A x \in lo .. k : x - lo + 1 \in 1 .. N /\ lo + (x - lo + 1) - 1 = x
       /\ \A i \in 1 .. N : \A x \in lo .. k :
             /\ i > x - lo + 1 <=> lo + i - 1 > x
             /\ x > lo + i - 1 <=> x - lo + 1 > i
  <2>1. lo \in Nat \ {0} /\ k \in Nat /\ lo <= k
    BY <1>4, <1>6
  <2> QED
    BY <1>11, <2>1
<1>14. last_timestamp(m) = events[k].updated
  <2> DEFINE T == {m[i].updated : i \in DOMAIN m}
  <2>1. ASSUME NEW i \in 1 .. N PROVE m[i].updated \in Nat /\ m[i].updated <= events[k].updated
    <3>1. lo + i - 1 \in lo .. k
      BY <1>13
    <3>2. lo + i - 1 \in s
      BY <1>10, <3>1
    <3> QED
      BY <1>1, <1>3, <1>12, <3>2
  <2>2. events[k].updated \in T /\ T \in SUBSET Nat /\ \A x \in T : x <= events[k].updated
    <3>1. m[N] = events[k] /\ N \in DOMAIN m
      BY <1>12, <1>13
    <3> QED
      BY <1>12, <2>1, <3>1
  <2>3. last_timestamp(m) = Max(T)
    BY DEF last_timestamp
  <2> HIDE DEF T
  <2>4. events[k].updated \in Nat
    BY <2>2
  <2>5. Max(T) \in T /\ \A x \in T : Max(T) >= x
    BY <2>2, <2>4, MaxOfNats
  <2>6. Max(T) \in Nat /\ Max(T) <= events[k].updated /\ Max(T) >= events[k].updated
    BY <2>2, <2>5
  <2> QED
    BY <2>3, <2>4, <2>6
<1>15. /\ \A i \in 1 .. N : lo + i - 1 \in s /\ m[i] = events[lo + i - 1]
       /\ \A x \in s : x - lo + 1 \in 1 .. N /\ m[x - lo + 1] = events[x]
       /\ \A i \in 1 .. N : \A x \in s :
             /\ i > x - lo + 1 <=> lo + i - 1 > x
             /\ x > lo + i - 1 <=> x - lo + 1 > i
  <2>1. \A x \in s : x - lo + 1 \in 1 .. N /\ m[x - lo + 1] = events[lo + (x - lo + 1) - 1]
    BY <1>10, <1>12, <1>13
  <2> QED
    BY <1>10, <1>12, <1>13, <2>1
<1>16. ASSUME NEW d \in BOOLEAN
       PROVE  MembersOf(m, 1 .. N, d) = MembersOf(events, s, d)
  <2>1. ASSUME NEW n \in Notes, n \in MembersOf(m, 1 .. N, d)
        PROVE  n \in MembersOf(events, s, d)
    <3>1. PICK i \in 1 .. N : /\ IsMember(m, i, n) /\ m[i].del = d
                              /\ \A j \in 1 .. N : j > i => ~ IsMember(m, j, n)
      BY <2>1 DEF MembersOf
    <3>2. lo + i - 1 \in s /\ IsMember(events, lo + i - 1, n) /\ events[lo + i - 1].del = d
      BY <1>15, <3>1 DEF IsMember
    <3>3. ASSUME NEW y \in s, y > lo + i - 1
          PROVE  ~ IsMember(events, y, n)
      <4>1. y - lo + 1 \in 1 .. N /\ y - lo + 1 > i /\ m[y - lo + 1] = events[y]
        BY <1>15, <3>3
      <4> QED
        BY <3>1, <4>1 DEF IsMember
    <3> QED
      BY <3>2, <3>3 DEF MembersOf
  <2>2. ASSUME NEW n \in Notes, n \in MembersOf(events, s, d)
        PROVE  n \in MembersOf(m, 1 .. N, d)
    <3>1. PICK x \in s : /\ IsMember(events, x, n) /\ events[x].del = d
                         /\ \A y \in s : y > x => ~ IsMember(events, y, n)
      BY <2>2 DEF MembersOf
    <3>2. x - lo + 1 \in 1 .. N /\ IsMember(m, x - lo + 1, n) /\ m[x - lo + 1].del = d
      BY <1>15, <3>1 DEF IsMember
    <3>3. ASSUME NEW j \in 1 .. N, j > x - lo + 1
          PROVE  ~ IsMember(m, j, n)
      <4>1. lo + j - 1 \in s /\ lo + j - 1 > x /\ m[j] = events[lo + j - 1]
        BY <1>15, <3>3
      <4> QED
        BY <3>1, <4>1 DEF IsMember
    <3> QED
      BY <3>2, <3>3 DEF MembersOf
  <2>3. MembersOf(m, 1 .. N, d) \subseteq Notes /\ MembersOf(events, s, d) \subseteq Notes
    BY DEF MembersOf
  <2> QED
    BY <2>1, <2>2, <2>3
<1>17. SyncOf(m, 1 .. N) = SyncOf(events, s)
  <2>1. ASSUME NEW n \in Notes, n \in SyncOf(m, 1 .. N)
        PROVE  n \in SyncOf(events, s)
    <3>1. PICK i \in 1 .. N : /\ m[i].note = n /\ ~ m[i].del
                              /\ \A j \in 1 .. N : j > i => m[j].note # n
      BY <2>1 DEF SyncOf
    <3>2. lo + i - 1 \in s /\ events[lo + i - 1].note = n /\ ~ events[lo + i - 1].del
      BY <1>15, <3>1
    <3>3. ASSUME NEW y \in s, y > lo + i - 1
          PROVE  events[y].note # n
      <4>1. y - lo + 1 \in 1 .. N /\ y - lo + 1 > i /\ m[y - lo + 1] = events[y]
        BY <1>15, <3>3
      <4> QED
        BY <3>1, <4>1
    <3> QED
      BY <3>2, <3>3 DEF SyncOf
  <2>2. ASSUME NEW n \in Notes, n \in SyncOf(events, s)
        PROVE  n \in SyncOf(m, 1 .. N)
    <3>1. PICK x \in s : /\ events[x].note = n /\ ~ events[x].del
                         /\ \A y \in s : y > x => events[y].note # n
      BY <2>2 DEF SyncOf
    <3>2. x - lo + 1 \in 1 .. N /\ m[x - lo + 1].note = n /\ ~ m[x - lo + 1].del
      BY <1>15, <3>1
    <3>3. ASSUME NEW j \in 1 .. N, j > x - lo + 1
          PROVE  m[j].note # n
      <4>1. lo + j - 1 \in s /\ lo + j - 1 > x /\ m[j] = events[lo + j - 1]
        BY <1>15, <3>3
      <4> QED
        BY <3>1, <4>1
    <3> QED
      BY <3>2, <3>3 DEF SyncOf
  <2>3. SyncOf(m, 1 .. N) \subseteq Notes /\ SyncOf(events, s) \subseteq Notes
    BY DEF SyncOf
  <2> QED
    BY <2>1, <2>2, <2>3
<1>18. ExpungedOf(m, 1 .. N) = ExpungedOf(events, s)
  <2>1. ASSUME NEW n \in ExpungedOf(m, 1 .. N) PROVE n \in ExpungedOf(events, s)
    <3>1. PICK i \in 1 .. N : m[i].note = n /\ m[i].kind = "note" /\ m[i].del
      BY DEF ExpungedOf
    <3>2. lo + i - 1 \in s /\ m[i] = events[lo + i - 1]
      BY <1>15
    <3> QED
      BY <3>1, <3>2 DEF ExpungedOf
  <2>2. ASSUME NEW n \in ExpungedOf(events, s) PROVE n \in ExpungedOf(m, 1 .. N)
    <3>1. PICK x \in s : events[x].note = n /\ events[x].kind = "note" /\ events[x].del
      BY DEF ExpungedOf
    <3>2. x - lo + 1 \in 1 .. N /\ m[x - lo + 1] = events[x]
      BY <1>15
    <3> QED
      BY <3>1, <3>2 DEF ExpungedOf
  <2> QED
    BY <2>1, <2>2
<1>19. FoldLeft(parse_instance, Empty, m) = ParsedOf(m, 1 .. N)
  BY <1>12, Parses
<1>20. parse_sync_event_data(m) = SyncChunkV2(ParsedOf(m, 1 .. N), last_timestamp(m))
  BY <1>19 DEF parse_sync_event_data
<1>21. ParsedOf(m, 1 .. N) = ParsedOf(events, s)
  BY <1>16, <1>17, <1>18 DEF ParsedOf
<1> QED
  BY <1>1, <1>14, <1>20, <1>21 DEF DueUpTo

----------------------------------------------------------------------------
(* Types.                                                                  *)

\* The synthetic notebook is not a linked one, and None is no notebook.
LEMMA Names ==
    /\ SharedWithMe \in Notebooks /\ SharedWithMe \notin Linked /\ None \notin Notebooks
    /\ Linked \subseteq Notebooks /\ None \notin Linked
    /\ \A n \in Notes : Home[n] \in Linked \cup {None}
    /\ None \notin NoteRow
BY HomeAssumption, NoneAssumption DEF Linked

\* Everything is empty.
LEMMA InitInv == Init => IInv
<1> SUFFICES ASSUME Init PROVE IInv
  OBVIOUS
<1>1. ServerTypes
  BY DEF Init, ServerTypes
<1>2. TableTypes /\ Filed
  BY DEF Init, TableTypes, Filed
<1>3. ProcessTypes
  BY DEF Init, ProcessTypes, Pcs, OwnPcs, OnePcs, MessagePcs, NoResults
<1>4. Results
  BY DEF Init, Results, NoResults
<1>5. Known
  BY DEF Init, Known, Numbered, Told
<1>6. LinkedInv
  BY DEF Init, LinkedInv, Links, Cursors, Scanned, Window, Applied, Dropped, ResultsLinked,
         OwnPcs, OnePcs, NoResults
<1>7. SharedInv
  <2>1. Parsed /\ Processed /\ AtHand
    BY DEF Init, Parsed, Processed, AtHand, MessagePcs
  <2>2. Tracked /\ HasRow /\ NotFiled /\ UpToDate
    BY DEF Init, Tracked, HasRow, NotFiled, UpToDate, NoResults
  <2> QED
    BY <2>1, <2>2 DEF SharedInv
<1> QED
  BY <1>1, <1>2, <1>3, <1>4, <1>5, <1>6, <1>7 DEF IInv, Typed

----------------------------------------------------------------------------
(* The servers.                                                            *)

\* A note as the service keeps it.
SharedNote == [usn : Nat, live : BOOLEAN, shared : BOOLEAN]

\* Note n is as it was but for its share, or it changed just now; what is gone
\* does not come back.
NoteChange(n) ==
    /\ \/ remote'[n].usn = remote[n].usn /\ (remote'[n].live <=> remote[n].live)
       \/ remote'[n].usn = clock + 1
    /\ remote[n].usn # 0 => remote'[n].usn # 0
    /\ remote[n].usn # 0 /\ ~ remote[n].live => ~ remote'[n].live

\* No event: no share began or ended, and no shared note changed.
Quiet ==
    /\ events' = events
    /\ \A n \in Notes : remote'[n] = remote[n]
                           \/ (~ remote[n].shared /\ ~ remote'[n].shared)

\* The event e: the last that its note has to tell.
Speaks(e) ==
    /\ events' = Append(events, e)
    /\ e \in SharedEvent /\ e.updated = clock + 1
    /\ \A n \in Notes : n # e.note => remote'[n] = remote[n]
    /\ remote[e.note].usn # 0 /\ remote'[e.note].usn # 0
    /\ e.kind = "membership" => /\ remote'[e.note].shared <=> ~ e.del
                                /\ remote'[e.note].live
    /\ e.kind = "note" => /\ remote[e.note].shared
                          /\ remote'[e.note].shared <=> ~ e.del
                          /\ remote'[e.note].live <=> ~ e.del

\* A linked notebook is joined once and left once.
LinkChange(l) ==
    \/ link'[l] = link[l]
    \/ link[l].state = "none" /\ link'[l].state = "joined"
    \/ link[l].state = "joined" /\ link'[l].state = "left"

\* A note that is written.
LEMMA Writes ==
    ASSUME ServerTypes, Numbered, NEW n \in Notes, WriteNote(n)
    PROVE  /\ remote' \in [Notes -> SharedNote]
           /\ remote'[n].usn = clock + 1 /\ remote'[n].live
           /\ remote'[n].shared <=> remote[n].shared
           /\ \A k \in Notes : k # n => remote'[k] = remote[k]
<1>1. PICK u \in Nat : u = clock + 1
  BY DEF ServerTypes
<1>2. ASSUME NEW r \in SharedNote
      PROVE  /\ [r EXCEPT !.usn = u, !.live = TRUE] \in SharedNote
             /\ [r EXCEPT !.usn = u, !.live = TRUE].usn = u
             /\ [r EXCEPT !.usn = u, !.live = TRUE].live
             /\ [r EXCEPT !.usn = u, !.live = TRUE].shared = r.shared
  BY DEF SharedNote
<1>3. remote \in [Notes -> SharedNote]
  BY DEF ServerTypes, SharedNote
<1>4. remote' = [remote EXCEPT ![n] = [remote[n] EXCEPT !.usn = u, !.live = TRUE]]
  BY <1>1, <1>3 DEF WriteNote
<1> DEFINE r == [remote[n] EXCEPT !.usn = u, !.live = TRUE]
<1>5. r \in SharedNote /\ r.usn = u /\ r.live /\ r.shared = remote[n].shared
  BY <1>2, <1>3
<1>6. remote' = [remote EXCEPT ![n] = r]
  BY <1>4
<1> HIDE DEF r
<1>7. /\ remote' \in [Notes -> SharedNote] /\ remote'[n] = r
      /\ \A k \in Notes : k # n => remote'[k] = remote[k]
  BY <1>3, <1>5, <1>6
<1> QED
  BY <1>1, <1>5, <1>7

\* A note that goes.
LEMMA Expunges ==
    ASSUME ServerTypes, NEW n \in Notes, ExpungeNote(n)
    PROVE  /\ remote' \in [Notes -> SharedNote]
           /\ remote'[n].usn = clock + 1 /\ ~ remote'[n].live /\ ~ remote'[n].shared
           /\ \A k \in Notes : k # n => remote'[k] = remote[k]
<1>1. PICK u \in Nat : u = clock + 1
  BY DEF ServerTypes
<1>2. remote \in [Notes -> SharedNote]
  BY DEF ServerTypes, SharedNote
<1>3. remote' = [remote EXCEPT ![n] = [usn |-> u, live |-> FALSE, shared |-> FALSE]]
  BY <1>1 DEF ExpungeNote
<1> DEFINE r == [usn |-> u, live |-> FALSE, shared |-> FALSE]
<1>4. r \in SharedNote /\ r.usn = u /\ ~ r.live /\ ~ r.shared
  BY DEF SharedNote
<1>5. remote' = [remote EXCEPT ![n] = r]
  BY <1>3
<1> HIDE DEF r
<1>6. /\ remote' \in [Notes -> SharedNote] /\ remote'[n] = r
      /\ \A k \in Notes : k # n => remote'[k] = remote[k]
  BY <1>2, <1>4, <1>5
<1> QED
  BY <1>1, <1>4, <1>6

\* A share that begins or ends.
LEMMA Shares ==
    ASSUME ServerTypes, NEW n \in Notes, ShareNote(n)
    PROVE  /\ remote' \in [Notes -> SharedNote]
           /\ remote'[n].usn = remote[n].usn /\ remote[n].live /\ remote'[n].live
           /\ remote'[n].shared <=> ~ remote[n].shared
           /\ \A k \in Notes : k # n => remote'[k] = remote[k]
<1>1. remote \in [Notes -> SharedNote]
  BY DEF ServerTypes, SharedNote
<1>2. PICK b \in BOOLEAN : b <=> ~ remote[n].shared
  OBVIOUS
<1>3. remote' = [remote EXCEPT ![n] = [remote[n] EXCEPT !.shared = ~ remote[n].shared]]
  BY <1>1 DEF ShareNote
<1>4. ASSUME NEW r \in SharedNote
      PROVE  /\ [r EXCEPT !.shared = ~ r.shared] \in SharedNote
             /\ [r EXCEPT !.shared = ~ r.shared].usn = r.usn
             /\ [r EXCEPT !.shared = ~ r.shared].live = r.live
             /\ [r EXCEPT !.shared = ~ r.shared].shared <=> ~ r.shared
  BY DEF SharedNote
<1> DEFINE r == [remote[n] EXCEPT !.shared = ~ remote[n].shared]
<1>5. /\ r \in SharedNote /\ r.usn = remote[n].usn /\ r.live = remote[n].live
      /\ r.shared <=> ~ remote[n].shared
  BY <1>1, <1>4
<1>6. remote' = [remote EXCEPT ![n] = r]
  BY <1>3
<1> HIDE DEF r
<1>7. /\ remote' \in [Notes -> SharedNote] /\ remote'[n] = r
      /\ \A k \in Notes : k # n => remote'[k] = remote[k]
  BY <1>1, <1>5, <1>6
<1> QED
  BY <1>5, <1>7 DEF ShareNote

\* What a change of a note is to the program.
LEMMA NoteStep ==
    ASSUME ServerTypes, Known, NEW n \in Notes, WriteNote(n) \/ ExpungeNote(n) \/ ShareNote(n)
    PROVE  /\ remote' \in [Notes -> SharedNote]
           /\ events' \in Seq(SharedEvent)
           /\ source' \in [Linked -> [usn : Nat, count : Nat, open : BOOLEAN]]
           /\ \A l \in Linked : source'[l].count \in {source[l].count, clock + 1}
           /\ \A k \in Notes : NoteChange(k)
           /\ Quiet \/ \E e \in SharedEvent : Speaks(e)
           /\ UNCHANGED <<link, ownCount>>
<1>1. clock \in Nat /\ clock + 1 \in Nat /\ remote \in [Notes -> SharedNote]
  BY DEF ServerTypes, SharedNote
<1>2. ASSUME NEW del \in BOOLEAN, NEW kind \in {"membership", "note"}
      PROVE  /\ Event(kind, n, del) \in SharedEvent
             /\ Event(kind, n, del).kind = kind /\ Event(kind, n, del).del = del
             /\ Event(kind, n, del).note = n /\ Event(kind, n, del).updated = clock + 1
  BY <1>1 DEF Event, SharedEvent
<1>3. ASSUME events' = events \/ \E e \in SharedEvent : events' = Append(events, e)
      PROVE  events' \in Seq(SharedEvent)
  <2>1. events \in Seq(SharedEvent)
    BY DEF ServerTypes
  <2>2. \A s : \A q \in Seq(s), e \in s : Append(q, e) \in Seq(s)
    OBVIOUS
  <2> QED
    BY <1>3, <2>1, <2>2, Zenon
<1>4. ASSUME NEW del \in BOOLEAN, Publish(n, del)
      PROVE  /\ source' \in [Linked -> [usn : Nat, count : Nat, open : BOOLEAN]]
             /\ \A l \in Linked : source'[l].count \in {source[l].count, clock + 1}
             /\ IF remote[n].shared THEN events' = Append(events, Event("note", n, del))
                                    ELSE events' = events
  <2>1. PICK u \in Nat : u = clock + 1
    BY <1>1
  <2>2. \A l \in Linked : /\ [source[l] EXCEPT !.count = u]
                                \in [usn : Nat, count : Nat, open : BOOLEAN]
                          /\ [source[l] EXCEPT !.count = u].count = u
    BY DEF ServerTypes
  <2> QED
    BY <1>4, <2>1, <2>2 DEF ServerTypes, Publish
<1>5. /\ remote[n].live => remote[n].usn # 0
      /\ remote[n].shared => remote[n].live
  BY DEF Known, Numbered
<1>6. ASSUME WriteNote(n)
      PROVE  /\ remote' \in [Notes -> SharedNote]
             /\ events' \in Seq(SharedEvent)
             /\ source' \in [Linked -> [usn : Nat, count : Nat, open : BOOLEAN]]
             /\ \A l \in Linked : source'[l].count \in {source[l].count, clock + 1}
             /\ \A k \in Notes : NoteChange(k)
             /\ Quiet \/ \E e \in SharedEvent : Speaks(e)
  <2>1. /\ remote' \in [Notes -> SharedNote]
        /\ remote'[n].usn = clock + 1 /\ remote'[n].live
        /\ remote'[n].shared <=> remote[n].shared
        /\ \A k \in Notes : k # n => remote'[k] = remote[k]
    BY <1>6, Writes DEF Known
  <2>2. Publish(n, FALSE) /\ (remote[n].live \/ remote[n].usn = 0)
    BY <1>6 DEF WriteNote
  <2>3. \A k \in Notes : NoteChange(k)
    <3>1. NoteChange(n)
      BY <1>1, <2>1, <2>2 DEF NoteChange, SharedNote
    <3>2. ASSUME NEW k \in Notes, k # n PROVE NoteChange(k)
      BY <2>1, <3>2 DEF NoteChange
    <3> QED
      BY <3>1, <3>2
  <2>4. CASE remote[n].shared
    <3>1. events' = Append(events, Event("note", n, FALSE))
      BY <1>4, <2>2, <2>4
    <3>2. remote[n].usn # 0 /\ remote'[n].usn # 0
      BY <1>1, <1>5, <2>1, <2>4
    <3>3. Speaks(Event("note", n, FALSE))
      BY <1>2, <2>1, <2>4, <3>1, <3>2 DEF Speaks
    <3> QED
      BY <1>2, <1>3, <1>4, <2>1, <2>2, <2>3, <3>1, <3>3
  <2>5. CASE ~ remote[n].shared
    <3>1. events' = events
      BY <1>4, <2>2, <2>5
    <3>2. ASSUME NEW k \in Notes
          PROVE  remote'[k] = remote[k] \/ (~ remote[k].shared /\ ~ remote'[k].shared)
      <4>1. CASE k = n
        BY <2>1, <2>5, <4>1
      <4>2. CASE k # n
        BY <2>1, <4>2
      <4> QED
        BY <4>1, <4>2
    <3>3. Quiet
      BY <3>1, <3>2 DEF Quiet
    <3> QED
      BY <1>3, <1>4, <2>1, <2>2, <2>3, <3>1, <3>3
  <2> QED
    BY <2>4, <2>5
<1>7. ASSUME ExpungeNote(n)
      PROVE  /\ remote' \in [Notes -> SharedNote]
             /\ events' \in Seq(SharedEvent)
             /\ source' \in [Linked -> [usn : Nat, count : Nat, open : BOOLEAN]]
             /\ \A l \in Linked : source'[l].count \in {source[l].count, clock + 1}
             /\ \A k \in Notes : NoteChange(k)
             /\ Quiet \/ \E e \in SharedEvent : Speaks(e)
  <2>1. /\ remote' \in [Notes -> SharedNote]
        /\ remote'[n].usn = clock + 1 /\ ~ remote'[n].live /\ ~ remote'[n].shared
        /\ \A k \in Notes : k # n => remote'[k] = remote[k]
    BY <1>7, Expunges
  <2>2. Publish(n, TRUE) /\ remote[n].live
    BY <1>7 DEF ExpungeNote
  <2>3. \A k \in Notes : NoteChange(k)
    <3>1. NoteChange(n)
      BY <1>1, <2>1, <2>2 DEF NoteChange, SharedNote
    <3>2. ASSUME NEW k \in Notes, k # n PROVE NoteChange(k)
      BY <2>1, <3>2 DEF NoteChange
    <3> QED
      BY <3>1, <3>2
  <2>4. CASE remote[n].shared
    <3>1. events' = Append(events, Event("note", n, TRUE))
      BY <1>4, <2>2, <2>4
    <3>2. remote[n].usn # 0 /\ remote'[n].usn # 0
      BY <1>1, <1>5, <2>1, <2>4
    <3>3. Speaks(Event("note", n, TRUE))
      BY <1>2, <2>1, <2>4, <3>1, <3>2 DEF Speaks
    <3> QED
      BY <1>2, <1>3, <1>4, <2>1, <2>2, <2>3, <3>1, <3>3
  <2>5. CASE ~ remote[n].shared
    <3>1. events' = events
      BY <1>4, <2>2, <2>5
    <3>2. ASSUME NEW k \in Notes
          PROVE  remote'[k] = remote[k] \/ (~ remote[k].shared /\ ~ remote'[k].shared)
      <4>1. CASE k = n
        BY <2>1, <2>5, <4>1
      <4>2. CASE k # n
        BY <2>1, <4>2
      <4> QED
        BY <4>1, <4>2
    <3>3. Quiet
      BY <3>1, <3>2 DEF Quiet
    <3> QED
      BY <1>3, <1>4, <2>1, <2>2, <2>3, <3>1, <3>3
  <2> QED
    BY <2>4, <2>5
<1>8. ASSUME ShareNote(n)
      PROVE  /\ remote' \in [Notes -> SharedNote]
             /\ events' \in Seq(SharedEvent)
             /\ source' \in [Linked -> [usn : Nat, count : Nat, open : BOOLEAN]]
             /\ \A l \in Linked : source'[l].count \in {source[l].count, clock + 1}
             /\ \A k \in Notes : NoteChange(k)
             /\ Quiet \/ \E e \in SharedEvent : Speaks(e)
  <2>1. /\ remote' \in [Notes -> SharedNote]
        /\ remote'[n].usn = remote[n].usn /\ remote[n].live /\ remote'[n].live
        /\ remote'[n].shared <=> ~ remote[n].shared
        /\ \A k \in Notes : k # n => remote'[k] = remote[k]
    BY <1>8, Shares
  <2>2. PICK b \in BOOLEAN : b = remote[n].shared
    BY <1>1 DEF SharedNote
  <2>3. events' = Append(events, Event("membership", n, b)) /\ source' = source
    BY <1>8, <2>2 DEF ShareNote
  <2>4. \A k \in Notes : NoteChange(k)
    <3>1. NoteChange(n)
      BY <2>1 DEF NoteChange
    <3>2. ASSUME NEW k \in Notes, k # n PROVE NoteChange(k)
      BY <2>1, <3>2 DEF NoteChange
    <3> QED
      BY <3>1, <3>2
  <2>5. remote[n].usn # 0 /\ remote'[n].usn # 0
    BY <1>5, <2>1
  <2>6. Speaks(Event("membership", n, b))
    BY <1>2, <2>1, <2>2, <2>3, <2>5 DEF Speaks
  <2>7. /\ source' \in [Linked -> [usn : Nat, count : Nat, open : BOOLEAN]]
        /\ \A l \in Linked : source'[l].count \in {source[l].count, clock + 1}
    BY <2>3 DEF ServerTypes
  <2> QED
    BY <1>2, <1>3, <2>1, <2>3, <2>4, <2>6, <2>7
<1> QED
  BY <1>6, <1>7, <1>8 DEF WriteNote, ExpungeNote, ShareNote

\* What a change of a linked notebook is to the program.
LEMMA NotebookStep ==
    ASSUME ServerTypes, NEW l \in Linked, RenameNotebook(l) \/ CloseNotebook(l) \/ LinkNotebook(l)
    PROVE  /\ source' \in [Linked -> [usn : Nat, count : Nat, open : BOOLEAN]]
           /\ \A k \in Linked : source'[k].count \in {source[k].count, clock + 1}
           /\ link' \in [Linked -> [state : {"none", "joined", "left"}, usn : Nat]]
           /\ \A k \in Linked : LinkChange(k)
           /\ ownCount' \in {ownCount, clock + 1}
           /\ UNCHANGED <<remote, events>>
<1>1. PICK u \in Nat : u = clock + 1
  BY DEF ServerTypes
<1> DEFINE S == [usn : Nat, count : Nat, open : BOOLEAN]
           T == [state : {"none", "joined", "left"}, usn : Nat]
<1>2. source \in [Linked -> S] /\ link \in [Linked -> T]
  BY DEF ServerTypes
<1>3. \A r \in S : /\ [r EXCEPT !.usn = u, !.count = u] \in S
                   /\ [r EXCEPT !.usn = u, !.count = u].count = u
                   /\ [r EXCEPT !.open = FALSE] \in S
                   /\ [r EXCEPT !.open = FALSE].count = r.count
  OBVIOUS
<1>4. /\ [state |-> "joined", usn |-> 0] \in T
      /\ [state |-> "left", usn |-> u] \in T
  OBVIOUS
<1>5. CASE RenameNotebook(l)
  <2>1. source' = [source EXCEPT ![l] = [source[l] EXCEPT !.usn = u, !.count = u]]
    BY <1>1, <1>2, <1>5 DEF RenameNotebook
  <2> DEFINE r == [source[l] EXCEPT !.usn = u, !.count = u]
  <2>2. r \in S /\ r.count = u /\ source' = [source EXCEPT ![l] = r]
    BY <1>2, <1>3, <2>1
  <2> HIDE DEF r, S
  <2>3. source' \in [Linked -> S] /\ \A k \in Linked : source'[k].count \in {source[k].count, clock + 1}
    BY <1>1, <1>2, <2>2
  <2> QED
    BY <1>2, <1>5, <2>3 DEF S, RenameNotebook, LinkChange, ServerTypes
<1>6. CASE CloseNotebook(l)
  <2>1. source' = [source EXCEPT ![l] = [source[l] EXCEPT !.open = FALSE]]
    BY <1>2, <1>6 DEF CloseNotebook
  <2> DEFINE r == [source[l] EXCEPT !.open = FALSE]
  <2>2. r \in S /\ r.count = source[l].count /\ source' = [source EXCEPT ![l] = r]
    BY <1>2, <1>3, <2>1
  <2> HIDE DEF r, S
  <2>3. source' \in [Linked -> S] /\ \A k \in Linked : source'[k].count \in {source[k].count, clock + 1}
    BY <1>1, <1>2, <2>2
  <2> QED
    BY <1>2, <1>6, <2>3 DEF S, CloseNotebook, LinkChange, ServerTypes
<1>7. CASE LinkNotebook(l)
  <2>1. \E r \in T :
           /\ link' = [link EXCEPT ![l] = r]
           /\ \/ link[l].state = "none" /\ r.state = "joined"
              \/ link[l].state = "joined" /\ r.state = "left"
    BY <1>1, <1>4, <1>7 DEF LinkNotebook
  <2> HIDE DEF T
  <2>2. link' \in [Linked -> T] /\ \A k \in Linked : LinkChange(k)
    BY <1>2, <2>1 DEF LinkChange
  <2> QED
    BY <1>2, <1>7, <2>2 DEF T, LinkNotebook, ServerTypes
<1> QED
  BY <1>5, <1>6, <1>7

\* What the servers do, to the program.
LEMMA ServersStep ==
    ASSUME ServerTypes, Known, ServersChange
    PROVE  /\ ServerTypes' /\ clock' = clock + 1 /\ ownCount' >= ownCount
           /\ UNCHANGED <<tables, cursors, process>>
           /\ \A l \in Linked : source'[l].count \in {source[l].count, clock + 1}
           /\ \A n \in Notes : NoteChange(n)
           /\ Quiet \/ \E e \in SharedEvent : Speaks(e)
           /\ \A l \in Linked : LinkChange(l)
<1>1. clock' = clock + 1 /\ clock \in Nat /\ UNCHANGED <<tables, cursors, process>>
  BY DEF ServerTypes, ServersChange, WriteNote, ExpungeNote, ShareNote, RenameNotebook,
         CloseNotebook, LinkNotebook, Tick
<1>2. ownCount \in 0 .. clock
  BY DEF ServerTypes
<1>3. ASSUME NEW n \in Notes, WriteNote(n) \/ ExpungeNote(n) \/ ShareNote(n)
      PROVE  /\ ServerTypes' /\ ownCount' >= ownCount
             /\ \A l \in Linked : source'[l].count \in {source[l].count, clock + 1}
             /\ \A k \in Notes : NoteChange(k)
             /\ Quiet \/ \E e \in SharedEvent : Speaks(e)
             /\ \A l \in Linked : LinkChange(l)
  <2>1. /\ remote' \in [Notes -> SharedNote]
        /\ events' \in Seq(SharedEvent)
        /\ source' \in [Linked -> [usn : Nat, count : Nat, open : BOOLEAN]]
        /\ \A l \in Linked : source'[l].count \in {source[l].count, clock + 1}
        /\ \A k \in Notes : NoteChange(k)
        /\ Quiet \/ \E e \in SharedEvent : Speaks(e)
        /\ UNCHANGED <<link, ownCount>>
    BY <1>3, NoteStep
  <2>2. clock' \in Nat /\ ownCount' \in 0 .. clock' /\ ownCount' >= ownCount
    BY <1>1, <1>2, <2>1
  <2>3. link' \in [Linked -> [state : {"none", "joined", "left"}, usn : Nat]]
    BY <2>1 DEF ServerTypes
  <2>4. ServerTypes'
    BY <2>1, <2>2, <2>3 DEF ServerTypes, SharedNote
  <2>5. \A l \in Linked : LinkChange(l)
    BY <2>1 DEF LinkChange
  <2> QED
    BY <2>1, <2>2, <2>4, <2>5
<1>4. ASSUME NEW l \in Linked, RenameNotebook(l) \/ CloseNotebook(l) \/ LinkNotebook(l)
      PROVE  /\ ServerTypes' /\ ownCount' >= ownCount
             /\ \A k \in Linked : source'[k].count \in {source[k].count, clock + 1}
             /\ \A k \in Notes : NoteChange(k)
             /\ Quiet \/ \E e \in SharedEvent : Speaks(e)
             /\ \A k \in Linked : LinkChange(k)
  <2>1. /\ source' \in [Linked -> [usn : Nat, count : Nat, open : BOOLEAN]]
        /\ \A k \in Linked : source'[k].count \in {source[k].count, clock + 1}
        /\ link' \in [Linked -> [state : {"none", "joined", "left"}, usn : Nat]]
        /\ \A k \in Linked : LinkChange(k)
        /\ ownCount' \in {ownCount, clock + 1}
        /\ UNCHANGED <<remote, events>>
    BY <1>4, NotebookStep
  <2>2. clock' \in Nat /\ ownCount' \in 0 .. clock' /\ ownCount' >= ownCount
    BY <1>1, <1>2, <2>1
  <2>3. ServerTypes'
    BY <2>1, <2>2 DEF ServerTypes
  <2>4. Quiet
    BY <2>1 DEF Quiet
  <2>5. ASSUME NEW n \in Notes PROVE NoteChange(n)
    BY <2>1 DEF NoteChange
  <2> QED
    BY <2>1, <2>2, <2>3, <2>4, <2>5
<1> QED
  BY <1>1, <1>3, <1>4 DEF ServersChange

----------------------------------------------------------------------------
(* The program: who writes what, and where it is afterwards.               *)

\* The steps of the program at which a table or a cursor changes.
LEMMA WhoWrites ==
    ASSUME Sync \/ Die
    PROVE  /\ UNCHANGED servers
           /\ \/ notes' = notes
              \/ \E l \in Linked : ExpungeLinkedAssoc(l)
              \/ RehomeNotes \/ ExpungeLinkedNotes \/ AddLinkedNotes \/ ScheduleSharedNote
              \/ RedownloadSharedNotes \/ ExpungeSharedNotes \/ DropSharedNote
              \/ \E n \in Notes : Store(n)
           /\ notebooks' = notebooks \/ DropNotebook \/ AddLinkedNotebooks
           /\ linked_usn' = linked_usn \/ ExpungeLinkedNotebooks \/ AddLinkedNotebook \/ SetLinkedUSN
           /\ \/ shared_notes' = shared_notes \/ RemoveSharedNotes
              \/ \E n \in Notes : AddSharedNote(n) \/ UnshareNote(n)
           /\ USN' = USN \/ SetUSN
           /\ connection' = connection \/ SetConnection
           /\ \/ results' = results \/ results' = NoResults
              \/ \E n \in Notes : Downloaded(n) \/ Store(n)
<1>1. CASE StartSync
  BY <1>1 DEF StartSync, servers, tables, cursors
<1>2. CASE OwnStream
  BY <1>2 DEF OwnStream, GetOwnChunk, ExpungeLinkedAssoc, RehomeNotes, DropNotebook,
              ExpungeLinkedNotebooks, SetUSN, servers, tables, cursors
<1>3. CASE LinkedStreams
  BY <1>3 DEF LinkedStreams, ListLinked, SyncLinkedNotebook, GetLinkedChunk, AddLinkedNotebook,
              ExpungeLinkedNotes, AddLinkedNotebooks, AddLinkedNotes, SetLinkedUSN, EndLinked,
              servers, tables, cursors
<1>4. CASE SharedStream
  BY <1>4 DEF SharedStream, GetEvents, AddSharedNote, ScheduleSharedNote, RedownloadSharedNotes,
              ExpungeSharedNotes, RemoveSharedNotes, UnshareNote, DropSharedNote, SetConnection,
              servers, tables, cursors
<1>5. CASE Download \/ Die
  BY <1>5 DEF Download, Collect, Authorize, AuthorizeFails, Downloaded, Skipped, Store, FinishSync,
              Die, Quit, servers, tables, cursors
<1> QED
  BY <1>1, <1>2, <1>3, <1>4, <1>5 DEF Sync

\* The steps that lead to a place, and that the rest of the process is as it was.
LEMMA Phases ==
    ASSUME Sync \/ Die
    PROVE  /\ pc' \in OwnPcs =>
                 \/ GetOwnChunk \/ RehomeNotes \/ DropNotebook \/ ExpungeLinkedNotebooks
                 \/ \E l \in Linked : ExpungeLinkedAssoc(l)
           /\ pc' \in {"linked", "getLinked"} \cup OnePcs =>
                 \/ ListLinked \/ \E l \in Linked : SyncLinkedNotebook(l)
                 \/ GetLinkedChunk \/ AddLinkedNotebook \/ ExpungeLinkedNotes
                 \/ AddLinkedNotebooks \/ AddLinkedNotes \/ SetLinkedUSN
           /\ pc' \in MessagePcs =>
                 \/ GetEvents \/ ScheduleSharedNote \/ RedownloadSharedNotes
                 \/ ExpungeSharedNotes \/ RemoveSharedNotes \/ DropSharedNote
                 \/ \E n \in Notes : AddSharedNote(n) \/ UnshareNote(n)
           /\ pc' = "download" => Authorize \/ \E n \in Notes : Downloaded(n) \/ Skipped(n) \/ Store(n)
           /\ pc' \in Pcs
           /\ todo' \subseteq todo \/ Collect
           /\ listed' \in {listed, {}} \/ ListLinked
<1> USE DEF Pcs, OwnPcs, OnePcs, MessagePcs
<1>1. CASE StartSync
  BY <1>1 DEF StartSync
<1>2. CASE OwnStream
  BY <1>2 DEF OwnStream, GetOwnChunk, ExpungeLinkedAssoc, RehomeNotes, DropNotebook,
              ExpungeLinkedNotebooks, SetUSN
<1>3. CASE LinkedStreams
  BY <1>3 DEF LinkedStreams, ListLinked, SyncLinkedNotebook, GetLinkedChunk, AddLinkedNotebook,
              ExpungeLinkedNotes, AddLinkedNotebooks, AddLinkedNotes, SetLinkedUSN, EndLinked
<1>4. CASE SharedStream
  BY <1>4 DEF SharedStream, GetEvents, AddSharedNote, ScheduleSharedNote, RedownloadSharedNotes,
              ExpungeSharedNotes, RemoveSharedNotes, UnshareNote, DropSharedNote, SetConnection
<1>5. CASE Download \/ Die
  BY <1>5 DEF Download, Collect, Authorize, AuthorizeFails, Downloaded, Skipped, Store, FinishSync,
              Die, Quit
<1> QED
  BY <1>1, <1>2, <1>3, <1>4, <1>5 DEF Sync

\* The rows that leave a linked notebook for the synthetic one.
LEMMA Rehomes ==
    ASSUME TableTypes, RehomeNotes
    PROVE  /\ notes' \in [Notes -> NoteRow \cup {None}]
           /\ \A n \in Notes :
                 /\ notes'[n] # None <=> notes[n] # None
                 /\ notes[n] # None => notes'[n].raw_note = notes[n].raw_note
                 /\ IF n \in shared_notes /\ notes[n] # None /\ notes[n].notebook_guid = cur
                    THEN notes'[n].notebook_guid = SharedWithMe
                    ELSE notes'[n] = notes[n]
<1>1. notes \in [Notes -> NoteRow \cup {None}] /\ SharedWithMe \in Notebooks /\ None \notin NoteRow
  BY Names DEF TableTypes
<1>2. \A row \in NoteRow : /\ [row EXCEPT !.notebook_guid = SharedWithMe] \in NoteRow
                           /\ [row EXCEPT !.notebook_guid = SharedWithMe].notebook_guid = SharedWithMe
                           /\ [row EXCEPT !.notebook_guid = SharedWithMe].raw_note = row.raw_note
  BY <1>1 DEF NoteRow
<1>3. notes' = [n \in Notes |-> IF n \in shared_notes /\ notes[n] # None /\ notes[n].notebook_guid = cur
                                THEN [notes[n] EXCEPT !.notebook_guid = SharedWithMe] ELSE notes[n]]
  BY DEF RehomeNotes, rehome_notes_from_notebook
<1> QED
  BY <1>1, <1>2, <1>3

\* The rows that are scheduled again.
LEMMA Redownloads ==
    ASSUME TableTypes, RedownloadSharedNotes
    PROVE  /\ notes' \in [Notes -> NoteRow \cup {None}]
           /\ \A n \in Notes :
                 /\ notes'[n] # None <=> notes[n] # None
                 /\ notes[n] # None =>
                       /\ notes'[n].notebook_guid = notes[n].notebook_guid
                       /\ notes'[n].raw_note \in {NULL, notes[n].raw_note}
                       /\ n \in chunk.notes_to_sync /\ n \in shared_notes =>
                             notes'[n].raw_note = NULL
<1>1. notes \in [Notes -> NoteRow \cup {None}] /\ None \notin NoteRow
  BY Names DEF TableTypes
<1>2. \A row \in NoteRow : /\ [row EXCEPT !.raw_note = NULL] \in NoteRow
                           /\ [row EXCEPT !.raw_note = NULL].notebook_guid = row.notebook_guid
                           /\ [row EXCEPT !.raw_note = NULL].raw_note = NULL
  BY DEF NoteRow, NULL
<1>3. notes' = [n \in Notes |-> IF n \in chunk.notes_to_sync \cap shared_notes /\ notes[n] # None
                                THEN [notes[n] EXCEPT !.raw_note = NULL] ELSE notes[n]]
  BY DEF RedownloadSharedNotes, mark_notes_for_redownload
<1> QED
  BY <1>1, <1>2, <1>3

\* The row of a download that is stored.
LEMMA Stores ==
    ASSUME Typed, NEW n \in Notes, Store(n)
    PROVE  /\ notes' \in [Notes -> NoteRow \cup {None}]
           /\ notes'[n] # None /\ notes'[n].raw_note = results[n].usn
           /\ notes'[n].notebook_guid =
                 IF n \in shared_notes /\ ~ is_note_in_linked_notebook(n)
                 THEN SharedWithMe ELSE Home[n]
           /\ \A k \in Notes : k # n => notes'[k] = notes[k]
           /\ results[n] # None /\ results[n].usn \in Nat
<1>1. /\ results[n] # None
      /\ results[n] \in [usn : Nat, nb : Notebooks \cup {None}] /\ results[n].nb = Home[n]
      /\ n \in shared_notes \/ is_note_in_linked_notebook(n)
  BY DEF Store, Typed, ProcessTypes, Results
<1>2. /\ notes \in [Notes -> NoteRow \cup {None}] /\ None \notin NoteRow
      /\ SharedWithMe \in Notebooks /\ SharedWithMe \notin Linked
      /\ notes[n] # None => notes[n].notebook_guid \in {Home[n], SharedWithMe}
      /\ Linked \subseteq Notebooks
  BY Names DEF Typed, TableTypes, Filed
<1> DEFINE single == n \in shared_notes /\ ~ is_note_in_linked_notebook(n)
           r == IF single THEN [results[n] EXCEPT !.nb = SharedWithMe] ELSE results[n]
           b == IF single THEN SharedWithMe ELSE Home[n]
<1>3. b \in Notebooks
  BY <1>1, <1>2 DEF is_note_in_linked_notebook
<1>4. r.usn = results[n].usn /\ r.nb = b
  BY <1>1, <1>2
<1>5. notes' = [notes EXCEPT ![n] = [notebook_guid |-> r.nb, raw_note |-> r.usn]]
  BY DEF Store, add_note
<1> HIDE DEF r, b
<1>6. /\ [notebook_guid |-> r.nb, raw_note |-> r.usn] \in NoteRow
      /\ [notebook_guid |-> r.nb, raw_note |-> r.usn].notebook_guid = b
      /\ [notebook_guid |-> r.nb, raw_note |-> r.usn].raw_note = results[n].usn
  BY <1>1, <1>3, <1>4 DEF NoteRow
<1> DEFINE row == [notebook_guid |-> r.nb, raw_note |-> r.usn]
<1> HIDE DEF row
<1>7. /\ notes' \in [Notes -> NoteRow \cup {None}] /\ notes'[n] = row
      /\ \A k \in Notes : k # n => notes'[k] = notes[k]
  BY <1>2, <1>5, <1>6 DEF row
<1>8. row \in NoteRow /\ row.notebook_guid = b /\ row.raw_note = results[n].usn
  BY <1>6 DEF row
<1> QED
  BY <1>1, <1>2, <1>7, <1>8 DEF b

\* The tables keep their types, and a row is filed where it may be.
LEMMA TablesTyped ==
    ASSUME IInv, Sync \/ Die
    PROVE  TableTypes' /\ Filed'
<1>1. UNCHANGED servers /\ ServerTypes /\ TableTypes /\ Filed /\ ProcessTypes /\ Results
  BY WhoWrites DEF IInv, Typed
<1>2. notes' \in [Notes -> NoteRow \cup {None}] /\ Filed'
  <2>1. CASE notes' = notes
    BY <1>1, <2>1 DEF TableTypes, Filed
  <2>2. ASSUME NEW s, notes' = expunge_notes(notes, s)
        PROVE  notes' \in [Notes -> NoteRow \cup {None}] /\ Filed'
    BY <1>1, <2>2 DEF TableTypes, Filed, expunge_notes
  <2>3. CASE \/ (\E l \in Linked : ExpungeLinkedAssoc(l)) \/ ExpungeLinkedNotes
             \/ ExpungeSharedNotes \/ DropSharedNote
    <3>1. notes' = notes \/ \E s : notes' = expunge_notes(notes, s)
      BY <2>3 DEF ExpungeLinkedAssoc, ExpungeLinkedNotes, ExpungeSharedNotes, DropSharedNote,
                  expunge_notes_by_notebook
    <3> QED
      BY <2>1, <2>2, <3>1
  <2>4. CASE RehomeNotes
    BY <1>1, <2>4, Rehomes DEF Filed
  <2>5. CASE AddLinkedNotes
    <3>1. /\ \A n \in DOMAIN chunk.notes : chunk.notes[n] = cur /\ Home[n] = cur
          /\ cur \in Linked
      BY <1>1, <2>5 DEF AddLinkedNotes, ProcessTypes, OnePcs, IInv, LinkedInv, Window
    <3> QED
      BY <1>1, <2>5, <3>1, Names
      DEF AddLinkedNotes, add_notes_for_sync, TableTypes, Filed, NoteRow, NULL
  <2>6. CASE ScheduleSharedNote
    BY <1>1, <2>6, Names
    DEF ScheduleSharedNote, add_notes_for_sync, TableTypes, Filed, NoteRow, NULL
  <2>7. CASE RedownloadSharedNotes
    BY <1>1, <2>7, Redownloads DEF Filed
  <2>8. ASSUME NEW n \in Notes, Store(n)
        PROVE  notes' \in [Notes -> NoteRow \cup {None}] /\ Filed'
    BY <1>1, <2>8, Stores DEF Filed, IInv
  <2> QED
    BY <2>1, <2>3, <2>4, <2>5, <2>6, <2>7, <2>8, WhoWrites
<1>3. notebooks' \subseteq Linked
  BY <1>1, WhoWrites DEF TableTypes, ProcessTypes, DropNotebook, AddLinkedNotebooks, OnePcs
<1>4. linked_usn' \in [Linked -> Nat \cup {None}]
  BY <1>1, WhoWrites DEF TableTypes, ProcessTypes, ExpungeLinkedNotebooks, AddLinkedNotebook,
                         SetLinkedUSN, OnePcs
<1>5. shared_notes' \subseteq Notes
  BY <1>1, WhoWrites DEF TableTypes, AddSharedNote, RemoveSharedNotes, UnshareNote
<1>6. USN' \in 0 .. ownCount' /\ connection' \in 0 .. clock' + 1
  <2>1. ownCount \in Nat /\ clock \in Nat /\ ownCount' = ownCount /\ clock' = clock
    BY <1>1 DEF ServerTypes, servers
  <2>2. CASE SetUSN
    BY <1>1, <2>1, <2>2 DEF SetUSN, TableTypes, ProcessTypes, OwnPcs
  <2>3. CASE SetConnection
    BY <1>1, <2>1, <2>3 DEF SetConnection, TableTypes, ProcessTypes, MessagePcs
  <2> QED
    BY <1>1, <2>1, <2>2, <2>3, WhoWrites DEF TableTypes
<1> QED
  BY <1>2, <1>3, <1>4, <1>5, <1>6 DEF TableTypes

\* The message in hand, once it has come.
LEMMA Receives ==
    ASSUME Typed, Known, GetEvents, NewEvents # {}
    PROVE  /\ pc' = "memberships" /\ UNCHANGED <<servers, tables, cursors>>
           /\ \E k \in NewEvents : chunk'.last_timestamp = events[k].updated
           /\ Parsed'
           /\ ahead' = chunk'.shared_note_memberships
<1>1. PICK k \in NewEvents : chunk' = parse_sync_event_data(SubSeq(events, Min(NewEvents), k))
  BY DEF GetEvents
<1>2. /\ pc' = "memberships" /\ UNCHANGED <<servers, tables, cursors>>
      /\ ahead' = chunk'.shared_note_memberships
      /\ connection' = connection /\ events' = events
  BY DEF GetEvents, servers, cursors
<1>3. connection \in Nat
  BY DEF Typed, TableTypes, ServerTypes
<1>4. chunk' = SyncChunkV2(ParsedOf(events, DueUpTo(k)), events[k].updated)
  BY <1>1, <1>3, Gets DEF Typed, Known
<1>5. /\ chunk'.last_timestamp = events[k].updated
      /\ chunk'.shared_note_memberships = MembersOf(events, DueUpTo(k), FALSE)
      /\ chunk'.expunged_shared_note_memberships = MembersOf(events, DueUpTo(k), TRUE)
      /\ chunk'.notes_to_sync = SyncOf(events, DueUpTo(k))
      /\ chunk'.expunged_notes = ExpungedOf(events, DueUpTo(k))
  BY <1>4 DEF SyncChunkV2, ParsedOf
<1>6. Message' = DueUpTo(k)
  BY <1>2, <1>5 DEF Message, DueUpTo
<1>7. Parsed'
  BY <1>2, <1>5, <1>6 DEF Parsed
<1> QED
  BY <1>2, <1>5, <1>7

\* What is in hand keeps its types.
LEMMA ProcessTyped ==
    ASSUME IInv, Sync \/ Die
    PROVE  ProcessTypes'
<1>1. UNCHANGED servers /\ ServerTypes /\ TableTypes /\ ProcessTypes /\ Results
  BY WhoWrites DEF IInv, Typed
<1>2. ownCount' = ownCount /\ clock' = clock
  BY <1>1 DEF servers
<1>3. pc' \in Pcs
  BY Phases
<1>4. todo' \subseteq Notes
  BY <1>1, Phases DEF ProcessTypes, Collect, get_notes_for_sync
<1>5. listed' \subseteq Linked
  BY <1>1, Phases DEF ProcessTypes, ListLinked
<1>6. results' \in [Notes -> [usn : Nat, nb : Notebooks \cup {None}] \cup {None}]
  <2> DEFINE R == [usn : Nat, nb : Notebooks \cup {None}]
  <2>1. ASSUME NEW n \in Notes, Downloaded(n) PROVE results' \in [Notes -> R \cup {None}]
    <3>1. remote[n].usn \in Nat /\ Home[n] \in Notebooks \cup {None}
      BY <1>1, Names DEF ServerTypes
    <3>2. [usn |-> remote[n].usn, nb |-> Home[n]] \in R
      BY <3>1
    <3> HIDE DEF R
    <3>3. results' = [results EXCEPT ![n] = [usn |-> remote[n].usn, nb |-> Home[n]]]
      BY <2>1 DEF Downloaded
    <3> QED
      BY <1>1, <3>2, <3>3 DEF ProcessTypes, R
  <2>2. ASSUME NEW n \in Notes, Store(n) PROVE results' \in [Notes -> R \cup {None}]
    BY <1>1, <2>2 DEF Store, ProcessTypes
  <2>3. results \in [Notes -> R \cup {None}] /\ NoResults \in [Notes -> R \cup {None}]
    BY <1>1 DEF ProcessTypes, NoResults
  <2> QED
    BY <2>1, <2>2, <2>3, WhoWrites
<1>7. pc' \in OwnPcs => /\ chunk'.expungedLinkedNotebooks \subseteq Linked
                        /\ chunk'.chunkHighUSN \in 0 .. ownCount'
                        /\ pc' \in {"expungeLinked", "rehome", "dropNotebook"} => ahead' \subseteq Linked
                        /\ pc' \in {"rehome", "dropNotebook"} => cur' \in Linked
  <2>1. ownCount \in 0 .. ownCount
    BY <1>1 DEF ServerTypes
  <2> QED
    BY <1>1, <1>2, <2>1, Phases
       DEF ProcessTypes, OwnPcs, OnePcs, GetOwnChunk, ExpungeLinkedAssoc, RehomeNotes, DropNotebook,
           ExpungeLinkedNotebooks
<1>8. pc' \in {"linked", "getLinked"} \cup OnePcs =>
          /\ ahead' \subseteq Linked
          /\ pc' # "linked" => cur' \in Linked /\ after' \in Nat
          /\ pc' \in OnePcs =>
                /\ chunk'.chunkHighUSN \in Nat
                /\ DOMAIN chunk'.notes \subseteq Notes /\ chunk'.expungedNotes \subseteq Notes
                /\ \A n \in DOMAIN chunk'.notes : chunk'.notes[n] = cur'
  <2>1. CASE ListLinked \/ \E l \in Linked : SyncLinkedNotebook(l)
    BY <1>1, <2>1 DEF ListLinked, SyncLinkedNotebook, ProcessTypes, TableTypes, OnePcs
  <2>2. CASE GetLinkedChunk
    <3>1. cur \in Linked /\ after \in Nat /\ ahead \subseteq Linked
      BY <1>1, <2>2 DEF ProcessTypes, GetLinkedChunk
    <3>2. UNCHANGED <<cur, after, ahead>> /\ pc' \in {"linked", "addLinked"}
      BY <2>2 DEF GetLinkedChunk
    <3>3. CASE pc' = "addLinked"
      <4>1. PICK high \in after + 1 .. source[cur].count : chunk' = LinkedChunk(cur, after, high)
        BY <2>2, <3>3 DEF GetLinkedChunk
      <4>2. /\ chunk'.chunkHighUSN = high /\ high \in Nat
            /\ chunk'.notes = [n \in Visible(cur, after, high, TRUE) |-> cur]
            /\ chunk'.expungedNotes = Visible(cur, after, high, FALSE)
        BY <3>1, <4>1 DEF LinkedChunk
      <4> QED
        BY <3>1, <3>2, <4>2 DEF Visible
    <3> QED
      BY <3>1, <3>2, <3>3 DEF OnePcs
  <2>3. CASE AddLinkedNotebook \/ ExpungeLinkedNotes \/ AddLinkedNotebooks \/ AddLinkedNotes
    BY <1>1, <2>3 DEF AddLinkedNotebook, ExpungeLinkedNotes, AddLinkedNotebooks, AddLinkedNotes,
                      ProcessTypes, OnePcs
  <2>4. CASE SetLinkedUSN
    BY <1>1, <2>4 DEF SetLinkedUSN, ProcessTypes, OnePcs
  <2> QED
    BY <2>1, <2>2, <2>3, <2>4, Phases
<1>9. pc' \in MessagePcs =>
          /\ chunk'.last_timestamp \in 0 .. clock'
          /\ chunk'.shared_note_memberships \subseteq Notes
          /\ chunk'.expunged_shared_note_memberships \subseteq Notes
          /\ chunk'.notes_to_sync \subseteq Notes
          /\ chunk'.expunged_notes \subseteq Notes
          /\ ahead' \subseteq Notes
          /\ pc' \in {"scheduleShared", "dropShared"} => cur' \in Notes
  <2>1. CASE GetEvents /\ pc' = "memberships"
    <3>1. NewEvents # {}
      BY <2>1 DEF GetEvents
    <3>2. /\ \E k \in NewEvents : chunk'.last_timestamp = events[k].updated
          /\ Parsed' /\ ahead' = chunk'.shared_note_memberships
      BY <2>1, <3>1, Receives DEF IInv
    <3>3. ASSUME NEW k \in NewEvents PROVE events[k].updated \in 0 .. clock
      <4>1. k \in DOMAIN events /\ events[k] \in SharedEvent
        BY <1>1 DEF NewEvents, ServerTypes
      <4>2. events[k].updated <= clock /\ events[k].updated \in Nat /\ clock \in Nat
        BY <1>1, <4>1 DEF SharedEvent, IInv, Known, Numbered, ServerTypes
      <4> QED
        BY <4>2
    <3> QED
      BY <1>2, <2>1, <3>2, <3>3 DEF Parsed, MembersOf, SyncOf, ExpungedOf, MessagePcs
  <2>2. CASE pc \in MessagePcs /\ pc' \in MessagePcs
    BY <1>1, <1>2, <2>2, Phases
       DEF ProcessTypes, MessagePcs, GetEvents, AddSharedNote, ScheduleSharedNote,
           RedownloadSharedNotes,
           ExpungeSharedNotes, RemoveSharedNotes, UnshareNote, DropSharedNote
  <2> QED
    BY <2>1, <2>2, Phases
       DEF MessagePcs, GetEvents, AddSharedNote, ScheduleSharedNote, RedownloadSharedNotes,
           ExpungeSharedNotes, RemoveSharedNotes, UnshareNote, DropSharedNote
<1> QED
  BY <1>3, <1>4, <1>5, <1>6, <1>7, <1>8, <1>9 DEF ProcessTypes, Pcs, OwnPcs, OnePcs, MessagePcs

\* A download stays one that is asked for.
LEMMA ResultsTyped ==
    ASSUME IInv, Sync \/ Die
    PROVE  Results'
<1>1. UNCHANGED servers /\ TableTypes /\ ProcessTypes /\ Results /\ Filed
  BY WhoWrites DEF IInv, Typed
<1>2. CASE pc' # "download"
  <2>1. results' = NoResults \/ (results' = results /\ pc # "download")
    BY <1>2, WhoWrites, Phases
       DEF Sync, Die, Quit, StartSync, OwnStream, GetOwnChunk, ExpungeLinkedAssoc, RehomeNotes,
           DropNotebook,
           ExpungeLinkedNotebooks, SetUSN, LinkedStreams, ListLinked, SyncLinkedNotebook,
           GetLinkedChunk, AddLinkedNotebook, ExpungeLinkedNotes, AddLinkedNotebooks,
           AddLinkedNotes, SetLinkedUSN, EndLinked, SharedStream, GetEvents, AddSharedNote,
           ScheduleSharedNote, RedownloadSharedNotes, ExpungeSharedNotes, RemoveSharedNotes,
           UnshareNote, DropSharedNote, SetConnection, Download, Collect, Authorize,
           AuthorizeFails, Downloaded, Skipped, Store, FinishSync
  <2> QED
    BY <1>1, <2>1 DEF Results, NoResults
<1>3. CASE Authorize \/ \E n \in Notes : Skipped(n)
  BY <1>1, <1>3 DEF Authorize, Skipped, Results, tables, is_note_in_linked_notebook
<1>4. ASSUME NEW n \in Notes, Downloaded(n) PROVE Results'
  BY <1>1, <1>4 DEF Downloaded, Granted, Results, ProcessTypes, tables, is_note_in_linked_notebook
<1>5. ASSUME NEW n \in Notes, Store(n) PROVE Results'
  <2>1. /\ pc' = "download" /\ UNCHANGED <<linked_usn, shared_notes>>
        /\ results' = [results EXCEPT ![n] = None]
    BY <1>5, Phases DEF Store
  <2>2. \A k \in Notes : k # n => notes'[k] = notes[k]
    BY <1>5, Stores DEF IInv
  <2>3. ASSUME NEW k \in Notes, results'[k] # None
        PROVE  /\ results'[k].nb = Home[k]
               /\ k \in shared_notes' \/ is_note_in_linked_notebook(k)'
    <3>1. k # n /\ results'[k] = results[k]
      BY <1>1, <2>1, <2>3 DEF ProcessTypes
    <3>2. is_note_in_linked_notebook(k)' <=> is_note_in_linked_notebook(k)
      BY <2>1, <2>2, <3>1 DEF is_note_in_linked_notebook
    <3> QED
      BY <1>1, <2>1, <2>3, <3>1, <3>2 DEF Results
  <2> QED
    BY <2>1, <2>3 DEF Results
<1> QED
  BY <1>2, <1>3, <1>4, <1>5, Phases

\* The types survive what happens on the servers.
LEMMA TypedServers ==
    ASSUME IInv, ServersChange
    PROVE  Typed'
<1>1. /\ ServerTypes /\ TableTypes /\ Filed /\ ProcessTypes /\ Results
      /\ ServerTypes' /\ clock' = clock + 1 /\ ownCount' >= ownCount
      /\ UNCHANGED <<tables, cursors, process>>
  BY ServersStep DEF IInv, Typed
<1>2. /\ clock \in Nat /\ ownCount \in Nat /\ ownCount' \in Nat /\ ownCount' >= ownCount
      /\ 0 .. ownCount \subseteq 0 .. ownCount' /\ 0 .. clock \subseteq 0 .. clock'
      /\ 0 .. clock + 1 \subseteq 0 .. clock' + 1
  BY <1>1 DEF ServerTypes
<1>3. TableTypes' /\ Filed'
  BY <1>1, <1>2 DEF TableTypes, Filed, tables, cursors
<1>4. ProcessTypes'
  BY <1>1, <1>2 DEF ProcessTypes, process
<1>5. Results'
  BY <1>1 DEF Results, is_note_in_linked_notebook, process, tables
<1> QED
  BY <1>1, <1>3, <1>4, <1>5 DEF Typed

----------------------------------------------------------------------------
(* What happens on the servers spoils nothing.                             *)

\* An event more.
LEMMA OneMore ==
    ASSUME ServerTypes, NEW e \in SharedEvent, Speaks(e)
    PROVE  \E k \in Nat : /\ DOMAIN events' = DOMAIN events \cup {k}
                          /\ k \notin DOMAIN events /\ events'[k] = e
                          /\ \A i \in DOMAIN events : i \in Nat /\ i < k /\ events'[i] = events[i]
<1>1. /\ Len(events) \in Nat /\ DOMAIN events = 1 .. Len(events)
      /\ events \in Seq(SharedEvent) /\ events' = Append(events, e)
  BY DEF ServerTypes, Speaks
<1>2. PICK k : k = Len(events) + 1
  OBVIOUS
<1>3. DOMAIN events' = 1 .. k /\ events'[k] = e /\ k \in Nat
  BY <1>1, <1>2
<1>4. \A i \in DOMAIN events : i \in Nat /\ i < k /\ events'[i] = events[i]
  BY <1>1, <1>2
<1>5. DOMAIN events' = DOMAIN events \cup {k} /\ k \notin DOMAIN events
  BY <1>1, <1>2, <1>3
<1> QED
  BY <1>3, <1>4, <1>5

\* One clock still numbers everything.
LEMMA StaysNumbered ==
    ASSUME Typed, Known, ServersChange
    PROVE  Numbered'
<1>1. /\ ServerTypes /\ ServerTypes' /\ clock' = clock + 1 /\ clock \in Nat
      /\ \A l \in Linked : source'[l].count \in {source[l].count, clock + 1}
      /\ \A n \in Notes : NoteChange(n)
      /\ Quiet \/ \E e \in SharedEvent : Speaks(e)
  BY ServersStep DEF Typed, ServerTypes
<1>2. ASSUME NEW n \in Notes
      PROVE  remote'[n].usn <= clock' /\ (remote'[n].live => remote'[n].usn # 0)
  BY <1>1 DEF NoteChange, Known, Numbered, ServerTypes
<1>3. ASSUME NEW n \in Notes, remote'[n].shared
      PROVE  remote'[n].live
  <2>1. CASE remote'[n] = remote[n]
    BY <1>3, <2>1 DEF Known, Numbered
  <2>2. CASE remote'[n] # remote[n]
    BY <1>1, <1>3, <2>2 DEF Quiet, Speaks, SharedEvent
  <2> QED
    BY <2>1, <2>2
<1>4. ASSUME NEW l \in Linked PROVE source'[l].count <= clock'
  <2>1. source[l].count \in Nat /\ source[l].count <= clock
    BY DEF Typed, ServerTypes, Known, Numbered
  <2> QED
    BY <1>1, <2>1
<1>5. /\ \A i \in DOMAIN events' : events'[i].updated <= clock'
      /\ \A i, j \in DOMAIN events' : i < j => events'[i].updated < events'[j].updated
  <2>1. /\ \A i \in DOMAIN events : events[i].updated <= clock /\ events[i].updated \in Nat
        /\ \A i, j \in DOMAIN events : i < j => events[i].updated < events[j].updated
    <3>1. \A i \in DOMAIN events : events[i] \in SharedEvent
      BY <1>1 DEF ServerTypes
    <3> QED
      BY <3>1 DEF Known, Numbered, SharedEvent
  <2>2. CASE Quiet
    BY <1>1, <2>1, <2>2 DEF Quiet
  <2>3. ASSUME NEW e \in SharedEvent, Speaks(e)
        PROVE  /\ \A i \in DOMAIN events' : events'[i].updated <= clock'
               /\ \A i, j \in DOMAIN events' : i < j => events'[i].updated < events'[j].updated
    <3>1. PICK k \in Nat :
             /\ DOMAIN events' = DOMAIN events \cup {k}
             /\ k \notin DOMAIN events /\ events'[k] = e
             /\ \A i \in DOMAIN events : i \in Nat /\ i < k /\ events'[i] = events[i]
      BY <1>1, <2>3, OneMore
    <3>2. e.updated = clock + 1
      BY <2>3 DEF Speaks
    <3> QED
      BY <1>1, <2>1, <3>1, <3>2
  <2> QED
    BY <1>1, <2>2, <2>3
<1> QED
  BY <1>2, <1>3, <1>4, <1>5 DEF Numbered

\* The stream still tells who is a share.
LEMMA StaysTold ==
    ASSUME Typed, Known, ServersChange
    PROVE  Told'
<1>1. /\ ServerTypes /\ \A n \in Notes : NoteChange(n)
      /\ Quiet \/ \E e \in SharedEvent : Speaks(e)
  BY ServersStep DEF Typed
<1>2. \A i \in DOMAIN events : events[i] \in SharedEvent /\ events[i].note \in Notes
  <2>1. \A i \in DOMAIN events : events[i] \in SharedEvent
    BY <1>1 DEF ServerTypes
  <2> QED
    BY <2>1 DEF SharedEvent
<1>3. CASE Quiet
  <2>1. events' = events
    BY <1>3 DEF Quiet
  <2>2. ASSUME NEW n \in Notes PROVE remote'[n].shared <=> remote[n].shared
    BY <1>3 DEF Quiet
  <2>3. ASSUME NEW i \in DOMAIN events
        PROVE  /\ remote'[events[i].note].usn # 0
               /\ events[i].kind = "note" /\ events[i].del => ~ remote'[events[i].note].live
    BY <1>1, <1>2 DEF NoteChange, Known, Told
  <2>4. ASSUME NEW i \in DOMAIN events, NEW n \in Notes, Turns(i, n),
               \A j \in DOMAIN events : j > i => ~ Turns(j, n)
        PROVE  remote'[n].shared <=> ~ events[i].del
    BY <2>2, <2>4 DEF Known, Told
  <2>5. ASSUME NEW n \in Notes, remote'[n].shared
        PROVE  \E i \in DOMAIN events : Turns(i, n)
    BY <2>2, <2>5 DEF Known, Told
  <2> QED
    BY <2>1, <2>3, <2>4, <2>5 DEF Told, Turns
<1>4. ASSUME NEW e \in SharedEvent, Speaks(e)
      PROVE  Told'
  <2>1. PICK k \in Nat :
           /\ DOMAIN events' = DOMAIN events \cup {k}
           /\ k \notin DOMAIN events /\ events'[k] = e
           /\ \A i \in DOMAIN events : i \in Nat /\ i < k /\ events'[i] = events[i]
    BY <1>1, <1>4, OneMore
  <2>2. /\ e.note \in Notes /\ e.kind \in {"membership", "note"} /\ e.del \in BOOLEAN
        /\ \A n \in Notes : n # e.note => remote'[n] = remote[n]
        /\ remote'[e.note].usn # 0
        /\ remote'[e.note].shared <=> ~ e.del
        /\ e.kind = "note" => /\ remote[e.note].shared
                              /\ remote'[e.note].live <=> ~ e.del
    BY <1>4 DEF Speaks, SharedEvent
  <2>3. /\ \A n \in Notes : Turns(k, n)' <=> (n = e.note /\ (e.kind = "membership" \/ e.del))
        /\ \A i \in DOMAIN events : \A n \in Notes : Turns(i, n)' <=> Turns(i, n)
    BY <2>1 DEF Turns
  <2>4. ASSUME NEW i \in DOMAIN events'
        PROVE  /\ remote'[events'[i].note].usn # 0
               /\ events'[i].kind = "note" /\ events'[i].del => ~ remote'[events'[i].note].live
    <3>1. CASE i = k
      BY <2>1, <2>2, <3>1
    <3>2. CASE i \in DOMAIN events
      BY <1>1, <1>2, <2>1, <3>2 DEF NoteChange, Known, Told
    <3> QED
      BY <2>1, <3>1, <3>2
  <2>5. ASSUME NEW n \in Notes, remote'[n].shared
        PROVE  \E i \in DOMAIN events' : Turns(i, n)'
    <3>1. remote[n].shared => \E i \in DOMAIN events : Turns(i, n)
      BY DEF Known, Told
    <3>2. remote[n].shared \/ (n = e.note /\ e.kind = "membership")
      BY <2>2, <2>5
    <3> QED
      BY <2>1, <2>3, <3>1, <3>2
  <2>6. ASSUME NEW i \in DOMAIN events', NEW n \in Notes, Turns(i, n)',
               \A j \in DOMAIN events' : j > i => ~ Turns(j, n)'
        PROVE  remote'[n].shared <=> ~ events'[i].del
    <3>1. CASE i = k
      BY <2>1, <2>2, <2>3, <2>6, <3>1
    <3>2. CASE i \in DOMAIN events
      <4>1. i < k /\ k > i /\ ~ Turns(k, n)' /\ Turns(i, n)
        BY <2>1, <2>3, <2>6, <3>2
      <4>2. \A j \in DOMAIN events : j > i => ~ Turns(j, n)
        BY <2>1, <2>3, <2>6
      <4>3. remote[n].shared <=> ~ events[i].del
        BY <3>2, <4>1, <4>2 DEF Known, Told
      <4>4. remote'[n].shared <=> remote[n].shared
        BY <2>2, <2>3, <4>1
      <4> QED
        BY <2>1, <3>2, <4>3, <4>4
    <3> QED
      BY <2>1, <3>1, <3>2
  <2> QED
    BY <2>4, <2>5, <2>6 DEF Told
<1> QED
  BY <1>1, <1>3, <1>4

\* What the tables have is still right: what changed lies above every number.
LEMMA StaysReflected ==
    ASSUME Typed, Known, ServersChange, NEW l \in Linked, NEW high \in Nat, high <= clock,
           ReflectedUpTo(l, high)
    PROVE  ReflectedUpTo(l, high)'
<1>1. /\ ServerTypes /\ ServerTypes' /\ clock \in Nat /\ notes' = notes
      /\ \A n \in Notes : NoteChange(n)
  BY ServersStep DEF Typed, ServerTypes, tables
<1>2. ASSUME NEW n \in Notes, Home[n] = l, remote'[n].usn \in 1 .. high
      PROVE  Reflected(n, l)'
  <2>1. remote'[n].usn # clock + 1
    BY <1>1, <1>2 DEF ServerTypes
  <2>2. remote'[n].usn = remote[n].usn /\ (remote'[n].live <=> remote[n].live)
    BY <1>1, <2>1 DEF NoteChange
  <2>3. Reflected(n, l)
    BY <1>2, <2>2 DEF ReflectedUpTo
  <2> QED
    BY <1>1, <2>2, <2>3 DEF Reflected
<1> QED
  BY <1>2 DEF ReflectedUpTo

\* Nothing that is claimed of linked notebooks becomes false.
LEMMA LinkedServers ==
    ASSUME IInv, ServersChange
    PROVE  LinkedInv'
<1>1. /\ ServerTypes /\ ServerTypes' /\ clock' = clock + 1 /\ clock \in Nat
      /\ TableTypes /\ ProcessTypes
      /\ UNCHANGED <<notes, notebooks, linked_usn, shared_notes, pc, chunk, ahead, cur, after,
                     listed, todo, results>>
      /\ \A n \in Notes : NoteChange(n)
      /\ \A l \in Linked : LinkChange(l)
  BY ServersStep DEF IInv, Typed, ServerTypes, tables, process
<1>2. \A l \in Linked : /\ link[l].state # "none" => link'[l].state # "none"
                        /\ link[l].state = "left" => link'[l].state = "left"
                        /\ link[l].state # "none" /\ Joined(l)' => Joined(l)
  BY <1>1 DEF LinkChange, Joined
<1>3. Links'
  <2>1. \A l \in Linked : linked_usn[l] # None => linked_usn[l] \in Nat /\ linked_usn[l] <= clock
    BY <1>1 DEF TableTypes, IInv, LinkedInv, Links
  <2>2. \A l \in Linked : linked_usn[l] # None => linked_usn[l] <= clock'
    BY <1>1, <2>1
  <2> QED
    BY <1>1, <1>2, <2>2 DEF IInv, LinkedInv, Links
<1>4. Cursors'
  <2> SUFFICES ASSUME NEW l \in Linked, Joined(l)', linked_usn[l] # None
               PROVE  ReflectedUpTo(l, linked_usn[l])'
    BY <1>1 DEF Cursors
  <2>1. Joined(l) /\ linked_usn[l] \in Nat /\ linked_usn[l] <= clock
    BY <1>1, <1>2 DEF TableTypes, IInv, LinkedInv, Links
  <2>2. ReflectedUpTo(l, linked_usn[l])
    BY <2>1 DEF IInv, LinkedInv, Cursors
  <2>3. PICK high \in Nat : high = linked_usn[l]
    BY <2>1
  <2>4. ReflectedUpTo(l, high)'
    BY <2>1, <2>2, <2>3, StaysReflected DEF IInv
  <2> QED
    BY <1>1, <2>3, <2>4 DEF ReflectedUpTo
<1>5. Scanned'
  <2> SUFFICES ASSUME pc \in {"getLinked"} \cup OnePcs
               PROVE  /\ after <= clock' /\ (linked_usn[cur] # None => linked_usn[cur] <= after)
                      /\ Joined(cur)' => ReflectedUpTo(cur, after)'
    BY <1>1 DEF Scanned, ReflectedUpTo
  <2>1. /\ cur \in Linked /\ after \in Nat /\ after <= clock /\ link[cur].state # "none"
        /\ linked_usn[cur] # None => linked_usn[cur] <= after
    BY <1>1 DEF ProcessTypes, OnePcs, IInv, LinkedInv, Scanned, Links
  <2>2. ASSUME Joined(cur)' PROVE ReflectedUpTo(cur, after)'
    <3>1. ReflectedUpTo(cur, after)
      BY <1>1, <1>2, <2>1, <2>2 DEF Joined, IInv, LinkedInv, Scanned
    <3>2. PICK l \in Linked, high \in Nat : l = cur /\ high = after
      BY <2>1
    <3>3. ReflectedUpTo(l, high)'
      BY <2>1, <3>1, <3>2, StaysReflected DEF IInv
    <3> QED
      BY <1>1, <3>2, <3>3 DEF ReflectedUpTo
  <2> QED
    BY <1>1, <2>1, <2>2
<1>6. Window'
  <2> SUFFICES ASSUME pc \in OnePcs PROVE Window'
    BY <1>1 DEF Window
  <2>1. /\ after \in Nat /\ chunk.chunkHighUSN \in Nat /\ after < chunk.chunkHighUSN
        /\ chunk.chunkHighUSN <= clock
        /\ DOMAIN chunk.notes \subseteq Notes /\ chunk.expungedNotes \subseteq Notes
    BY <1>1 DEF ProcessTypes, OnePcs, IInv, LinkedInv, Window
  <2>2. \A n \in Notes : remote[n].usn \in Nat /\ remote'[n].usn \in Nat
    BY <1>1 DEF ServerTypes
  <2>3. ASSUME NEW n \in Notes, Home[n] = cur, remote'[n].usn \in after + 1 .. chunk.chunkHighUSN
        PROVE  n \in IF remote'[n].live THEN DOMAIN chunk.notes ELSE chunk.expungedNotes
    <3>1. remote'[n].usn # clock + 1
      BY <1>1, <2>1, <2>2, <2>3
    <3>2. remote'[n].usn = remote[n].usn /\ (remote'[n].live <=> remote[n].live)
      BY <1>1, <3>1 DEF NoteChange
    <3> QED
      BY <2>3, <3>2 DEF IInv, LinkedInv, Window
  <2>4. ASSUME NEW n \in DOMAIN chunk.notes
        PROVE  /\ Home[n] = cur
               /\ \/ remote'[n].live /\ remote'[n].usn \in after + 1 .. chunk.chunkHighUSN
                  \/ remote'[n].usn > chunk.chunkHighUSN
    <3>1. /\ Home[n] = cur /\ n \in Notes
          /\ \/ remote[n].live /\ remote[n].usn \in after + 1 .. chunk.chunkHighUSN
             \/ remote[n].usn > chunk.chunkHighUSN
      BY <2>1 DEF IInv, LinkedInv, Window
    <3>2. CASE remote'[n].usn = clock + 1
      BY <1>1, <2>1, <3>1, <3>2
    <3>3. CASE remote'[n].usn = remote[n].usn /\ (remote'[n].live <=> remote[n].live)
      BY <3>1, <3>3
    <3> QED
      BY <1>1, <3>1, <3>2, <3>3 DEF NoteChange
  <2>5. ASSUME NEW n \in chunk.expungedNotes
        PROVE  ~ remote'[n].live /\ remote'[n].usn # 0
    BY <1>1, <2>1 DEF NoteChange, IInv, LinkedInv, Window
  <2> QED
    BY <1>1, <2>1, <2>3, <2>4, <2>5 DEF Window
<1>7. Applied'
  BY <1>1 DEF IInv, LinkedInv, Applied
<1>8. Dropped'
  BY <1>1 DEF IInv, LinkedInv, Dropped, is_note_in_linked_notebook
<1>9. ResultsLinked'
  <2> SUFFICES ASSUME NEW n \in Notes, results[n] # None, Home[n] # None,
                      linked_usn[Home[n]] # None, remote'[n].usn <= linked_usn[Home[n]]
               PROVE  remote'[n].live /\ results[n].usn = remote'[n].usn
    BY <1>1 DEF ResultsLinked
  <2>1. Home[n] \in Linked
    BY Names
  <2>2. linked_usn[Home[n]] \in Nat /\ linked_usn[Home[n]] <= clock
    BY <1>1, <2>1 DEF TableTypes, IInv, LinkedInv, Links
  <2>3. remote'[n].usn \in Nat
    BY <1>1 DEF ServerTypes
  <2>4. remote'[n].usn = remote[n].usn /\ (remote'[n].live <=> remote[n].live)
    BY <1>1, <2>2, <2>3 DEF NoteChange
  <2> QED
    BY <2>4 DEF IInv, LinkedInv, ResultsLinked
<1> QED
  BY <1>3, <1>4, <1>5, <1>6, <1>7, <1>8, <1>9 DEF LinkedInv

\* Nothing that is claimed of shared notes becomes false.
LEMMA SharedServers ==
    ASSUME IInv, ServersChange
    PROVE  SharedInv'
<1>1. /\ ServerTypes /\ clock' = clock + 1 /\ clock \in Nat
      /\ TableTypes /\ ProcessTypes /\ connection \in Nat /\ connection <= clock + 1
      /\ UNCHANGED <<notes, notebooks, linked_usn, shared_notes, connection, pc, chunk, ahead, cur,
                     after, listed, todo, results>>
      /\ \A n \in Notes : NoteChange(n)
      /\ Quiet \/ \E e \in SharedEvent : Speaks(e)
  BY ServersStep DEF IInv, Typed, ServerTypes, TableTypes, tables, cursors, process
<1>2. \A i \in DOMAIN events : i \in DOMAIN events' /\ events'[i] = events[i]
  BY <1>1, OneMore DEF Quiet
<1>3. \A i \in DOMAIN events' : i \in DOMAIN events \/ events'[i].updated = clock + 1
  <2>1. ASSUME NEW e \in SharedEvent, Speaks(e), NEW i \in DOMAIN events'
        PROVE  i \in DOMAIN events \/ events'[i].updated = clock + 1
    BY <1>1, <2>1, OneMore DEF Speaks
  <2> QED
    BY <1>1, <2>1 DEF Quiet
\* A note that the new event is not about is a share as before.
<1>4. ASSUME NEW n \in Notes, \A i \in DOMAIN events' : Turns(i, n)' => ~ Due(i)'
      PROVE  remote'[n].shared <=> remote[n].shared
  <2>1. CASE Quiet
    BY <2>1 DEF Quiet
  <2>2. ASSUME NEW e \in SharedEvent, Speaks(e)
        PROVE  remote'[n].shared <=> remote[n].shared
    <3>1. PICK k \in Nat : k \in DOMAIN events' /\ events'[k] = e
      BY <1>1, <2>2, OneMore
    <3>2. Due(k)' /\ ~ Turns(k, n)'
      BY <1>1, <1>4, <2>2, <3>1 DEF Due, Speaks
    <3>3. n # e.note \/ (e.kind = "note" /\ ~ e.del)
      BY <3>1, <3>2 DEF Turns, SharedEvent
    <3> QED
      BY <2>2, <3>3 DEF Speaks
  <2> QED
    BY <1>1, <2>1, <2>2
<1>5. ASSUME NEW n \in Notes, Settled(n)', remote'[n].shared
      PROVE  remote'[n] = remote[n] /\ Settled(n)
  <2>1. Settled(n)
    BY <1>1, <1>2, <1>5 DEF Settled
  <2>2. CASE Quiet
    BY <1>5, <2>1, <2>2 DEF Quiet
  <2>3. ASSUME NEW e \in SharedEvent, Speaks(e)
        PROVE  remote'[n] = remote[n]
    <3>1. PICK k \in Nat : k \in DOMAIN events' /\ events'[k] = e
      BY <1>1, <2>3, OneMore
    <3>2. n # e.note
      BY <1>1, <1>5, <2>3, <3>1 DEF Settled, Speaks
    <3> QED
      BY <2>3, <3>2 DEF Speaks
  <2> QED
    BY <1>1, <2>1, <2>2, <2>3
<1>6. Parsed'
  <2> SUFFICES ASSUME pc \in MessagePcs PROVE Parsed'
    BY <1>1 DEF Parsed
  <2>1. chunk.last_timestamp \in Nat /\ chunk.last_timestamp <= clock
    BY <1>1 DEF ProcessTypes
  <2>2. Message' = Message
    BY <1>1, <1>2, <1>3, <2>1 DEF Message
  <2>3. PICK s : s = Message
    OBVIOUS
  <2>4. \A i \in s : events'[i] = events[i]
    BY <1>2, <2>3 DEF Message
  <2>5. /\ \A d \in BOOLEAN : MembersOf(events', s, d) = MembersOf(events, s, d)
        /\ SyncOf(events', s) = SyncOf(events, s)
        /\ ExpungedOf(events', s) = ExpungedOf(events, s)
    BY <2>4 DEF MembersOf, IsMember, SyncOf, ExpungedOf
  <2> QED
    BY <1>1, <2>2, <2>3, <2>5 DEF IInv, SharedInv, Parsed
<1>7. Processed'
  BY <1>1 DEF IInv, SharedInv, Processed
<1>8. AtHand'
  BY <1>1 DEF IInv, SharedInv, AtHand
<1>9. Tracked'
  <2>1. ASSUME NEW n \in Notes, n \in shared_notes PROVE remote'[n].usn # 0
    BY <1>1, <2>1 DEF NoteChange, IInv, SharedInv, Tracked
  <2>2. ASSUME NEW n \in Notes, \A i \in DOMAIN events' : Turns(i, n)' => ~ Due(i)'
        PROVE  n \in shared_notes <=> remote'[n].shared
    <3>1. ASSUME NEW i \in DOMAIN events, Turns(i, n) PROVE ~ Due(i)
      <4>1. i \in DOMAIN events' /\ Turns(i, n)' /\ (Due(i)' <=> Due(i))
        BY <1>1, <1>2, <3>1 DEF Turns, Due
      <4> QED
        BY <2>2, <4>1
    <3>2. n \in shared_notes <=> remote[n].shared
      BY <3>1 DEF IInv, SharedInv, Tracked
    <3> QED
      BY <1>4, <2>2, <3>2
  <2> QED
    BY <1>1, <2>1, <2>2 DEF Tracked
<1>10. HasRow'
  <2> SUFFICES ASSUME NEW n \in shared_notes, remote'[n].live, notes[n] = None
               PROVE  \E i \in DOMAIN events' : /\ Due(i)' /\ events'[i].note = n
                                                /\ events'[i].kind = "membership"
    BY <1>1 DEF HasRow
  <2>1. n \in Notes /\ remote[n].live
    BY <1>1 DEF TableTypes, NoteChange, IInv, SharedInv, Tracked
  <2>2. PICK i \in DOMAIN events : Due(i) /\ events[i].note = n /\ events[i].kind = "membership"
    BY <2>1 DEF IInv, SharedInv, HasRow
  <2> QED
    BY <1>1, <1>2, <2>2 DEF Due
<1>11. NotFiled'
  <2> SUFFICES ASSUME NEW n \in Notes \ shared_notes, notes[n] # None,
                      notes[n].notebook_guid = SharedWithMe
               PROVE  \E i \in DOMAIN events' : /\ Due(i)' /\ events'[i].note = n
                                                /\ events'[i].kind = "membership"
    BY <1>1 DEF NotFiled
  <2>1. PICK i \in DOMAIN events : Due(i) /\ events[i].note = n /\ events[i].kind = "membership"
    BY DEF IInv, SharedInv, NotFiled
  <2> QED
    BY <1>1, <1>2, <2>1 DEF Due
<1>12. UpToDate'
  BY <1>1, <1>5 DEF IInv, SharedInv, UpToDate
<1> QED
  BY <1>6, <1>7, <1>8, <1>9, <1>10, <1>11, <1>12 DEF SharedInv

----------------------------------------------------------------------------
(* What the program does keeps the linked notebooks' numbers honest.       *)

\* What is in the tables of a notebook stays there: what the other path drops,
\* moves or writes is not what this one claims.
LEMMA KeepsReflected ==
    ASSUME IInv, Sync \/ Die, NEW l \in Linked, Joined(l), NEW high \in Nat,
           \/ linked_usn[l] # None /\ high = linked_usn[l]
           \/ pc \in {"getLinked"} \cup OnePcs /\ cur = l /\ high = after,
           NEW n \in Notes, Home[n] = l, remote[n].usn \in 1 .. high, Reflected(n, l)
    PROVE  Reflected(n, l)'
<1>1. UNCHANGED <<clock, remote, link, events>>
  BY WhoWrites DEF servers
<1>2. /\ TableTypes /\ ProcessTypes /\ Filed /\ notes[n] \in NoteRow \cup {None}
      /\ l # SharedWithMe /\ None \notin NoteRow
  BY Names DEF IInv, Typed, TableTypes
<1>3. CASE notes'[n] = notes[n]
  BY <1>1, <1>3 DEF Reflected
<1>4. ASSUME NEW k \in Linked, ExpungeLinkedAssoc(k)
      PROVE  Reflected(n, l)'
  <2>1. k # l
    BY <1>4 DEF IInv, LinkedInv, Links, ExpungeLinkedAssoc, Joined
  <2> QED
    BY <1>1, <1>4, <2>1 DEF ExpungeLinkedAssoc, expunge_notes_by_notebook, expunge_notes, Reflected
<1>5. CASE RehomeNotes
  <2>1. cur # l
    BY <1>2, <1>5 DEF IInv, LinkedInv, Links, RehomeNotes, Joined, ProcessTypes
  <2> QED
    BY <1>1, <1>2, <1>5, <2>1, Rehomes DEF Reflected
<1>6. CASE ExpungeLinkedNotes
  <2>1. n \in chunk.expungedNotes => ~ remote[n].live
    BY <1>6 DEF IInv, LinkedInv, Window, ExpungeLinkedNotes, OnePcs
  <2> QED
    BY <1>1, <1>6, <2>1 DEF ExpungeLinkedNotes, expunge_notes, Reflected
<1>7. CASE AddLinkedNotes
  <2>1. pc \in OnePcs /\ cur \in Linked /\ after \in Nat /\ chunk.chunkHighUSN \in Nat
    BY <1>2, <1>7 DEF AddLinkedNotes, OnePcs, ProcessTypes
  <2>2. n \in DOMAIN chunk.notes => cur = l
    BY <2>1 DEF IInv, LinkedInv, Window
  <2>3. cur = l => high <= after
    BY <2>1 DEF IInv, LinkedInv, Scanned
  <2>4. n \in DOMAIN chunk.notes => \/ remote[n].usn \in after + 1 .. chunk.chunkHighUSN
                                   \/ remote[n].usn > chunk.chunkHighUSN
    BY <2>1 DEF IInv, LinkedInv, Window
  <2>5. remote[n].usn \in Nat /\ after < chunk.chunkHighUSN
    BY <2>1 DEF IInv, Typed, ServerTypes, LinkedInv, Window
  <2>6. n \notin DOMAIN chunk.notes
    BY <2>1, <2>2, <2>3, <2>4, <2>5
  <2> QED
    BY <1>3, <1>7, <2>6 DEF AddLinkedNotes, add_notes_for_sync
<1>8. CASE ScheduleSharedNote
  BY <1>1, <1>2, <1>3, <1>8 DEF ScheduleSharedNote, add_notes_for_sync, Reflected
<1>9. CASE RedownloadSharedNotes
  BY <1>1, <1>2, <1>9, Redownloads DEF Reflected
<1>10. CASE ExpungeSharedNotes
  <2>1. n \in chunk.expunged_notes => ~ remote[n].live
    BY <1>10 DEF ExpungeSharedNotes, IInv, SharedInv, Parsed, ExpungedOf, Message, MessagePcs,
                 Known, Told
  <2> QED
    BY <1>1, <1>10, <2>1 DEF ExpungeSharedNotes, expunge_notes, Reflected
<1>11. CASE DropSharedNote
  <2>1. pc = "dropShared" /\ linked_usn[l] # None /\ ~ is_note_in_linked_notebook(cur)
    BY <1>11 DEF DropSharedNote, OnePcs, IInv, LinkedInv, Dropped
  <2>2. cur = n => ~ remote[n].live
    BY <2>1 DEF is_note_in_linked_notebook, Reflected
  <2> QED
    BY <1>1, <1>11, <2>2 DEF DropSharedNote, expunge_notes, Reflected
<1>12. ASSUME NEW k \in Notes, Store(k)
       PROVE  Reflected(n, l)'
  <2>1. CASE k # n
    BY <1>3, <1>12, <2>1, Stores DEF IInv
  <2>2. CASE k = n
    <3>1. pc = "download" /\ linked_usn[l] # None /\ high = linked_usn[l] /\ results[n] # None
      BY <1>12, <2>2 DEF Store, OnePcs
    <3>2. remote[n].usn <= linked_usn[l] /\ Home[n] # None
      BY <1>2, <3>1, Names
    <3>3. remote[n].live /\ results[n].usn = remote[n].usn
      BY <3>1, <3>2 DEF IInv, LinkedInv, ResultsLinked
    <3>4. is_note_in_linked_notebook(n)
      BY <3>1, <3>3 DEF Reflected, is_note_in_linked_notebook
    <3> QED
      BY <1>1, <1>12, <2>2, <3>3, <3>4, Stores DEF IInv, Reflected
  <2> QED
    BY <2>1, <2>2
<1> QED
  BY <1>3, <1>4, <1>5, <1>6, <1>7, <1>8, <1>9, <1>10, <1>11, <1>12, WhoWrites

\* When the chunk's number is saved, all that changed up to it is in the tables.
LEMMA ChunkReflected ==
    ASSUME IInv, SetLinkedUSN, Joined(cur)
    PROVE  \A n \in Notes : Home[n] = cur /\ remote[n].usn \in 1 .. chunk.chunkHighUSN =>
              Reflected(n, cur)
<1>1. pc = "setLinkedUSN" /\ pc \in OnePcs
  BY DEF SetLinkedUSN, OnePcs
<1>2. after \in Nat /\ chunk.chunkHighUSN \in Nat
  BY <1>1 DEF IInv, Typed, ProcessTypes
<1> SUFFICES ASSUME NEW n \in Notes, Home[n] = cur, remote[n].usn \in 1 .. chunk.chunkHighUSN
             PROVE  Reflected(n, cur)
  OBVIOUS
<1>3. CASE remote[n].usn <= after
  BY <1>1, <1>2, <1>3 DEF IInv, LinkedInv, Scanned, ReflectedUpTo
<1>4. CASE remote[n].usn \in after + 1 .. chunk.chunkHighUSN
  <2>1. CASE remote[n].live
    BY <1>1, <1>4, <2>1 DEF IInv, LinkedInv, Window, Applied, Reflected
  <2>2. CASE ~ remote[n].live
    <3>1. n \in chunk.expungedNotes
      BY <1>1, <1>4, <2>2 DEF IInv, LinkedInv, Window
    <3>2. n \notin DOMAIN chunk.notes
      BY <1>1, <1>2, <1>4, <2>2 DEF IInv, LinkedInv, Window
    <3> QED
      BY <1>1, <2>2, <3>1, <3>2 DEF IInv, LinkedInv, Applied, Reflected
  <2> QED
    BY <2>1, <2>2
<1> QED
  BY <1>2, <1>3, <1>4

\* The saved numbers stay honest.
LEMMA KeepsCursors ==
    ASSUME IInv, Sync \/ Die
    PROVE  Cursors'
<1>1. UNCHANGED <<clock, remote, link>>
  BY WhoWrites DEF servers
<1> SUFFICES ASSUME NEW l \in Linked, Joined(l), linked_usn'[l] # None,
                    NEW n \in Notes, Home[n] = l, remote[n].usn \in 1 .. linked_usn'[l]
             PROVE  Reflected(n, l)'
  BY <1>1 DEF Cursors, ReflectedUpTo, Joined
<1>2. TableTypes /\ ProcessTypes
  BY DEF IInv, Typed
<1>3. CASE linked_usn'[l] = linked_usn[l]
  <2>1. linked_usn[l] \in Nat /\ Reflected(n, l)
    BY <1>2, <1>3 DEF TableTypes, IInv, LinkedInv, Cursors, ReflectedUpTo
  <2> QED
    BY <1>3, <2>1, KeepsReflected
<1>4. CASE ExpungeLinkedNotebooks
  BY <1>3, <1>4 DEF ExpungeLinkedNotebooks
<1>5. CASE AddLinkedNotebook
  <2>1. linked_usn'[l] \in {linked_usn[l], 0}
    BY <1>2, <1>5 DEF AddLinkedNotebook, TableTypes
  <2>2. linked_usn'[l] # 0
    OBVIOUS
  <2> QED
    BY <1>3, <2>1, <2>2
<1>6. CASE SetLinkedUSN
  <2>1. CASE l # cur
    BY <1>2, <1>3, <1>6, <2>1 DEF SetLinkedUSN, TableTypes
  <2>2. CASE l = cur /\ linked_usn[l] = None
    BY <1>3, <1>6, <2>2 DEF SetLinkedUSN
  <2>3. CASE l = cur /\ linked_usn[l] # None
    <3>1. linked_usn'[l] = chunk.chunkHighUSN /\ notes' = notes
      BY <1>2, <1>6, <2>3 DEF SetLinkedUSN, TableTypes
    <3>2. Reflected(n, l)
      BY <1>6, <2>3, <3>1, ChunkReflected
    <3> QED
      BY <1>1, <3>1, <3>2 DEF Reflected
  <2> QED
    BY <2>1, <2>2, <2>3
<1> QED
  BY <1>3, <1>4, <1>5, <1>6, WhoWrites

\* The scan has what it has passed.
LEMMA KeepsScanned ==
    ASSUME IInv, Sync \/ Die
    PROVE  Scanned'
<1>1. UNCHANGED <<clock, remote, link>>
  BY WhoWrites DEF servers
<1>2. TableTypes /\ ProcessTypes /\ clock \in Nat
  BY DEF IInv, Typed, ServerTypes
<1> SUFFICES ASSUME pc' \in {"getLinked"} \cup OnePcs
             PROVE  /\ after' <= clock
                    /\ \A l \in Linked, n \in Notes :
                          cur' = l /\ Joined(l) /\ Home[n] = l /\ remote[n].usn \in 1 .. after' =>
                             Reflected(n, l)'
                    /\ linked_usn'[cur'] # None => linked_usn'[cur'] <= after'
  <2> SUFFICES ASSUME pc' \in {"getLinked"} \cup OnePcs PROVE Scanned'
    BY DEF Scanned
  <2>1. cur' \in Linked
    BY ProcessTyped DEF ProcessTypes, OnePcs
  <2>2. PICK l \in Linked : l = cur'
    BY <2>1
  <2>3. Joined(l)' <=> Joined(l)
    BY <1>1 DEF Joined
  <2>4. ReflectedUpTo(l, after)' =
           \A n \in Notes : Home[n] = l /\ remote[n].usn \in 1 .. after' => Reflected(n, l)'
    BY <1>1 DEF ReflectedUpTo
  <2>5. Joined(cur)' = Joined(l)' /\ ReflectedUpTo(cur, after)' = ReflectedUpTo(l, after)'
    BY <2>2 DEF Joined, ReflectedUpTo, Reflected
  <2> QED
    BY <1>1, <2>2, <2>3, <2>4, <2>5 DEF Scanned
<1>3. ASSUME NEW l \in Linked, SyncLinkedNotebook(l)
      PROVE  /\ after' <= clock
             /\ \A k \in Linked, n \in Notes :
                   cur' = k /\ Joined(k) /\ Home[n] = k /\ remote[n].usn \in 1 .. after' =>
                      Reflected(n, k)'
             /\ linked_usn'[cur'] # None => linked_usn'[cur'] <= after'
  <2>1. /\ cur' = l /\ notes' = notes /\ linked_usn' = linked_usn
        /\ after' = IF linked_usn[l] = None THEN 0 ELSE linked_usn[l]
    BY <1>3 DEF SyncLinkedNotebook, tables
  <2>2. linked_usn[l] # None => linked_usn[l] \in Nat /\ linked_usn[l] <= clock
    BY <1>2 DEF TableTypes, IInv, LinkedInv, Links
  <2>3. Joined(l) => \A n \in Notes : Home[n] = l /\ remote[n].usn \in 1 .. after' => Reflected(n, l)
    BY <2>1 DEF IInv, LinkedInv, Cursors, ReflectedUpTo
  <2> QED
    BY <1>1, <1>2, <2>1, <2>2, <2>3 DEF Reflected
<1>4. CASE GetLinkedChunk \/ AddLinkedNotebook \/ ExpungeLinkedNotes \/ AddLinkedNotebooks
              \/ AddLinkedNotes
  <2>1. /\ cur' = cur /\ after' = after /\ pc \in {"getLinked"} \cup OnePcs
        /\ linked_usn' = linked_usn \/ linked_usn' = [linked_usn EXCEPT ![cur] = 0]
    BY <1>4 DEF GetLinkedChunk, AddLinkedNotebook, ExpungeLinkedNotes, AddLinkedNotebooks,
                AddLinkedNotes, OnePcs, tables
  <2>2. cur \in Linked /\ after \in Nat
    BY <1>2, <2>1 DEF ProcessTypes, OnePcs
  <2>3. /\ after <= clock
        /\ Joined(cur) => \A n \in Notes :
              Home[n] = cur /\ remote[n].usn \in 1 .. after => Reflected(n, cur)
        /\ linked_usn[cur] # None => linked_usn[cur] <= after
    BY <2>1 DEF IInv, LinkedInv, Scanned, ReflectedUpTo
  <2>4. linked_usn'[cur] # None => linked_usn'[cur] <= after
    BY <1>2, <2>1, <2>2, <2>3 DEF TableTypes
  <2>5. PICK l \in Linked, high \in Nat : l = cur /\ high = after
    BY <2>2
  <2>6. ASSUME Joined(l), NEW n \in Notes, Home[n] = l, remote[n].usn \in 1 .. high
        PROVE  Reflected(n, l)'
    BY <2>1, <2>3, <2>5, <2>6, KeepsReflected
  <2> QED
    BY <2>1, <2>3, <2>4, <2>5, <2>6
<1>5. CASE SetLinkedUSN
  <2>1. /\ cur' = cur /\ after' = chunk.chunkHighUSN /\ notes' = notes /\ pc \in OnePcs
        /\ linked_usn[cur] # None => linked_usn' = [linked_usn EXCEPT ![cur] = chunk.chunkHighUSN]
        /\ linked_usn[cur] = None => linked_usn' = linked_usn
    BY <1>5 DEF SetLinkedUSN, OnePcs
  <2>2. cur \in Linked /\ chunk.chunkHighUSN \in Nat /\ chunk.chunkHighUSN <= clock
    BY <1>2, <2>1 DEF ProcessTypes, OnePcs, IInv, LinkedInv, Window
  <2>3. linked_usn'[cur] # None => linked_usn'[cur] <= after'
    BY <1>2, <2>1, <2>2 DEF TableTypes
  <2> QED
    BY <1>1, <1>5, <2>1, <2>2, <2>3, ChunkReflected DEF Reflected
<1> QED
  BY <1>3, <1>4, <1>5, Phases DEF ListLinked, OnePcs

\* A number is saved, and a notebook taken up, only after it was joined.
LEMMA KeepsLinks ==
    ASSUME IInv, Sync \/ Die
    PROVE  Links'
<1>1. UNCHANGED <<clock, link>> /\ clock \in Nat /\ TableTypes /\ ProcessTypes
  BY WhoWrites DEF servers, IInv, Typed, ServerTypes
<1> SUFFICES ASSUME NEW l \in Linked
    PROVE  /\ linked_usn'[l] # None => linked_usn'[l] <= clock /\ link[l].state # "none"
           /\ l \in listed' => link[l].state # "none"
           /\ pc' \in {"linked", "getLinked"} \cup OnePcs /\ l \in ahead' => link[l].state # "none"
           /\ pc' \in {"getLinked"} \cup OnePcs /\ cur' = l => link[l].state # "none"
           /\ pc' \in OwnPcs /\ l \in chunk'.expungedLinkedNotebooks => link[l].state = "left"
           /\ pc' \in {"expungeLinked", "rehome", "dropNotebook"} /\ l \in ahead' =>
                 link[l].state = "left"
           /\ pc' \in {"rehome", "dropNotebook"} /\ cur' = l => link[l].state = "left"
  BY <1>1 DEF Links
<1>2. /\ linked_usn[l] # None => linked_usn[l] <= clock /\ link[l].state # "none"
      /\ l \in listed => link[l].state # "none"
      /\ pc \in {"linked", "getLinked"} \cup OnePcs /\ l \in ahead => link[l].state # "none"
      /\ pc \in {"getLinked"} \cup OnePcs /\ cur = l => link[l].state # "none"
      /\ pc \in OwnPcs /\ l \in chunk.expungedLinkedNotebooks => link[l].state = "left"
      /\ pc \in {"expungeLinked", "rehome", "dropNotebook"} /\ l \in ahead => link[l].state = "left"
      /\ pc \in {"rehome", "dropNotebook"} /\ cur = l => link[l].state = "left"
  BY DEF IInv, LinkedInv, Links
<1>3. linked_usn'[l] # None => linked_usn'[l] <= clock /\ link[l].state # "none"
  <2>1. CASE ExpungeLinkedNotebooks
    BY <1>2, <2>1 DEF ExpungeLinkedNotebooks
  <2>2. CASE AddLinkedNotebook
    BY <1>1, <1>2, <2>2 DEF AddLinkedNotebook, TableTypes, OnePcs
  <2>3. CASE SetLinkedUSN
    <3>1. chunk.chunkHighUSN <= clock
      BY <2>3 DEF SetLinkedUSN, OnePcs, IInv, LinkedInv, Window
    <3> QED
      BY <1>1, <1>2, <2>3, <3>1 DEF SetLinkedUSN, TableTypes, OnePcs
  <2> QED
    BY <1>2, <2>1, <2>2, <2>3, WhoWrites
<1>4. l \in listed' => link[l].state # "none"
  BY <1>2, Phases DEF ListLinked
<1>5. /\ pc' \in {"linked", "getLinked"} \cup OnePcs /\ l \in ahead' => link[l].state # "none"
      /\ pc' \in {"getLinked"} \cup OnePcs /\ cur' = l => link[l].state # "none"
  BY <1>2, Phases DEF ListLinked, SyncLinkedNotebook, GetLinkedChunk, AddLinkedNotebook,
                      ExpungeLinkedNotes, AddLinkedNotebooks, AddLinkedNotes, SetLinkedUSN, OnePcs
<1>6. /\ pc' \in OwnPcs /\ l \in chunk'.expungedLinkedNotebooks => link[l].state = "left"
      /\ pc' \in {"expungeLinked", "rehome", "dropNotebook"} /\ l \in ahead' =>
            link[l].state = "left"
      /\ pc' \in {"rehome", "dropNotebook"} /\ cur' = l => link[l].state = "left"
  BY <1>2, Phases DEF GetOwnChunk, ExpungeLinkedAssoc, RehomeNotes, DropNotebook,
                      ExpungeLinkedNotebooks, OwnPcs
<1> QED
  BY <1>3, <1>4, <1>5, <1>6

\* A chunk has what changed in its window; so it stays, as does what is applied.
LEMMA KeepsWindow ==
    ASSUME IInv, Sync \/ Die
    PROVE  Window' /\ Applied'
<1>1. UNCHANGED <<clock, remote>> /\ TableTypes /\ ProcessTypes
  BY WhoWrites DEF servers, IInv, Typed
<1>2. CASE pc' \notin OnePcs
  BY <1>2 DEF Window, Applied, OnePcs
<1>3. CASE GetLinkedChunk /\ pc' \in OnePcs
  <2>1. pc = "getLinked" /\ cur \in Linked /\ after \in Nat
    BY <1>1, <1>3 DEF GetLinkedChunk, ProcessTypes
  <2>2. PICK high \in after + 1 .. source[cur].count : chunk' = LinkedChunk(cur, after, high)
    BY <1>3 DEF GetLinkedChunk, OnePcs
  <2>3. /\ chunk'.notes = [n \in Visible(cur, after, high, TRUE) |-> cur]
        /\ chunk'.expungedNotes = Visible(cur, after, high, FALSE)
        /\ chunk'.chunkHighUSN = high
        /\ cur' = cur /\ after' = after /\ pc' = "addLinked"
    BY <1>3, <2>2 DEF LinkedChunk, GetLinkedChunk, OnePcs
  <2>4. /\ source[cur].count \in Nat /\ source[cur].count <= clock /\ clock \in Nat
        /\ \A n \in Notes : remote[n].usn \in Nat /\ remote[n].live \in BOOLEAN
    BY <2>1 DEF IInv, Typed, ServerTypes, Known, Numbered
  <2>5. high \in Nat /\ after < high /\ high <= clock
    BY <2>1, <2>2, <2>4
  <2>6. \A n \in Notes :
           /\ n \in DOMAIN chunk'.notes <=>
                 Home[n] = cur /\ remote[n].usn \in after + 1 .. high /\ remote[n].live
           /\ n \in chunk'.expungedNotes <=>
                 Home[n] = cur /\ remote[n].usn \in after + 1 .. high /\ ~ remote[n].live
    BY <2>1, <2>3, <2>4, <2>5 DEF Visible
  <2>7. DOMAIN chunk'.notes \subseteq Notes /\ chunk'.expungedNotes \subseteq Notes
    BY <2>3 DEF Visible
  <2>8. Window'
    <3>1. \A n \in DOMAIN chunk'.notes :
             Home[n] = cur /\ remote[n].live /\ remote[n].usn \in after + 1 .. high
      BY <2>6, <2>7
    <3>2. \A n \in chunk'.expungedNotes : ~ remote[n].live /\ remote[n].usn # 0
      BY <2>1, <2>6, <2>7
    <3> QED
      BY <1>1, <2>3, <2>5, <2>6, <3>1, <3>2 DEF Window
  <2>9. Applied'
    BY <2>3 DEF Applied
  <2> QED
    BY <2>8, <2>9
<1>4. CASE AddLinkedNotebook \/ ExpungeLinkedNotes \/ AddLinkedNotebooks \/ AddLinkedNotes
  <2>1. pc \in OnePcs /\ UNCHANGED <<chunk, after, cur>>
    BY <1>4 DEF AddLinkedNotebook, ExpungeLinkedNotes, AddLinkedNotebooks, AddLinkedNotes, OnePcs
  <2>2. Window'
    BY <1>1, <2>1 DEF IInv, LinkedInv, Window
  <2>3. Applied'
    BY <1>1, <1>4, Names DEF IInv, LinkedInv, Applied, AddLinkedNotebook, ExpungeLinkedNotes,
         AddLinkedNotebooks, AddLinkedNotes, expunge_notes, add_notes_for_sync, ProcessTypes,
         OnePcs,
         TableTypes, NoteRow, NULL
  <2> QED
    BY <2>2, <2>3
<1> QED
  BY <1>2, <1>3, <1>4, Phases DEF ListLinked, SyncLinkedNotebook, SetLinkedUSN, OnePcs

\* A row that the other path drops is in no linked notebook.
LEMMA KeepsDropped ==
    ASSUME IInv, Sync \/ Die
    PROVE  Dropped'
<1> SUFFICES ASSUME pc' = "dropShared" PROVE ~ is_note_in_linked_notebook(cur)'
  BY DEF Dropped
<1>1. PICK n \in Notes : UnshareNote(n)
  BY Phases DEF MessagePcs, GetEvents, AddSharedNote, ScheduleSharedNote, RedownloadSharedNotes,
                ExpungeSharedNotes, RemoveSharedNotes, DropSharedNote
<1> QED
  BY <1>1 DEF UnshareNote, is_note_in_linked_notebook

\* A download that waits is not older than what its notebook claims.
LEMMA KeepsResultsLinked ==
    ASSUME IInv, Sync \/ Die
    PROVE  ResultsLinked'
<1>1. UNCHANGED remote /\ ProcessTypes /\ ResultsLinked /\ Results
  BY WhoWrites DEF servers, IInv, Typed, LinkedInv
<1>2. Results'
  BY ResultsTyped
<1> SUFFICES ASSUME NEW n \in Notes, results'[n] # None, Home[n] # None,
                    linked_usn'[Home[n]] # None, remote[n].usn <= linked_usn'[Home[n]]
             PROVE  remote[n].live /\ results'[n].usn = remote[n].usn
  BY <1>1 DEF ResultsLinked
<1>3. pc' = "download"
  BY <1>2 DEF Results
<1>4. linked_usn' = linked_usn
  BY <1>3, Phases DEF Authorize, Downloaded, Skipped, Store, tables
<1>5. CASE results'[n] = results[n]
  BY <1>1, <1>4, <1>5 DEF ResultsLinked
<1>6. ASSUME NEW k \in Notes, Downloaded(k)
      PROVE  remote[n].live /\ results'[n].usn = remote[n].usn
  BY <1>1, <1>5, <1>6 DEF Downloaded, Granted, ProcessTypes
<1>7. ASSUME NEW k \in Notes, Store(k)
      PROVE  results'[n] = results[n]
  BY <1>1, <1>7 DEF Store, ProcessTypes
<1> QED
  BY <1>3, <1>5, <1>6, <1>7, Phases DEF Authorize, Skipped

----------------------------------------------------------------------------
(* What the program does keeps its claims about shared notes.              *)

\* The last of some events, one of which is due, is due.
LEMMA LastDue ==
    ASSUME IInv, NEW S \in SUBSET DOMAIN events, NEW k \in S, Due(k)
    PROVE  \E i \in S : Due(i) /\ \A j \in DOMAIN events : j > i => j \notin S
<1>1. Len(events) \in Nat /\ DOMAIN events = 1 .. Len(events)
  BY DEF IInv, Typed, ServerTypes
<1>2. S \in SUBSET Nat /\ \A i \in S : i <= Len(events)
  BY <1>1
<1>3. PICK i \in S : \A j \in S : i >= j
  BY <1>1, <1>2, MaxOfNats
<1>4. \A j \in S : events[j].updated \in Nat
  <2>1. \A j \in S : events[j] \in SharedEvent
    BY DEF IInv, Typed, ServerTypes
  <2> QED
    BY <2>1 DEF SharedEvent
<1>5. connection \in Nat
  BY DEF IInv, Typed, TableTypes, ServerTypes
<1>6. k = i \/ events[k].updated < events[i].updated
  BY <1>2, <1>3 DEF IInv, Known, Numbered
<1>7. Due(i)
  BY <1>3, <1>4, <1>5, <1>6 DEF Due
<1>8. \A j \in DOMAIN events : j > i => j \notin S
  BY <1>1, <1>2, <1>3
<1> QED
  BY <1>7, <1>8

\* A note is not both, of what the message says.
LEMMA OneMembership ==
    ASSUME IInv, pc \in MessagePcs
    PROVE  chunk.shared_note_memberships \cap chunk.expunged_shared_note_memberships = {}
<1>1. Message \subseteq Nat
  BY DEF Message, IInv, Typed, ServerTypes
<1>2. MembersOf(events, Message, FALSE) \cap MembersOf(events, Message, TRUE) = {}
  BY <1>1 DEF MembersOf
<1> QED
  BY <1>2 DEF IInv, SharedInv, Parsed

\* What the message says of a note comes from an event in it.
LEMMA InMessage ==
    ASSUME IInv, pc \in MessagePcs, NEW n \in Notes
    PROVE  /\ n \in chunk.shared_note_memberships \cup chunk.expunged_shared_note_memberships =>
                 \E i \in DOMAIN events : /\ Due(i) /\ events[i].note = n
                                          /\ events[i].kind = "membership"
           /\ n \in chunk.expunged_notes =>
                    /\ \E i \in DOMAIN events : Due(i) /\ Turns(i, n)
                    /\ ~ remote[n].live /\ ~ remote[n].shared
<1>1. /\ chunk.shared_note_memberships = MembersOf(events, Message, FALSE)
      /\ chunk.expunged_shared_note_memberships = MembersOf(events, Message, TRUE)
      /\ chunk.expunged_notes = ExpungedOf(events, Message)
  BY DEF IInv, SharedInv, Parsed
<1>2. \A i \in Message : i \in DOMAIN events /\ Due(i)
  BY DEF Message, Due
<1>3. ASSUME n \in chunk.shared_note_memberships \cup chunk.expunged_shared_note_memberships
      PROVE  \E i \in DOMAIN events : /\ Due(i) /\ events[i].note = n
                                      /\ events[i].kind = "membership"
  BY <1>1, <1>2, <1>3 DEF MembersOf, IsMember
<1>4. ASSUME n \in chunk.expunged_notes
      PROVE  /\ \E i \in DOMAIN events : Due(i) /\ Turns(i, n)
             /\ ~ remote[n].live /\ ~ remote[n].shared
  <2>1. PICK i \in DOMAIN events : /\ Due(i) /\ events[i].note = n
                                   /\ events[i].kind = "note" /\ events[i].del
    BY <1>1, <1>2, <1>4 DEF ExpungedOf
  <2>2. ~ remote[n].live
    BY <2>1 DEF IInv, Known, Told
  <2> QED
    BY <2>1, <2>2 DEF Turns, IInv, Known, Numbered
<1> QED
  BY <1>3, <1>4

\* The message stays what it is.
LEMMA KeepsParsed ==
    ASSUME IInv, Sync \/ Die
    PROVE  Parsed'
<1>1. CASE pc' \notin MessagePcs
  BY <1>1 DEF Parsed
<1>2. CASE GetEvents /\ pc' \in MessagePcs
  <2>1. NewEvents # {}
    BY <1>2 DEF GetEvents, MessagePcs
  <2> QED
    BY <1>2, <2>1, Receives DEF IInv
<1>3. CASE \/ ScheduleSharedNote \/ RedownloadSharedNotes \/ ExpungeSharedNotes
           \/ RemoveSharedNotes \/ DropSharedNote
           \/ \E n \in Notes : AddSharedNote(n) \/ UnshareNote(n)
  <2>1. UNCHANGED <<chunk, connection, events>> /\ pc \in MessagePcs
    BY <1>3 DEF AddSharedNote, ScheduleSharedNote, RedownloadSharedNotes, ExpungeSharedNotes,
                RemoveSharedNotes, UnshareNote, DropSharedNote, servers, cursors, MessagePcs
  <2> QED
    BY <2>1 DEF IInv, SharedInv, Parsed, Message
<1> QED
  BY <1>1, <1>2, <1>3, Phases

\* What of the message is in the tables, and what is in hand.
LEMMA KeepsProcessed ==
    ASSUME IInv, Sync \/ Die
    PROVE  Processed' /\ AtHand'
<1>1. TableTypes /\ ProcessTypes /\ Processed /\ AtHand
  BY DEF IInv, Typed, SharedInv
<1>2. CASE pc' \notin MessagePcs
  BY <1>2 DEF Processed, AtHand, MessagePcs
<1>3. CASE GetEvents /\ pc' \in MessagePcs
  <2>1. NewEvents # {}
    BY <1>3 DEF GetEvents, MessagePcs
  <2>2. pc' = "memberships" /\ ahead' = chunk'.shared_note_memberships
    BY <1>3, <2>1, Receives DEF IInv
  <2> QED
    BY <2>2 DEF Processed, AtHand
<1>4. ASSUME NEW n \in Notes, AddSharedNote(n)
      PROVE  Processed' /\ AtHand'
  <2>1. AtHand'
    BY <1>1, <1>4 DEF AddSharedNote, AtHand
  <2>2. Processed'
    BY <1>1, <1>4 DEF AddSharedNote, Processed, MessagePcs
  <2> QED
    BY <2>1, <2>2
<1>5. CASE ScheduleSharedNote
  <2>1. AtHand'
    BY <1>1, <1>5 DEF ScheduleSharedNote, AtHand
  <2>2. Processed'
    BY <1>1, <1>5, Names
    DEF ScheduleSharedNote, add_notes_for_sync, Processed, AtHand, ProcessTypes,
                             TableTypes, MessagePcs, NoteRow, NULL
  <2> QED
    BY <2>1, <2>2
<1>6. CASE RedownloadSharedNotes
  <2>1. /\ pc = "memberships" /\ ahead = {} /\ pc' = "expungeShared"
        /\ UNCHANGED <<shared_notes, chunk>>
        /\ \A n \in Notes : /\ notes'[n] # None <=> notes[n] # None
                            /\ n \in chunk.notes_to_sync /\ n \in shared_notes =>
                                  notes[n] = None \/ notes'[n].raw_note = NULL
    BY <1>1, <1>6, Redownloads DEF RedownloadSharedNotes
  <2> QED
    BY <1>1, <2>1 DEF Processed, AtHand, MessagePcs
<1>7. CASE ExpungeSharedNotes
  BY <1>1, <1>7 DEF ExpungeSharedNotes, expunge_notes, Processed, AtHand, MessagePcs
<1>8. CASE RemoveSharedNotes
  BY <1>1, <1>8 DEF RemoveSharedNotes, Processed, AtHand, MessagePcs
<1>9. ASSUME NEW n \in Notes, UnshareNote(n)
      PROVE  Processed' /\ AtHand'
  <2>1. n \in chunk.expunged_shared_note_memberships /\ n \notin chunk.shared_note_memberships
    BY <1>1, <1>9, OneMembership DEF UnshareNote, AtHand, MessagePcs
  <2>2. is_note_in_linked_notebook(n) => notes[n].notebook_guid # SharedWithMe
    BY Names DEF is_note_in_linked_notebook
  <2>3. AtHand'
    BY <1>1, <1>9 DEF UnshareNote, AtHand
  <2>4. Processed'
    BY <1>1, <1>9, <2>1, <2>2 DEF UnshareNote, Processed, MessagePcs
  <2> QED
    BY <2>3, <2>4
<1>10. CASE DropSharedNote
  <2>1. cur \notin chunk.shared_note_memberships \/ cur \in chunk.expunged_notes
    BY <1>1, <1>10, OneMembership DEF DropSharedNote, AtHand, MessagePcs
  <2> QED
    BY <1>1, <1>10, <2>1
    DEF DropSharedNote, expunge_notes, Processed, AtHand, MessagePcs, ProcessTypes
<1> QED
  BY <1>2, <1>3, <1>4, <1>5, <1>6, <1>7, <1>8, <1>9, <1>10, Phases

\* When the message is done: the last membership of a note, if it was due, is in
\* it, and the tables say the same, or it is still due.
LEMMA MembershipDone ==
    ASSUME IInv, SetConnection, NEW n \in Notes, NEW k \in DOMAIN events, Due(k),
           events[k].note = n, events[k].kind = "membership"
    PROVE  \/ \E i \in DOMAIN events : /\ connection' <= events[i].updated /\ events[i].note = n
                                       /\ events[i].kind = "membership"
           \/ n \in chunk.shared_note_memberships
           \/ /\ n \in chunk.expunged_shared_note_memberships /\ n \notin shared_notes
              /\ notes[n] = None \/ notes[n].notebook_guid # SharedWithMe
<1> DEFINE S == {i \in DOMAIN events : events[i].note = n /\ events[i].kind = "membership"}
<1>1. S \in SUBSET DOMAIN events /\ k \in S
  OBVIOUS
<1>2. PICK i \in S : Due(i) /\ \A j \in DOMAIN events : j > i => j \notin S
  BY <1>1, LastDue
<1>3. /\ i \in DOMAIN events /\ IsMember(events, i, n)
      /\ \A j \in DOMAIN events : j > i => ~ IsMember(events, j, n)
  BY <1>2 DEF IsMember
<1>4. /\ pc = "unshare" /\ pc \in MessagePcs /\ ahead = {}
      /\ connection' = chunk.last_timestamp + 1
  BY DEF SetConnection, MessagePcs
<1>5. chunk.last_timestamp \in Nat /\ events[i].updated \in Nat
  <2>1. events[i] \in SharedEvent
    BY <1>3 DEF IInv, Typed, ServerTypes
  <2> QED
    BY <1>4, <2>1 DEF SharedEvent, IInv, Typed, ServerTypes, ProcessTypes
<1>6. CASE connection' <= events[i].updated
  BY <1>3, <1>6 DEF IsMember
<1>7. CASE ~ connection' <= events[i].updated
  <2>1. i \in Message
    BY <1>2, <1>3, <1>4, <1>5, <1>7 DEF Message, Due
  <2>2. Message \subseteq DOMAIN events
    BY DEF Message
  <2>3. CASE ~ events[i].del
    <3>1. n \in MembersOf(events, Message, FALSE)
      <4>1. events[i].del = FALSE
        <5>1. events[i] \in SharedEvent
          BY <1>3 DEF IInv, Typed, ServerTypes
        <5> QED
          BY <2>3, <5>1 DEF SharedEvent
      <4> QED
        BY <1>3, <2>1, <2>2, <4>1 DEF MembersOf
    <3> QED
      BY <1>4, <3>1 DEF IInv, SharedInv, Parsed
  <2>4. CASE events[i].del
    <3>1. n \in MembersOf(events, Message, TRUE)
      <4>1. events[i].del = TRUE
        <5>1. events[i] \in SharedEvent
          BY <1>3 DEF IInv, Typed, ServerTypes
        <5> QED
          BY <2>4, <5>1 DEF SharedEvent
      <4> QED
        BY <1>3, <2>1, <2>2, <4>1 DEF MembersOf
    <3> QED
      BY <1>4, <3>1 DEF IInv, SharedInv, Parsed, Processed
  <2> QED
    BY <2>3, <2>4
<1> QED
  BY <1>6, <1>7

\* When the message is done, so are the shares that no later event tells of.
LEMMA TurnsDone ==
    ASSUME IInv, SetConnection, NEW n \in Notes,
           \A i \in DOMAIN events : Turns(i, n) => ~ connection' <= events[i].updated
    PROVE  n \in shared_notes <=> remote[n].shared
<1>1. /\ pc = "unshare" /\ pc \in MessagePcs /\ ahead = {}
      /\ connection' = chunk.last_timestamp + 1
  BY DEF SetConnection, MessagePcs
<1>2. CASE \A i \in DOMAIN events : Turns(i, n) => ~ Due(i)
  BY <1>2 DEF IInv, SharedInv, Tracked
<1>3. ASSUME NEW k \in DOMAIN events, Turns(k, n), Due(k)
      PROVE  n \in shared_notes <=> remote[n].shared
  <2> DEFINE S == {i \in DOMAIN events : Turns(i, n)}
  <2>1. S \in SUBSET DOMAIN events /\ k \in S
    BY <1>3
  <2>2. PICK i \in S : Due(i) /\ \A j \in DOMAIN events : j > i => j \notin S
    BY <1>3, <2>1, LastDue
  <2>3. /\ i \in DOMAIN events /\ Turns(i, n) /\ events[i] \in SharedEvent
        /\ \A j \in DOMAIN events : j > i => ~ Turns(j, n)
    BY <2>2 DEF IInv, Typed, ServerTypes
  <2>4. remote[n].shared <=> ~ events[i].del
    BY <2>3 DEF IInv, Known, Told
  <2>5. chunk.last_timestamp \in Nat /\ events[i].updated \in Nat /\ events[i].del \in BOOLEAN
    BY <1>1, <2>3 DEF SharedEvent, IInv, Typed, ServerTypes, ProcessTypes
  <2>6. i \in Message /\ Message \subseteq DOMAIN events
    BY <1>1, <1>3, <2>2, <2>3, <2>5 DEF Message, Due
  <2>7. CASE events[i].kind = "membership" /\ ~ events[i].del
    <3>1. n \in MembersOf(events, Message, FALSE)
      BY <2>3, <2>5, <2>6, <2>7 DEF MembersOf, IsMember, Turns
    <3>2. n \notin chunk.expunged_notes
      BY <1>1, <2>4, <2>7, InMessage
    <3> QED
      BY <1>1, <2>4, <2>7, <3>1, <3>2 DEF IInv, SharedInv, Parsed, Processed
  <2>8. CASE events[i].kind = "membership" /\ events[i].del
    <3>1. n \in MembersOf(events, Message, TRUE)
      BY <2>3, <2>5, <2>6, <2>8 DEF MembersOf, IsMember, Turns
    <3> QED
      BY <1>1, <2>4, <2>8, <3>1 DEF IInv, SharedInv, Parsed, Processed
  <2>9. CASE events[i].kind = "note" /\ events[i].del
    <3>1. n \in ExpungedOf(events, Message)
      BY <2>3, <2>6, <2>9 DEF ExpungedOf, Turns
    <3> QED
      BY <1>1, <2>4, <2>9, <3>1 DEF IInv, SharedInv, Parsed, Processed
  <2> QED
    BY <2>3, <2>7, <2>8, <2>9 DEF SharedEvent, Turns
<1> QED
  BY <1>2, <1>3

\* A note stays tracked exactly if it is shared.
LEMMA KeepsTracked ==
    ASSUME IInv, Sync \/ Die
    PROVE  Tracked'
<1>1. UNCHANGED <<remote, events>> /\ TableTypes /\ ProcessTypes
  BY WhoWrites DEF servers, IInv, Typed
<1>2. Tracked
  BY DEF IInv, SharedInv
<1> SUFFICES ASSUME NEW n \in Notes
             PROVE  /\ n \in shared_notes' => remote[n].usn # 0
                    /\ (\A i \in DOMAIN events : Turns(i, n) => ~ connection' <= events[i].updated) =>
                          (n \in shared_notes' <=> remote[n].shared)
  BY <1>1 DEF Tracked, Turns, Due
<1>3. ASSUME n \in shared_notes' <=> n \in shared_notes, connection' = connection
      PROVE  /\ n \in shared_notes' => remote[n].usn # 0
             /\ (\A i \in DOMAIN events : Turns(i, n) => ~ connection' <= events[i].updated) =>
                   (n \in shared_notes' <=> remote[n].shared)
  BY <1>2, <1>3 DEF Tracked, Due
<1>4. ASSUME NEW i \in DOMAIN events, Due(i), Turns(i, n), connection' = connection,
             n \in shared_notes' => n \in shared_notes \/ events[i].kind = "membership"
      PROVE  /\ n \in shared_notes' => remote[n].usn # 0
             /\ (\A j \in DOMAIN events : Turns(j, n) => ~ connection' <= events[j].updated) =>
                   (n \in shared_notes' <=> remote[n].shared)
  <2>1. remote[n].usn # 0
    BY <1>4 DEF IInv, Known, Told, Turns
  <2> QED
    BY <1>4, <2>1 DEF Due
<1>5. ASSUME NEW k \in Notes, AddSharedNote(k)
      PROVE  /\ n \in shared_notes' => remote[n].usn # 0
             /\ (\A i \in DOMAIN events : Turns(i, n) => ~ connection' <= events[i].updated) =>
                   (n \in shared_notes' <=> remote[n].shared)
  <2>1. connection' = connection /\ shared_notes' = shared_notes \cup {k}
    BY <1>5 DEF AddSharedNote, cursors
  <2>2. CASE n # k
    BY <1>3, <2>1, <2>2
  <2>3. CASE n = k
    <3>1. n \in chunk.shared_note_memberships /\ pc \in MessagePcs
      BY <1>5, <2>3 DEF AddSharedNote, IInv, SharedInv, AtHand, MessagePcs
    <3>2. PICK i \in DOMAIN events : Due(i) /\ events[i].note = n /\ events[i].kind = "membership"
      BY <3>1, InMessage
    <3> QED
      BY <1>4, <2>1, <3>2 DEF Turns
  <2> QED
    BY <2>2, <2>3
<1>6. CASE RemoveSharedNotes
  <2>1. /\ connection' = connection /\ shared_notes' = shared_notes \ chunk.expunged_notes
        /\ pc \in MessagePcs
    BY <1>6 DEF RemoveSharedNotes, cursors, MessagePcs
  <2>2. CASE n \notin chunk.expunged_notes
    BY <1>3, <2>1, <2>2
  <2>3. CASE n \in chunk.expunged_notes
    <3>1. PICK i \in DOMAIN events : Due(i) /\ Turns(i, n)
      BY <2>1, <2>3, InMessage
    <3> QED
      BY <1>4, <2>1, <2>3, <3>1
  <2> QED
    BY <2>2, <2>3
<1>7. ASSUME NEW k \in Notes, UnshareNote(k)
      PROVE  /\ n \in shared_notes' => remote[n].usn # 0
             /\ (\A i \in DOMAIN events : Turns(i, n) => ~ connection' <= events[i].updated) =>
                   (n \in shared_notes' <=> remote[n].shared)
  <2>1. connection' = connection /\ shared_notes' = shared_notes \ {k}
    BY <1>7 DEF UnshareNote, cursors
  <2>2. CASE n # k
    BY <1>3, <2>1, <2>2
  <2>3. CASE n = k
    <3>1. n \in chunk.expunged_shared_note_memberships /\ pc \in MessagePcs
      BY <1>7, <2>3 DEF UnshareNote, IInv, SharedInv, AtHand, MessagePcs
    <3>2. PICK i \in DOMAIN events : Due(i) /\ events[i].note = n /\ events[i].kind = "membership"
      BY <3>1, InMessage
    <3> QED
      BY <1>4, <2>1, <2>3, <3>2 DEF Turns
  <2> QED
    BY <2>2, <2>3
<1>8. CASE SetConnection
  <2>1. shared_notes' = shared_notes
    BY <1>8 DEF SetConnection, tables
  <2>2. n \in shared_notes => remote[n].usn # 0
    BY <1>2 DEF Tracked
  <2> QED
    BY <1>8, <2>1, <2>2, TurnsDone
<1> QED
  BY <1>3, <1>5, <1>6, <1>7, <1>8, WhoWrites

\* A row goes only with the note, with its notebook if it is not tracked, or with
\* its share.
LEMMA RowsStay ==
    ASSUME IInv, Sync \/ Die, NEW n \in Notes, n \in shared_notes, remote[n].live, notes[n] # None
    PROVE  notes'[n] # None
<1>1. TableTypes /\ ProcessTypes
  BY DEF IInv, Typed
<1>2. CASE notes' = notes
  BY <1>2
<1>3. ASSUME NEW l \in Linked, ExpungeLinkedAssoc(l)
      PROVE  notes'[n] # None
  BY <1>3 DEF ExpungeLinkedAssoc, expunge_notes_by_notebook, expunge_notes
<1>4. CASE RehomeNotes
  BY <1>1, <1>4, Rehomes
<1>5. CASE ExpungeLinkedNotes
  BY <1>5 DEF ExpungeLinkedNotes, expunge_notes, OnePcs, IInv, LinkedInv, Window
<1>6. CASE AddLinkedNotes
  BY <1>1, <1>6, Names DEF AddLinkedNotes, add_notes_for_sync, ProcessTypes, OnePcs, NoteRow, NULL
<1>7. CASE ScheduleSharedNote
  BY <1>1, <1>7, Names DEF ScheduleSharedNote, add_notes_for_sync, NoteRow, NULL
<1>8. CASE RedownloadSharedNotes
  BY <1>1, <1>8, Redownloads
<1>9. CASE ExpungeSharedNotes
  <2>1. n \notin chunk.expunged_notes
    BY <1>9, InMessage DEF ExpungeSharedNotes, MessagePcs
  <2> QED
    BY <1>9, <2>1 DEF ExpungeSharedNotes, expunge_notes
<1>10. CASE DropSharedNote
  BY <1>10 DEF DropSharedNote, expunge_notes, IInv, SharedInv, AtHand
<1>11. ASSUME NEW k \in Notes, Store(k)
       PROVE  notes'[n] # None
  BY <1>11, Stores DEF IInv
<1> QED
  BY <1>2, <1>3, <1>4, <1>5, <1>6, <1>7, <1>8, <1>9, <1>10, <1>11, WhoWrites

\* A tracked note keeps its row.
LEMMA KeepsRows ==
    ASSUME IInv, Sync \/ Die
    PROVE  HasRow'
<1>1. UNCHANGED <<remote, events>> /\ TableTypes /\ ProcessTypes
  BY WhoWrites DEF servers, IInv, Typed
<1>2. TableTypes'
  BY TablesTyped
<1> SUFFICES ASSUME NEW n \in Notes, n \in shared_notes', remote[n].live, notes'[n] = None
             PROVE  \E i \in DOMAIN events : /\ connection' <= events[i].updated
                                             /\ events[i].note = n
                                             /\ events[i].kind = "membership"
  BY <1>1, <1>2 DEF HasRow, TableTypes, Due
<1>3. CASE n \notin shared_notes
  <2>1. AddSharedNote(n)
    BY <1>3, WhoWrites DEF AddSharedNote, RemoveSharedNotes, UnshareNote
  <2>2. n \in chunk.shared_note_memberships /\ pc \in MessagePcs /\ connection' = connection
    BY <2>1 DEF AddSharedNote, IInv, SharedInv, AtHand, MessagePcs, cursors
  <2> QED
    BY <2>2, InMessage DEF Due
<1>4. CASE n \in shared_notes
  <2>1. notes[n] = None
    BY <1>4, RowsStay
  <2>2. PICK k \in DOMAIN events : Due(k) /\ events[k].note = n /\ events[k].kind = "membership"
    BY <1>4, <2>1 DEF IInv, SharedInv, HasRow
  <2>3. CASE connection' = connection
    BY <2>2, <2>3 DEF Due
  <2>4. CASE SetConnection
    <3>1. pc = "unshare" /\ pc \in MessagePcs
      BY <2>4 DEF SetConnection, MessagePcs
    <3>2. n \notin chunk.expunged_notes
      BY <3>1, InMessage
    <3>3. n \notin chunk.shared_note_memberships
      BY <2>1, <3>1, <3>2 DEF IInv, SharedInv, Processed
    <3> QED
      BY <1>4, <2>2, <2>4, <3>3, MembershipDone
  <2> QED
    BY <2>3, <2>4, WhoWrites
<1> QED
  BY <1>3, <1>4

\* What is not tracked leaves the synthetic notebook.
LEMMA KeepsNotFiled ==
    ASSUME IInv, Sync \/ Die
    PROVE  NotFiled'
<1>1. UNCHANGED <<remote, events>> /\ TableTypes /\ ProcessTypes
  BY WhoWrites DEF servers, IInv, Typed
<1> SUFFICES ASSUME NEW n \in Notes, n \notin shared_notes', notes'[n] # None,
                    notes'[n].notebook_guid = SharedWithMe
             PROVE  \E i \in DOMAIN events : /\ connection' <= events[i].updated
                                             /\ events[i].note = n
                                             /\ events[i].kind = "membership"
  BY <1>1 DEF NotFiled, Due
<1>2. CASE n \in shared_notes
  <2>1. RemoveSharedNotes \/ UnshareNote(n)
    BY <1>2, WhoWrites DEF AddSharedNote, RemoveSharedNotes, UnshareNote
  <2>2. ~ RemoveSharedNotes
    BY <1>2 DEF RemoveSharedNotes, IInv, SharedInv, Processed
  <2>3. n \in chunk.expunged_shared_note_memberships /\ pc \in MessagePcs /\ connection' = connection
    BY <2>1, <2>2 DEF UnshareNote, IInv, SharedInv, AtHand, MessagePcs, cursors
  <2> QED
    BY <2>3, InMessage DEF Due
<1>3. CASE n \notin shared_notes
  <2>1. notes[n] # None /\ notes[n].notebook_guid = SharedWithMe
    <3>1. /\ SharedWithMe \notin Linked /\ Home[n] # SharedWithMe
      BY Names
    <3>2. CASE notes' = notes
      BY <3>2
    <3>3. CASE \/ (\E l \in Linked : ExpungeLinkedAssoc(l)) \/ ExpungeLinkedNotes
               \/ ExpungeSharedNotes \/ DropSharedNote
      BY <3>3 DEF ExpungeLinkedAssoc, expunge_notes_by_notebook, ExpungeLinkedNotes,
                  ExpungeSharedNotes, DropSharedNote, expunge_notes
    <3>4. CASE RehomeNotes
      BY <1>1, <1>3, <3>4, Rehomes
    <3>5. CASE AddLinkedNotes
      BY <1>1, <3>1, <3>5 DEF AddLinkedNotes, add_notes_for_sync, ProcessTypes, OnePcs
    <3>6. CASE ScheduleSharedNote
      BY <1>3, <3>6 DEF ScheduleSharedNote, add_notes_for_sync, IInv, SharedInv, AtHand
    <3>7. CASE RedownloadSharedNotes
      BY <1>1, <3>7, Redownloads
    <3>8. ASSUME NEW k \in Notes, Store(k)
          PROVE  notes[n] # None /\ notes[n].notebook_guid = SharedWithMe
      BY <1>3, <3>1, <3>8, Stores DEF IInv
    <3> QED
      BY <3>2, <3>3, <3>4, <3>5, <3>6, <3>7, <3>8, WhoWrites
  <2>2. PICK k \in DOMAIN events : Due(k) /\ events[k].note = n /\ events[k].kind = "membership"
    BY <1>3, <2>1 DEF IInv, SharedInv, NotFiled
  <2>3. CASE connection' = connection
    BY <2>2, <2>3 DEF Due
  <2>4. CASE SetConnection
    <3>1. pc = "unshare"
      BY <2>4 DEF SetConnection
    <3>2. n \notin chunk.shared_note_memberships
      BY <1>3, <2>1, <3>1 DEF IInv, SharedInv, Processed, MessagePcs
    <3> QED
      BY <2>1, <2>2, <2>4, <3>2, MembershipDone
  <2> QED
    BY <2>3, <2>4, WhoWrites
<1> QED
  BY <1>2, <1>3

\* When the message is done, the row of a shared note that it was the last to
\* tell of is scheduled.
LEMMA NotesDone ==
    ASSUME IInv, SetConnection, NEW n \in Notes, remote[n].shared, NEW k \in DOMAIN events,
           Due(k), events[k].note = n,
           \A i \in DOMAIN events : events[i].note = n => ~ connection' <= events[i].updated
    PROVE  notes[n] # None /\ notes[n].raw_note = NULL
<1>1. /\ pc = "unshare" /\ pc \in MessagePcs /\ ahead = {}
      /\ connection' = chunk.last_timestamp + 1 /\ shared_notes' = shared_notes /\ notes' = notes
  BY DEF SetConnection, MessagePcs, tables
<1> DEFINE S == {i \in DOMAIN events : events[i].note = n}
<1>2. S \in SUBSET DOMAIN events /\ k \in S
  OBVIOUS
<1>3. PICK i \in S : Due(i) /\ \A j \in DOMAIN events : j > i => j \notin S
  BY <1>2, LastDue
<1>4. /\ i \in DOMAIN events /\ events[i].note = n /\ events[i] \in SharedEvent
      /\ \A j \in DOMAIN events : j > i => events[j].note # n
  BY <1>3 DEF IInv, Typed, ServerTypes
<1>5. chunk.last_timestamp \in Nat /\ events[i].updated \in Nat
  BY <1>1, <1>4 DEF SharedEvent, IInv, Typed, ServerTypes, ProcessTypes
<1>6. i \in Message /\ Message \subseteq DOMAIN events
  BY <1>1, <1>3, <1>4, <1>5 DEF Message, Due
<1>7. ~ events[i].del
  <2> SUFFICES ASSUME events[i].del PROVE FALSE
    OBVIOUS
  <2>1. Turns(i, n) /\ \A j \in DOMAIN events : j > i => ~ Turns(j, n)
    BY <1>4 DEF Turns
  <2> QED
    BY <1>4, <2>1 DEF IInv, Known, Told
<1>8. n \in chunk.notes_to_sync
  <2>1. n \in SyncOf(events, Message)
    BY <1>4, <1>6, <1>7 DEF SyncOf
  <2> QED
    BY <1>1, <2>1 DEF IInv, SharedInv, Parsed
<1>9. n \in shared_notes
  <2>1. \A j \in DOMAIN events : Turns(j, n) => ~ connection' <= events[j].updated
    BY DEF Turns
  <2> QED
    BY <2>1, TurnsDone
<1>10. notes[n] # None
  <2>1. HasRow' /\ UNCHANGED <<remote, events>>
    BY KeepsRows, WhoWrites DEF Sync, SharedStream, servers
  <2>2. remote[n].live
    BY DEF IInv, Known, Numbered
  <2> QED
    BY <1>1, <1>9, <2>1, <2>2 DEF HasRow, Due
<1> QED
  BY <1>1, <1>8, <1>9, <1>10 DEF IInv, SharedInv, Processed

\* A shared note that no event is due about stays held or scheduled.
LEMMA KeepsUpToDate ==
    ASSUME IInv, Sync \/ Die
    PROVE  UpToDate'
<1>1. UNCHANGED <<remote, events>> /\ TableTypes /\ ProcessTypes
  BY WhoWrites DEF servers, IInv, Typed
<1> SUFFICES ASSUME NEW n \in Notes, remote[n].shared,
                    \A i \in DOMAIN events : events[i].note = n => events[i].updated < connection'
             PROVE  /\ notes'[n] # None /\ notes'[n].raw_note \in {NULL, remote[n].usn}
                    /\ results'[n] # None => results'[n].usn = remote[n].usn
  BY <1>1 DEF UpToDate, Settled
<1>2. remote[n].live
  BY DEF IInv, Known, Numbered
<1>3. ASSUME connection' = connection
      PROVE  /\ notes'[n] # None /\ notes'[n].raw_note \in {NULL, remote[n].usn}
             /\ results'[n] # None => results'[n].usn = remote[n].usn
  <2>1. Settled(n)
    BY <1>3 DEF Settled
  <2>2. /\ notes[n] # None /\ notes[n].raw_note \in {NULL, remote[n].usn}
        /\ results[n] # None => results[n].usn = remote[n].usn
    BY <2>1 DEF IInv, SharedInv, UpToDate
  <2>3. n \in shared_notes
    <3>1. \A i \in DOMAIN events : Turns(i, n) => ~ Due(i)
      <4>1. connection \in Nat /\ \A i \in DOMAIN events : events[i] \in SharedEvent
        BY DEF IInv, Typed, TableTypes, ServerTypes
      <4> QED
        BY <2>1, <4>1 DEF Settled, Turns, Due, SharedEvent
    <3> QED
      BY <3>1 DEF IInv, SharedInv, Tracked
  <2>4. notes'[n] # None
    BY <1>2, <2>2, <2>3, RowsStay
  <2>5. notes'[n].raw_note \in {NULL, remote[n].usn}
    <3>1. CASE notes'[n] \in {notes[n], None}
      BY <2>2, <2>4, <3>1
    <3>2. CASE \/ (\E l \in Linked : ExpungeLinkedAssoc(l)) \/ ExpungeLinkedNotes
               \/ ExpungeSharedNotes \/ DropSharedNote
      <4>1. notes'[n] \in {notes[n], None}
        BY <3>2 DEF ExpungeLinkedAssoc, expunge_notes_by_notebook, ExpungeLinkedNotes,
                    ExpungeSharedNotes, DropSharedNote, expunge_notes
      <4> QED
        BY <3>1, <4>1
    <3>3. CASE RehomeNotes
      BY <1>1, <2>2, <3>3, Rehomes
    <3>4. CASE AddLinkedNotes
      BY <2>2, <3>4 DEF AddLinkedNotes, add_notes_for_sync
    <3>5. CASE ScheduleSharedNote
      BY <2>2, <3>5 DEF ScheduleSharedNote, add_notes_for_sync
    <3>6. CASE RedownloadSharedNotes
      BY <1>1, <2>2, <3>6, Redownloads
    <3>7. ASSUME NEW k \in Notes, Store(k)
          PROVE  notes'[n].raw_note \in {NULL, remote[n].usn}
      BY <2>2, <3>7, Stores DEF IInv
    <3> QED
      BY <3>1, <3>2, <3>3, <3>4, <3>5, <3>6, <3>7, WhoWrites
  <2>6. results'[n] # None => results'[n].usn = remote[n].usn
    <3>1. ASSUME NEW k \in Notes, Downloaded(k)
          PROVE results'[n] # None => results'[n].usn = remote[n].usn
      BY <1>1, <2>2, <3>1 DEF Downloaded, ProcessTypes
    <3>2. ASSUME NEW k \in Notes, Store(k)
          PROVE results'[n] # None => results'[n].usn = remote[n].usn
      BY <1>1, <2>2, <3>2 DEF Store, ProcessTypes
    <3> QED
      BY <2>2, <3>1, <3>2, WhoWrites DEF NoResults
  <2> QED
    BY <2>4, <2>5, <2>6
<1>4. CASE SetConnection
  <2>1. /\ notes' = notes /\ results' = results /\ pc = "unshare"
        /\ connection' = chunk.last_timestamp + 1 /\ chunk.last_timestamp \in Nat
    BY <1>1, <1>4 DEF SetConnection, ProcessTypes, MessagePcs, tables
  <2>2. results[n] = None
    BY <2>1 DEF IInv, Typed, Results
  <2>3. CASE Settled(n)
    BY <2>1, <2>2, <2>3 DEF IInv, SharedInv, UpToDate
  <2>4. CASE ~ Settled(n)
    <3>1. PICK k \in DOMAIN events : events[k].note = n /\ ~ events[k].updated < connection
      BY <2>4 DEF Settled
    <3>2. /\ connection \in Nat /\ \A i \in DOMAIN events : events[i] \in SharedEvent
      BY DEF IInv, Typed, TableTypes, ServerTypes
    <3>3. Due(k)
      BY <3>1, <3>2 DEF Due, SharedEvent
    <3>4. \A i \in DOMAIN events : events[i].note = n => ~ connection' <= events[i].updated
      BY <2>1, <3>2 DEF SharedEvent
    <3> QED
      BY <1>4, <2>1, <2>2, <3>1, <3>3, <3>4, NotesDone
  <2> QED
    BY <2>3, <2>4
<1> QED
  BY <1>3, <1>4, WhoWrites

----------------------------------------------------------------------------
(* The invariant.                                                          *)

\* No step of the servers or of the program breaks it.
LEMMA Steps == IInv /\ [Next]_vars => IInv'
<1>1. ASSUME IInv, ServersChange PROVE IInv'
  <2>1. Typed'
    BY <1>1, TypedServers
  <2>2. Known'
    BY <1>1, StaysNumbered, StaysTold DEF IInv, Known
  <2> QED
    BY <1>1, <2>1, <2>2, LinkedServers, SharedServers DEF IInv
<1>2. ASSUME IInv, Sync \/ Die PROVE IInv'
  <2>1. UNCHANGED servers
    BY <1>2, WhoWrites
  <2>2. Typed'
    <3>1. ServerTypes'
      BY <1>2, <2>1 DEF servers, IInv, Typed, ServerTypes
    <3> QED
      BY <1>2, <3>1, TablesTyped, ProcessTyped, ResultsTyped DEF Typed
  <2>3. Known'
    BY <1>2, <2>1 DEF servers, IInv, Known, Numbered, Told, Turns
  <2>4. LinkedInv'
    BY <1>2, KeepsLinks, KeepsCursors, KeepsScanned, KeepsWindow, KeepsDropped, KeepsResultsLinked
       DEF LinkedInv
  <2>5. SharedInv'
    BY <1>2, KeepsParsed, KeepsProcessed, KeepsTracked, KeepsRows, KeepsNotFiled, KeepsUpToDate
       DEF SharedInv
  <2> QED
    BY <2>2, <2>3, <2>4, <2>5 DEF IInv
<1>3. ASSUME IInv, UNCHANGED vars PROVE IInv'
  <2>1. UNCHANGED <<servers, tables, cursors, process>>
    BY <1>3 DEF vars
  <2>2. Typed'
    BY <1>3, <2>1
    DEF servers, tables, cursors, process, IInv, Typed, ServerTypes, TableTypes, Filed,
         ProcessTypes, Results, is_note_in_linked_notebook
  <2>3. Known'
    BY <1>3, <2>1 DEF servers, IInv, Known, Numbered, Told, Turns
  <2>4. LinkedInv'
    BY <1>3, <2>1 DEF servers, tables, process, IInv, LinkedInv, Links, Cursors, Scanned, Window,
         Applied, Dropped, ResultsLinked, ReflectedUpTo, Reflected, Joined,
         is_note_in_linked_notebook
  <2>5. SharedInv'
    BY <1>3, <2>1
    DEF servers, tables, cursors, process, IInv, SharedInv, Parsed, Message, Processed,
         AtHand, Tracked, HasRow, NotFiled, UpToDate, Due, Turns, Settled
  <2> QED
    BY <2>2, <2>3, <2>4, <2>5 DEF IInv
<1> QED
  BY <1>1, <1>2, <1>3 DEF Next

\* In every state of every run: the types, what the servers know of themselves,
\* and what the program may claim along each of the two paths.
THEOREM Invariant == Spec => []IInv
<1>1. Init => IInv
  BY InitInv
<1>2. IInv /\ [Next]_vars => IInv'
  BY Steps
<1> QED
  BY <1>1, <1>2, PTL DEF Spec

\* The tables and what the program holds have their types.
THEOREM Typing == Spec => []TypeOK
<1>1. IInv => TypeOK
  BY DEF IInv, Typed, TableTypes, ProcessTypes, TypeOK
<1> QED
  BY <1>1, Invariant, PTL

\* Whatever the shares of single notes do to its rows, a linked notebook in the
\* account holds what it claims by the number that is saved for it.
THEOREM LinkedCursor == Spec => []LinkedCursorSound
<1>1. IInv => LinkedCursorSound
  BY Names DEF IInv, LinkedInv, Cursors, ReflectedUpTo, Reflected, LinkedCursorSound
<1> QED
  BY <1>1, Invariant, PTL

\* Whatever the linked notebooks do to its row, a note that the saved time has
\* passed is tracked, held and filed as it is shared.
THEOREM SharedCursor == Spec => []SharedCursorSound
<1>1. IInv => SharedCursorSound
  <2> SUFFICES ASSUME IInv, NEW n \in Notes, Settled(n)
               PROVE  /\ n \in shared_notes <=> remote[n].shared
                      /\ remote[n].shared => /\ notes[n] # None
                                             /\ notes[n].raw_note \in {NULL, remote[n].usn}
                      /\ ~ remote[n].shared =>
                            notes[n] = None \/ notes[n].notebook_guid # SharedWithMe
    BY DEF SharedCursorSound
  <2>1. \A i \in DOMAIN events : events[i].note = n => ~ Due(i)
    <3>1. connection \in Nat /\ \A i \in DOMAIN events : events[i] \in SharedEvent
      BY DEF IInv, Typed, TableTypes, ServerTypes
    <3> QED
      BY <3>1 DEF Settled, Due, SharedEvent
  <2>2. n \in shared_notes <=> remote[n].shared
    BY <2>1 DEF IInv, SharedInv, Tracked, Turns
  <2>3. remote[n].shared => /\ notes[n] # None
                            /\ notes[n].raw_note \in {NULL, remote[n].usn}
    BY DEF IInv, SharedInv, UpToDate
  <2>4. ~ remote[n].shared => notes[n] = None \/ notes[n].notebook_guid # SharedWithMe
    BY <2>1, <2>2 DEF IInv, SharedInv, NotFiled
  <2> QED
    BY <2>2, <2>3, <2>4
<1> QED
  BY <1>1, Invariant, PTL
================================================================================
