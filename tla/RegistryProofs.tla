--------------------------- MODULE RegistryProofs ---------------------------
(***************************************************************************)
(* The index of a registry names no entry without a record, whatever       *)
(* interleaves and fails.  The invariant follows the two orders the code   *)
(* keeps (record before id when creating, id before record when deleting)  *)
(* and says why no creation meets a deletion of the same key: a fresh uuid *)
(* is unknown until it is listed, and for a server the two calls overlap.  *)
(* From the same orders: calls that do not overlap are serial, a list      *)
(* drops only the dead, and projects that were not created at once differ. *)
(***************************************************************************)
EXTENDS Registry, TLAPS

Typed ==
    /\ kind \in Kinds
    /\ records \in [EntryKeys -> Record \cup {Null}]
    /\ index \subseteq known /\ known \subseteq EntryKeys
    /\ command \in [Callers -> {"idle", "done", "listing", "loading", "healing",
                 "checking", "writing", "indexing", "fetching", "storing",
                 "unindexing", "erasing"}]
    /\ call \in [Callers -> [op : Ops, key : EntryKeys \cup {Null},
                              name : Names \cup {Null}, place : Names \cup {Null}]]
    /\ fetched \in [Callers -> Record \cup {Null}]
    /\ missing \in [Callers -> SUBSET EntryKeys]
    /\ after \in [Callers -> {"writing", "done"}]

\* Where each kind of call can be, and what it holds there.
Shape(c) ==
    /\ call[c].op \in {"create", "update", "share", "delete"} => call[c].key \in EntryKeys
    /\ call[c].op = "create" => call[c].name \in Names /\ call[c].place \in Names
    /\ call[c].op = "update" => call[c].name \in Names /\ call[c].place \in Names
    /\ command[c] \in {"unindexing", "erasing"} => call[c].op = "delete"
    /\ command[c] \in {"fetching", "storing"} => call[c].op \in {"update", "share"}
    /\ command[c] \in {"checking", "writing", "indexing"} => call[c].op = "create"
    /\ command[c] \in {"listing", "loading", "healing"} => call[c].op \in {"create", "list"}
    /\ command[c] \in {"listing", "loading", "healing"} /\ after[c] = "writing"
         => call[c].op = "create"
    /\ command[c] = "storing" => fetched[c] \in Record

\* A key given to an update or a deletion was learnt; a fresh uuid was not.
Learnt(c) ==
    /\ command[c] \in {"unindexing", "erasing", "fetching", "storing"} => call[c].key \in known
    /\ kind # "server" =>
         /\ command[c] = "idle" => c \notin known
         /\ call[c].op = "create" => call[c].key = c
         /\ Active(c) /\ call[c].op = "create" => c \notin known

Clash(k) == kind = "server" /\ k \in contended

Ordered(c) ==
    /\ command[c] = "erasing" => call[c].key \notin index \/ Clash(call[c].key)
    /\ command[c] = "indexing" => records[call[c].key] # Null \/ Clash(call[c].key)

Observed == Contention \subseteq contended

IInv == /\ Typed /\ Observed /\ EntriesHaveRecords
        /\ \A c \in Callers : Shape(c) /\ Learnt(c) /\ Ordered(c)

USE DEF Ops, EntryKeys

\* What a request can be.
LEMMA RequestShape ==
    ASSUME Typed, NEW c \in Callers, NEW r \in Requests(c)
    PROVE  /\ r \in [op : Ops, key : EntryKeys \cup {Null},
                     name : Names \cup {Null}, place : Names \cup {Null}]
           /\ r.op \in {"create", "update", "share", "delete", "list"}
           /\ r.op # "list" => r.key \in EntryKeys
           /\ r.op \in {"update", "share", "delete"} => r.key \in known
           /\ r.op \in {"create", "update"} => r.name \in Names /\ r.place \in Names
           /\ r.op = "create" /\ kind # "server" => r.key = c
<1>1. CASE r \in Creations(c)
      BY <1>1 DEF Creations, Typed
<1>2. CASE \E k \in known : r \in Changes(k) \cup Others(k)
      BY <1>2 DEF Changes, Others, Typed
<1>3. CASE r = [NoCall EXCEPT !.op = "list"]
      BY <1>3 DEF NoCall, Typed
<1> QED BY <1>1, <1>2, <1>3 DEF Requests

\* Every call starts at the command its operation calls for.
LEMMA FirstStepShape ==
    ASSUME kind \in Kinds, NEW op \in {"create", "update", "share", "delete", "list"}
    PROVE  \/ op = "create" /\ FirstStep(op) \in {"writing", "listing", "checking"}
           \/ op \in {"update", "share"} /\ FirstStep(op) = "fetching"
           \/ op = "delete" /\ FirstStep(op) = "unindexing"
           \/ op = "list" /\ FirstStep(op) = "listing"
BY DEF FirstStep, Kinds, Plain

\* A record changed is a record.
LEMMA ChangedIsRecord ==
    ASSUME NEW r \in Record, NEW request, request.op \in {"update", "share"},
           request.op = "update" => request.name \in Names /\ request.place \in Names
    PROVE  Changed(r, request) \in Record
<1>1. CASE request.op = "share"
  <2>1. Changed(r, request) = SharedCopy(r)
        BY <1>1 DEF Changed
  <2> QED BY <2>1 DEF SharedCopy, Record
<1>2. CASE request.op = "update" /\ kind = "server"
  <2>1. Changed(r, request) = [r EXCEPT !.place = request.place]
        BY <1>2 DEF Changed
  <2> QED BY <1>2, <2>1 DEF Record
<1>3. CASE request.op = "update" /\ kind # "server"
  <2>1. Changed(r, request) = [r EXCEPT !.name = request.name]
        BY <1>3 DEF Changed
  <2> QED BY <1>3, <2>1 DEF Record
<1> QED BY <1>1, <1>2, <1>3

\* The types, and where each kind of call can be, are kept by every step.
LEMMA TypesKept ==
    ASSUME IInv, Observe, NEW c \in Callers, Step(c)
    PROVE  Typed' /\ \A d \in Callers : Shape(d)'
<1> USE DEF IInv, Typed, Shape, Reach, Observe, store
<1>1. CASE Begin(c)
  <2>1. PICK r \in Requests(c) :
          /\ call' = [call EXCEPT ![c] = r]
          /\ command' = [command EXCEPT ![c] = FirstStep(r.op)]
          /\ after' = [after EXCEPT ![c] =
                         IF r.op = "create" THEN "writing" ELSE "done"]
        BY <1>1 DEF Begin
  <2> QED BY <1>1, <2>1, RequestShape, FirstStepShape DEF Begin
<1>2. CASE ReadIndex(c)
  <2>1. command' = [command EXCEPT ![c] = IF index = {} THEN after[c] ELSE "loading"]
        BY <1>2 DEF ReadIndex
  <2>2. after[c] \in {"writing", "done"}
        OBVIOUS
  <2>3. /\ missing' = [missing EXCEPT ![c] = index] /\ index \in SUBSET EntryKeys
        /\ UNCHANGED <<records, index, call, fetched, after, known, expected, broken>>
        BY <1>2 DEF ReadIndex
  <2>4. Typed'
        BY <1>2, <2>1, <2>2, <2>3 DEF ReadIndex
  <2>5. ASSUME NEW d \in Callers PROVE Shape(d)'
    <3>1. CASE d = c
          BY <1>2, <2>1, <2>2, <2>3, <3>1 DEF ReadIndex
    <3>2. CASE d # c
          BY <1>2, <2>1, <2>3, <3>2 DEF ReadIndex
    <3> QED BY <3>1, <3>2
  <2> QED BY <2>4, <2>5
<1>3. CASE ReadRecords(c)
      BY <1>3 DEF ReadRecords
<1>4. CASE Heal(c)
      BY <1>4 DEF Heal
<1>5. CASE Check(c)
      BY <1>5 DEF Check
<1>6. CASE WriteNew(c)
      BY <1>6 DEF WriteNew, NewRecord, Fresh, Record
<1>7. CASE AddToIndex(c)
      BY <1>7 DEF AddToIndex
<1>8. CASE Fetch(c)
      BY <1>8, RecordAssumption DEF Fetch
<1>9. CASE Store(c)
      BY <1>9, ChangedIsRecord DEF Store
<1>10. CASE Unindex(c)
      BY <1>10 DEF Unindex
<1>11. CASE Erase(c)
      BY <1>11 DEF Erase
<1>12. CASE Fail(c)
      BY <1>12 DEF Fail
<1> QED BY <1>1, <1>2, <1>3, <1>4, <1>5, <1>6, <1>7, <1>8, <1>9, <1>10,
          <1>11, <1>12 DEF Step

\* EntryKeys are given out as they are learnt, and a uuid is learnt when listed.
LEMMA LearntKept ==
    ASSUME IInv, Observe, NEW c \in Callers, Step(c)
    PROVE  \A d \in Callers : Learnt(d)'
<1> USE DEF IInv, Typed, Shape, Learnt, Active, Reach, Observe, store
<1>1. CASE Begin(c)
  <2>1. PICK r \in Requests(c) :
          /\ call' = [call EXCEPT ![c] = r]
          /\ command' = [command EXCEPT ![c] = FirstStep(r.op)]
        BY <1>1 DEF Begin
  <2> QED BY <1>1, <2>1, RequestShape, FirstStepShape DEF Begin
<1>2. CASE ReadIndex(c)
      BY <1>2 DEF ReadIndex
<1>3. CASE ReadRecords(c)
      BY <1>3 DEF ReadRecords
<1>4. CASE Heal(c)
      BY <1>4 DEF Heal
<1>5. CASE Check(c)
      BY <1>5 DEF Check
<1>6. CASE WriteNew(c)
      BY <1>6 DEF WriteNew
<1>7. CASE AddToIndex(c)
      BY <1>7 DEF AddToIndex
<1>8. CASE Fetch(c)
      BY <1>8 DEF Fetch
<1>9. CASE Store(c)
      BY <1>9 DEF Store
<1>10. CASE Unindex(c)
      BY <1>10 DEF Unindex
<1>11. CASE Erase(c)
      BY <1>11 DEF Erase
<1>12. CASE Fail(c)
      BY <1>12 DEF Fail
<1> QED BY <1>1, <1>2, <1>3, <1>4, <1>5, <1>6, <1>7, <1>8, <1>9, <1>10,
          <1>11, <1>12 DEF Step

\* A creation that writes the index and a deletion that erases meet on one key
\* only if it is a server's, and their overlap was observed.
LEMMA CreationMeetsDeletion ==
    ASSUME IInv, NEW c \in Callers, NEW d \in Callers,
           command[c] = "indexing", command[d] = "erasing", call[c].key = call[d].key
    PROVE  Clash(call[c].key)
<1> DEFINE k == call[c].key
<1>1. c # d /\ k \in EntryKeys /\ k # Null
      BY NullAssumption DEF IInv, Shape
<1>2. k \in Touched(c) /\ k \in Touched(d)
      BY <1>1 DEF Touched, Active
<1>3. k \in contended
      BY <1>1, <1>2 DEF IInv, Observed, Contention
<1>4. kind = "server"
      BY DEF IInv, Learnt, Shape, Active
<1> QED BY <1>3, <1>4 DEF Clash

\* The order of the two writes of a creation and of a deletion.
LEMMA OrderKept ==
    ASSUME IInv, Observe, NEW c \in Callers, Step(c)
    PROVE  EntriesHaveRecords' /\ \A d \in Callers : Ordered(d)'
<1> USE DEF IInv, Typed, Shape, EntriesHaveRecords, Ordered, Clash, Reach, Observe, store
<1>0. \A k : Clash(k) => Clash(k)'
      OBVIOUS
<1>1. CASE Begin(c)
  <2>1. PICK r \in Requests(c) :
          /\ call' = [call EXCEPT ![c] = r]
          /\ command' = [command EXCEPT ![c] = FirstStep(r.op)]
        BY <1>1 DEF Begin
  <2> QED BY <1>1, <2>1, RequestShape, FirstStepShape DEF Begin
<1>2. CASE ReadIndex(c)
      BY <1>2 DEF ReadIndex
<1>3. CASE ReadRecords(c)
      BY <1>3 DEF ReadRecords
<1>4. CASE Heal(c)
      BY <1>4 DEF Heal
<1>5. CASE Check(c)
      BY <1>5 DEF Check
<1>6. CASE WriteNew(c)
  <2>1. NewRecord(c) \in Record
        BY <1>6 DEF WriteNew, NewRecord, Fresh, Record
  <2> QED BY <1>6, <2>1, RecordAssumption DEF WriteNew
<1>7. CASE AddToIndex(c)
      BY <1>7, CreationMeetsDeletion DEF AddToIndex
<1>8. CASE Fetch(c)
      BY <1>8 DEF Fetch
<1>9. CASE Store(c)
  <2>1. Changed(fetched[c], call[c]) \in Record
        BY <1>9, ChangedIsRecord DEF Store
  <2> QED BY <1>9, <2>1, RecordAssumption DEF Store
<1>10. CASE Unindex(c)
      BY <1>10 DEF Unindex
<1>11. CASE Erase(c)
      BY <1>11, CreationMeetsDeletion DEF Erase
<1>12. CASE Fail(c)
      BY <1>12 DEF Fail
<1> QED BY <1>1, <1>2, <1>3, <1>4, <1>5, <1>6, <1>7, <1>8, <1>9, <1>10,
          <1>11, <1>12 DEF Step

LEMMA InitEstablishes == RegistryInit => IInv
<1> SUFFICES ASSUME RegistryInit PROVE IInv
    OBVIOUS
<1>0. PICK n \in Names, p \in Names :
         /\ records = [k \in EntryKeys |-> IF k \in index THEN Fresh(n, p) ELSE Null]
         /\ index \in SUBSET EntryKeys
      BY DEF RegistryInit
<1> Fresh(n, p) \in Record
    BY DEF Fresh, Record
<1>1. Typed
      BY <1>0 DEF RegistryInit, Typed, NoCall
<1>2. EntriesHaveRecords
      BY <1>0, RecordAssumption DEF EntriesHaveRecords
<1>3. ASSUME NEW c \in Callers PROVE Shape(c) /\ Learnt(c) /\ Ordered(c)
      BY CallersAssumption, NamesAssumption
      DEF RegistryInit, Shape, Learnt, Ordered, NoCall, Active
<1>4. Observed
      BY DEF RegistryInit, Observed, Contention, Touched, Active
<1> QED BY <1>1, <1>2, <1>3, <1>4 DEF IInv

LEMMA Inductive == IInv /\ [RegistryNext]_registryVars => IInv'
<1> SUFFICES ASSUME IInv, [RegistryNext]_registryVars PROVE IInv'
    OBVIOUS
<1>1. CASE UNCHANGED registryVars
      BY <1>1 DEF IInv, registryVars, store, Typed, EntriesHaveRecords, Shape, Learnt,
                  Ordered, Clash, Active, Observed, Contention, Touched
<1>2. ASSUME NEW c \in Callers, Step(c), Observe PROVE IInv'
  <2>1. Observed'
        BY <1>2 DEF Observe, Observed
  <2> QED BY <1>2, <2>1, TypesKept, LearntKept, OrderKept DEF IInv
<1> QED BY <1>1, <1>2 DEF RegistryNext

\* For any number of calls, any names and any interleaving and failure, an index
\* of agents or projects never names an entry without a record, and a server's
\* does only where calls on it overlapped.
THEOREM NoDanglingEntry == RegistrySpec => []EntriesHaveRecords
<1>1. IInv => EntriesHaveRecords
      BY DEF IInv
<1> QED BY InitEstablishes, Inductive, <1>1, PTL DEF RegistrySpec

-----------------------------------------------------------------------------
(***************************************************************************)
(* A key on which no two calls overlapped: the registry and the atomic one *)
(* of expected differ only between the two writes of the one call there.   *)
(***************************************************************************)
Quiet(k) == ~\E d \in Callers : command[d] \in {"indexing", "erasing"} /\ call[d].key = k
Agrees(k) == records[k] = expected[k] /\ (k \in index <=> expected[k] # Null)

\* Between its two writes a lone call is ahead of the atomic registry in one
\* write; everywhere else the two agree.
Serial(k) ==
    /\ Quiet(k) => Agrees(k)
    /\ \A d \in Callers : call[d].key = k =>
          /\ command[d] = "indexing" => records[k] = NewRecord(d)
          /\ command[d] = "erasing" => k \notin index
          /\ command[d] = "storing" => fetched[d] = records[k]

\* What a list is about to drop.
Dead(c) ==
    /\ missing[c] \subseteq known
    /\ command[c] = "healing" =>
         \A k \in missing[c] :
            /\ records[k] = Null \/ k \in contended
            /\ kind # "server" => k \notin index

SerialInv ==
    /\ expected = [k \in EntryKeys |-> expected[k]]
    /\ \A k \in EntryKeys \ (contended \cup broken) : Serial(k)
    /\ \A c \in Callers : Dead(c)

SInv == IInv /\ SerialInv

\* Two calls on one key, or a list dropping it and a call on it, are observed.
LEMMA Overlap ==
    ASSUME IInv, NEW c \in Callers, NEW d \in Callers, c # d, NEW k \in EntryKeys,
           k \in Touched(c), k \in Touched(d)
    PROVE  k \in contended
BY DEF IInv, Observed, Contention

\* What a change writes is what it promises.
LEMMA ChangedIsPromised ==
    ASSUME NEW r \in Record, NEW request, request.op \in {"update", "share"},
           request.op = "update" => request.name \in Names /\ request.place \in Names
    PROVE  Changed(r, request) = Promised(r, request)
<1>1. CASE request.op = "share"
  <2>1. Changed(r, request) = SharedCopy(r)
        BY <1>1 DEF Changed
  <2> QED BY <1>1, <2>1 DEF SharedCopy, Promised, Record
<1>2. CASE request.op = "update" /\ kind = "server"
  <2>1. Changed(r, request) = [r EXCEPT !.place = request.place]
        BY <1>2 DEF Changed
  <2> QED BY <1>2, <2>1 DEF Promised, Record
<1>3. CASE request.op = "update" /\ kind # "server"
  <2>1. Changed(r, request) = [r EXCEPT !.name = request.name]
        BY <1>3 DEF Changed
  <2> QED BY <1>3, <2>1 DEF Promised, Record
<1> QED BY <1>1, <1>2, <1>3

\* A list drops only the dead: a record comes back to life only under a call that
\* overlaps the list, and a uuid that left the index is never listed again.
LEMMA DeadKept ==
    ASSUME SInv, Observe, NEW c \in Callers, Step(c)
    PROVE  \A d \in Callers : Dead(d)'
<1> USE DEF SInv, SerialInv, IInv, Typed, Shape, Learnt, Dead, EntriesHaveRecords, Reach, Observe, store
<1>0. ASSUME NEW d \in Callers, d # c, command[d] = "healing", NEW k \in missing[d],
             Active(c), call[c].key = k
      PROVE  k \in contended
      BY <1>0, Overlap, NullAssumption DEF Touched, Active
<1>1. CASE Begin(c)
  <2>1. PICK r \in Requests(c) :
          /\ call' = [call EXCEPT ![c] = r]
          /\ command' = [command EXCEPT ![c] = FirstStep(r.op)]
        BY <1>1 DEF Begin
  <2> QED BY <1>1, <2>1, RequestShape, FirstStepShape DEF Begin
<1>2. CASE ReadIndex(c)
      BY <1>2 DEF ReadIndex
<1>3. CASE ReadRecords(c)
      BY <1>3 DEF ReadRecords, Clash
<1>4. CASE Heal(c)
      BY <1>4 DEF Heal
<1>5. CASE Check(c)
      BY <1>5 DEF Check
<1>6. CASE WriteNew(c)
      BY <1>6, <1>0 DEF WriteNew, Active
<1>7. CASE AddToIndex(c)
      BY <1>7 DEF AddToIndex, Active
<1>8. CASE Fetch(c)
      BY <1>8 DEF Fetch
<1>9. CASE Store(c)
      BY <1>9, <1>0 DEF Store, Active
<1>10. CASE Unindex(c)
      BY <1>10 DEF Unindex
<1>11. CASE Erase(c)
      BY <1>11 DEF Erase
<1>12. CASE Fail(c)
      BY <1>12 DEF Fail
<1> QED BY <1>1, <1>2, <1>3, <1>4, <1>5, <1>6, <1>7, <1>8, <1>9, <1>10,
          <1>11, <1>12 DEF Step

\* One call at a time, a key goes through what the atomic registry goes through.
LEMMA SerialKept ==
    ASSUME SInv, Observe, NEW c \in Callers, Step(c), IInv',
           NEW k \in EntryKeys, k \notin (contended \cup broken)'
    PROVE  Serial(k)'
<1> USE DEF SInv, SerialInv, IInv, Typed, Shape, Quiet, Agrees, Reach, Observe, store
<1>0. k \notin contended /\ k \notin broken /\ Serial(k)
  <2>1. k \notin contended /\ contended \subseteq contended'
        OBVIOUS
  <2>2. broken \subseteq broken'
        BY DEF Step, Begin, ReadIndex, ReadRecords, Heal, Check, WriteNew, AddToIndex,
               Fetch, Store, Unindex, Erase, Fail
  <2> QED BY <2>1, <2>2
<1>a. \A d \in Callers : d # c /\ Active(c) /\ call[c].key = k => ~(Active(d) /\ call[d].key = k)
      BY <1>0, Overlap, NullAssumption DEF Touched
<1>b. \A d \in Callers : d # c /\ (Active(c) /\ call[c].key = k)' => ~(Active(d) /\ call[d].key = k)'
      BY <1>0, NullAssumption DEF Touched, Observed, Contention
<1>c. ASSUME Active(c), call[c].key = k
      PROVE  \A d \in Callers : d # c /\ call[d].key = k => command[d] \in {"idle", "done"}
      BY <1>a, <1>c DEF Active
<1> USE DEF Serial
<1>1. CASE Begin(c)
  <2>1. PICK r \in Requests(c) :
          /\ call' = [call EXCEPT ![c] = r]
          /\ command' = [command EXCEPT ![c] = FirstStep(r.op)]
        BY <1>1 DEF Begin
  <2> QED BY <1>0, <1>b, <1>1, <2>1, RequestShape, FirstStepShape DEF Begin, Active, NewRecord
<1>2. CASE ReadIndex(c)
      BY <1>0, <1>2 DEF ReadIndex, NewRecord
<1>3. CASE ReadRecords(c)
      BY <1>0, <1>3 DEF ReadRecords, NewRecord
<1>4. CASE Heal(c)
      BY <1>0, <1>4 DEF Heal, NewRecord, Dead
<1>5. CASE Check(c)
      BY <1>0, <1>5 DEF Check, NewRecord
<1>6. CASE WriteNew(c)
  <2>1. CASE call[c].key = k
    <3>1. /\ command' = [command EXCEPT ![c] = "indexing"] /\ records'[k] = NewRecord(c)
          /\ UNCHANGED <<call, fetched, index>> /\ NewRecord(c)' = NewRecord(c)
          BY <1>6, <2>1 DEF WriteNew, NewRecord
    <3>2. \A d \in Callers : d # c /\ call[d].key = k => command[d] \in {"idle", "done"}
          BY <1>c, <1>6, <2>1 DEF WriteNew, Active
    <3> QED BY <2>1, <3>1, <3>2
  <2>2. CASE call[c].key # k
        BY <1>0, <1>6, <2>2 DEF WriteNew, NewRecord
  <2> QED BY <2>1, <2>2
<1>7. CASE AddToIndex(c)
  <2>0. NewRecord(c) \in Record
        BY <1>7 DEF AddToIndex, NewRecord, Fresh, Record
  <2>1. CASE call[c].key = k
        BY <1>0, <1>a, <1>7, <2>1, <2>0, RecordAssumption DEF AddToIndex, NewRecord, Active
  <2>2. CASE call[c].key # k
        BY <1>0, <1>7, <2>2 DEF AddToIndex, NewRecord
  <2> QED BY <2>1, <2>2
<1>8. CASE Fetch(c)
      BY <1>0, <1>a, <1>8 DEF Fetch, NewRecord, Active
<1>9. CASE Store(c)
  <2>0. fetched[c] \in Record /\ Changed(fetched[c], call[c]) = Promised(fetched[c], call[c])
        BY <1>9, ChangedIsPromised DEF Store
  <2>3. Changed(fetched[c], call[c]) \in Record
        BY <1>9, ChangedIsRecord DEF Store
  <2>1. CASE call[c].key = k
    <3>1. \A d \in Callers : d # c /\ call[d].key = k => command[d] \in {"idle", "done"}
          BY <1>c, <1>9, <2>1 DEF Store, Active
    <3>2. /\ command' = [command EXCEPT ![c] = "done"]
          /\ UNCHANGED <<index, call, fetched>>
          /\ records'[k] = Changed(fetched[c], call[c])
          /\ expected'[k] = IF expected[k] = Null THEN Null ELSE Promised(expected[k], call[c])
          BY <1>9, <2>1 DEF Store
    <3>3. Agrees(k) /\ fetched[c] = records[k]
          BY <1>0, <1>9, <2>1, <3>1 DEF Store
    <3>4. Agrees(k)'
          BY <2>0, <2>3, <3>2, <3>3, RecordAssumption
    <3> QED BY <3>1, <3>2, <3>4
  <2>2. CASE call[c].key # k
        BY <1>0, <1>9, <2>2 DEF Store, NewRecord
  <2> QED BY <2>1, <2>2
<1>10. CASE Unindex(c)
  <2>1. CASE call[c].key = k
        BY <1>0, <1>a, <1>10, <2>1 DEF Unindex, NewRecord, Active
  <2>2. CASE call[c].key # k
        BY <1>0, <1>10, <2>2 DEF Unindex, NewRecord
  <2> QED BY <2>1, <2>2
<1>11. CASE Erase(c)
  <2>1. CASE call[c].key = k
    <3>1. \A d \in Callers : d # c /\ call[d].key = k => command[d] \in {"idle", "done"}
          BY <1>c, <1>11, <2>1 DEF Erase, Active
    <3>2. /\ command' = [command EXCEPT ![c] = "done"]
          /\ UNCHANGED <<index, call, fetched>> /\ k \notin index
          /\ records'[k] = Null /\ expected'[k] = Null
          BY <1>0, <1>11, <2>1 DEF Erase
    <3> QED BY <3>1, <3>2
  <2>2. CASE call[c].key # k
        BY <1>0, <1>11, <2>2 DEF Erase, NewRecord
  <2> QED BY <2>1, <2>2
<1>12. CASE Fail(c)
      BY <1>0, <1>12 DEF Fail, NewRecord
<1> QED BY <1>1, <1>2, <1>3, <1>4, <1>5, <1>6, <1>7, <1>8, <1>9, <1>10,
          <1>11, <1>12 DEF Step

LEMMA SInvInductive == SInv /\ [RegistryNext]_registryVars => SInv'
<1> SUFFICES ASSUME SInv, [RegistryNext]_registryVars PROVE SInv'
    OBVIOUS
<1>0. IInv'
      BY Inductive DEF SInv
<1>1. CASE UNCHANGED registryVars
      BY <1>0, <1>1 DEF SInv, SerialInv, registryVars, store, Serial, Quiet, Agrees, Dead, NewRecord
<1>2. ASSUME NEW c \in Callers, Step(c), Observe PROVE SInv'
  <2>1. expected' = [k \in EntryKeys |-> expected'[k]]
    <3>1. CASE UNCHANGED expected
          BY <3>1 DEF SInv, SerialInv
    <3>2. CASE AddToIndex(c)
          BY <3>2 DEF SInv, SerialInv, AddToIndex
    <3>3. CASE Store(c)
          BY <3>3 DEF SInv, SerialInv, Store
    <3>4. CASE Erase(c)
          BY <3>4 DEF SInv, SerialInv, Erase
    <3> QED BY <1>2, <3>1, <3>2, <3>3, <3>4
            DEF Step, Begin, ReadIndex, ReadRecords, Heal, Check, WriteNew, Fetch,
                Unindex, Fail
  <2>2. \A k \in (EntryKeys \ (contended \cup broken))' : Serial(k)'
        BY <1>0, <1>2, SerialKept
  <2>3. \A d \in Callers : Dead(d)'
        BY <1>2, DeadKept
  <2> QED BY <1>0, <2>1, <2>2, <2>3 DEF SInv, SerialInv
<1> QED BY <1>1, <1>2 DEF RegistryNext

LEMMA InitSerial == RegistryInit => SInv
<1> SUFFICES ASSUME RegistryInit PROVE SInv
    OBVIOUS
<1>0. PICK n \in Names, p \in Names :
         records = [k \in EntryKeys |-> IF k \in index THEN Fresh(n, p) ELSE Null]
      BY DEF RegistryInit
<1> Fresh(n, p) \in Record
    BY DEF Fresh, Record
<1>1. IInv
      BY InitEstablishes
<1>2. \A k \in EntryKeys : Serial(k)
      BY <1>0, RecordAssumption DEF RegistryInit, Serial, Quiet, Agrees
<1>3. \A c \in Callers : Dead(c)
      BY DEF RegistryInit, Dead
<1>4. expected = [k \in EntryKeys |-> expected[k]]
      BY <1>0 DEF RegistryInit
<1> QED BY <1>1, <1>2, <1>3, <1>4 DEF SInv, SerialInv

\* For any number of calls: when all are over, a key no two of them met on and
\* none failed on half-way is what they make of it one after the other.
THEOREM LoneCallsAreSerial == RegistrySpec => []SequentialWhenAlone
<1>1. SInv => SequentialWhenAlone
  <2> SUFFICES ASSUME SInv, \A c \in Callers : ~Active(c), NEW k \in EntryKeys \ (contended \cup broken)
               PROVE  Agrees(k)
      BY DEF SequentialWhenAlone, Agrees
  <2>1. Quiet(k)
        BY DEF Quiet, Active
  <2> QED BY <2>1 DEF SInv, SerialInv, Serial
<1> QED BY InitSerial, SInvInductive, <1>1, PTL DEF RegistrySpec

\* What a step takes out of the index was dead, or is being deleted.
LEMMA StepDropsDead ==
    ASSUME SInv, NEW c \in Callers, Step(c), NEW k \in index \ index'
    PROVE  \/ records[k] = Null
           \/ \E d \in Callers : command[d] = "unindexing" /\ call[d].key = k
           \/ kind = "server" /\ k \in contended
<1>1. CASE UNCHANGED index \/ AddToIndex(c)
      BY <1>1 DEF AddToIndex
<1>2. CASE Heal(c)
      BY <1>2 DEF Heal, SInv, SerialInv, Dead
<1>3. CASE Unindex(c)
      BY <1>3 DEF Unindex
<1> QED BY <1>1, <1>2, <1>3
        DEF Step, store, Begin, ReadIndex, ReadRecords, Check, WriteNew, Fetch, Store,
            Erase, Fail

\* A list never drops a living entry of any registry but that of servers, and
\* there only one whose name calls overlapped on.
THEOREM ListsDropTheDead == RegistrySpec => DroppedWhenDead
<1>1. SInv /\ [RegistryNext]_registryVars =>
        [\A k \in index \ index' :
            \/ records[k] = Null
            \/ \E c \in Callers : command[c] = "unindexing" /\ call[c].key = k
            \/ kind = "server" /\ k \in contended]_registryVars
      BY StepDropsDead DEF RegistryNext
<1> QED BY InitSerial, SInvInductive, <1>1, PTL DEF RegistrySpec, DroppedWhenDead

-----------------------------------------------------------------------------
(***************************************************************************)
(* Projects: what the list of a creation saw is still true when its entry  *)
(* is listed, of every entry whose creation did not overlap with it.       *)
(***************************************************************************)
Apart(j, c, p, n) ==
    /\ records[j].place # p
    /\ records[j].name # n \/ UpdatedOnce(j)

\* An entry listed without overlapping c's creation was listed before it began:
\* the list of c saw it and compared with it.
Compared(c) ==
    call[c].op = "create" /\ Active(c) =>
        \A j \in index \ rivals[c] :
            /\ command[c] = "loading" => j \in missing[c]
            /\ command[c] \in {"healing", "writing", "indexing"} /\ after[c] = "writing"
                 => Apart(j, c, call[c].place, call[c].name)

\* A path never changes: what an update holds has the one of the record.
PlaceHeld(c) ==
    command[c] = "storing" =>
        LET k == call[c].key IN
        /\ records[k] # Null => fetched[c].place = records[k].place
        /\ \A d \in Callers : command[d] = "storing" /\ call[d].key = k
              => fetched[d].place = fetched[c].place

Distinct(j, k) ==
    j # k /\ ~Rivals(j, k) =>
        /\ records[j].place # records[k].place
        /\ \/ records[j].name # records[k].name
           \/ UpdatedOnce(j) \/ UpdatedOnce(k)

Creator(c) ==
    /\ command[c] = "idle" => call[c].op = "none"
    /\ command[c] # "checking" /\ call[c].op # "share"
    /\ command[c] = "indexing" => records[c] = NewRecord(c)
    /\ command[c] \in {"writing", "indexing"} => after[c] = "writing"
    /\ \A d \in Callers : c # d /\ Creating(c) /\ Creating(d) => d \in rivals[c]
    /\ \A d \in Callers : d \in rivals[c] => c \in rivals[d]

ProjectInv ==
    /\ rivals \in [Callers -> SUBSET Callers]
    /\ \A c \in Callers : Creator(c) /\ Compared(c) /\ PlaceHeld(c)
    /\ \A j, k \in index : Distinct(j, k)

PInv == SInv /\ (kind = "project" => ProjectInv)

\* A change of a project keeps its path, and only an update changes its name.
LEMMA ChangedProject ==
    ASSUME NEW r \in Record, NEW request, kind = "project",
           request.op \in {"update", "share"}
    PROVE  /\ Changed(r, request).place = r.place
           /\ request.op # "update" => Changed(r, request).name = r.name
<1>1. CASE request.op = "share"
  <2>1. Changed(r, request) = SharedCopy(r)
        BY <1>1 DEF Changed
  <2> QED BY <1>1, <2>1 DEF SharedCopy
<1>2. CASE request.op = "update"
  <2>1. Changed(r, request) = [r EXCEPT !.name = request.name]
        BY <1>2 DEF Changed
  <2> QED BY <1>2, <2>1 DEF Record
<1> QED BY <1>1, <1>2

\* What one call's step leaves alone of another call.
LEMMA OthersStay ==
    ASSUME IInv, Observe, NEW c \in Callers, Step(c), NEW d \in Callers, d # c
    PROVE  /\ command'[d] = command[d] /\ call'[d] = call[d] /\ fetched'[d] = fetched[d]
           /\ missing'[d] = missing[d] /\ after'[d] = after[d]
<1> USE DEF IInv, Typed, Reach
<1>1. CASE Begin(c)
      BY <1>1 DEF Begin
<1>2. CASE ReadIndex(c)
      BY <1>2 DEF ReadIndex
<1>3. CASE ReadRecords(c)
      BY <1>3 DEF ReadRecords
<1>4. CASE Heal(c)
      BY <1>4 DEF Heal
<1>5. CASE Check(c) \/ WriteNew(c) \/ AddToIndex(c) \/ Fetch(c) \/ Store(c)
           \/ Unindex(c) \/ Erase(c) \/ Fail(c)
      BY <1>5 DEF Check, WriteNew, AddToIndex, Fetch, Store, Unindex, Erase, Fail
<1> QED BY <1>1, <1>2, <1>3, <1>4, <1>5 DEF Step

\* A caller makes one call, so an entry that was updated stays so marked.
LEMMA UpdatedStays ==
    ASSUME PInv, kind = "project", Observe, NEW c \in Callers, Step(c), NEW k, UpdatedOnce(k)
    PROVE  UpdatedOnce(k)'
<1>1. PICK d \in Callers : call[d].op = "update" /\ call[d].key = k
      BY DEF UpdatedOnce
<1>2. CASE Begin(c)
  <2>1. d # c
        BY <1>1, <1>2 DEF Begin, PInv, ProjectInv, Creator
  <2> QED BY <1>1, <2>1, OthersStay DEF UpdatedOnce, PInv, SInv
<1>3. CASE UNCHANGED call
      BY <1>1, <1>3 DEF UpdatedOnce
<1> QED BY <1>2, <1>3 DEF Step, ReadIndex, ReadRecords, Heal, Check, WriteNew, AddToIndex,
                         Fetch, Store, Unindex, Erase, Fail

\* A listed project keeps its path for good, and its name until an update.
LEMMA ListedStays ==
    ASSUME PInv, kind = "project", Observe, NEW c \in Callers, Step(c), NEW k \in index
    PROVE  /\ records'[k].place = records[k].place
           /\ records'[k].name = records[k].name \/ UpdatedOnce(k)
<1> USE DEF PInv, SInv, IInv, Typed, Shape
<1>1. k \in EntryKeys /\ records[k] # Null /\ k \in known
      BY DEF EntriesHaveRecords
<1>2. CASE WriteNew(c)
  <2>1. call[c].key # k
        BY <1>1, <1>2 DEF WriteNew, Learnt, Active
  <2> QED BY <1>2, <2>1 DEF WriteNew
<1>3. CASE Store(c)
  <2>1. CASE call[c].key = k
    <3>1. records'[k] = Changed(fetched[c], call[c]) /\ fetched[c] \in Record
          BY <1>1, <1>3, <2>1 DEF Store
    <3>2. fetched[c].place = records[k].place
          BY <1>1, <1>3, <2>1 DEF Store, ProjectInv, PlaceHeld
    <3>3. call[c].op \in {"update", "share"}
          BY <1>3 DEF Store
    <3>4. UpdatedOnce(k) \/ call[c].op = "share"
          BY <3>3, <2>1 DEF UpdatedOnce
    <3>5. call[c].op # "share"
          BY DEF ProjectInv, Creator
    <3> QED BY <3>1, <3>2, <3>3, <3>4, <3>5, ChangedProject
  <2>2. CASE call[c].key # k
        BY <1>3, <2>2 DEF Store
  <2> QED BY <2>1, <2>2
<1>4. CASE Erase(c)
  <2>1. call[c].key # k
        BY <1>4 DEF Erase, Ordered, Clash
  <2> QED BY <1>4, <2>1 DEF Erase
<1>5. CASE UNCHANGED records
      BY <1>5
<1> QED BY <1>2, <1>3, <1>4, <1>5
        DEF Step, store, Begin, ReadIndex, ReadRecords, Heal, Check, AddToIndex, Fetch,
            Unindex, Fail

\* An entry comes into the index only when its own creation lists it.
LEMMA NewlyListed ==
    ASSUME PInv, kind = "project", Observe, NEW c \in Callers, Step(c), NEW j \in index' \ index
    PROVE  /\ AddToIndex(c) /\ j = c /\ Creating(c)
           /\ index' = index \cup {c} /\ after[c] = "writing"
           /\ records' = records /\ records[c] = NewRecord(c)
<1> USE DEF PInv, SInv, IInv, Typed, Shape, Learnt, Creating, Active
<1>1. AddToIndex(c)
      BY DEF Step, store, Begin, ReadIndex, ReadRecords, Heal, Check, WriteNew, Fetch, Store,
             Unindex, Erase, Fail
<1> QED BY <1>1 DEF AddToIndex, ProjectInv, Creator

LEMMA CreatorKept ==
    ASSUME PInv, kind = "project", Observe, NEW c \in Callers, Step(c), IInv'
    PROVE  /\ (rivals \in [Callers -> SUBSET Callers])'
           /\ \A d \in Callers : Creator(d)'
<1> USE DEF PInv, SInv, IInv, Typed, ProjectInv
<1>0. (rivals \in [Callers -> SUBSET Callers])'
      BY DEF Observe
<1>1. ASSUME NEW d \in Callers, NEW e \in Callers
      PROVE  /\ d # e /\ Creating(d)' /\ Creating(e)' => e \in rivals'[d]
             /\ e \in rivals'[d] => d \in rivals'[e]
      BY DEF Observe, Creator
<1>2. ASSUME NEW d \in Callers, d # c
      PROVE  /\ (command[d] = "idle" => call[d].op = "none")'
             /\ (command[d] # "checking" /\ call[d].op # "share")'
             /\ (command[d] = "indexing" => records[d] = NewRecord(d))'
             /\ (command[d] \in {"writing", "indexing"} => after[d] = "writing")'
  <2>1. /\ command'[d] = command[d] /\ call'[d] = call[d] /\ after'[d] = after[d]
        BY <1>2, OthersStay
  <2>2. command[d] = "indexing" => records'[d] = records[d]
    <3> SUFFICES ASSUME command[d] = "indexing" PROVE records'[d] = records[d]
        OBVIOUS
    <3>1. d \notin known
          BY DEF Shape, Learnt, Active
    <3>2. Active(c) /\ command[c] \notin {"listing", "loading", "healing"} => call[c].key # d
          BY <1>2, <3>1 DEF Shape, Learnt, Active, Creator
    <3> QED BY <3>2 DEF Step, store, Begin, ReadIndex, ReadRecords, Heal, Check, WriteNew,
                        AddToIndex, Fetch, Store, Unindex, Erase, Fail, Active
  <2> QED BY <2>1, <2>2 DEF Creator, NewRecord
<1>3. /\ (command[c] = "idle" => call[c].op = "none")'
      /\ (command[c] # "checking" /\ call[c].op # "share")'
      /\ (command[c] = "indexing" => records[c] = NewRecord(c))'
      /\ (command[c] \in {"writing", "indexing"} => after[c] = "writing")'
  <2> USE DEF Reach, Creator
  <2>1. CASE Begin(c)
    <3>1. PICK r \in Requests(c) :
            /\ call' = [call EXCEPT ![c] = r]
            /\ command' = [command EXCEPT ![c] = FirstStep(r.op)]
            /\ after' = [after EXCEPT ![c] = IF r.op = "create" THEN "writing" ELSE "done"]
          BY <2>1 DEF Begin
    <3>2. r.op # "share"
          BY DEF Requests, Creations, Offered, ProjectRoutes, NoCall
    <3>3. FirstStep(r.op) \in {"listing", "fetching", "unindexing"}
          BY <3>2, RequestShape DEF FirstStep, Plain
    <3> QED BY <3>1, <3>2, <3>3
  <2>2. CASE ReadIndex(c)
        BY <2>2 DEF ReadIndex
  <2>3. CASE ReadRecords(c)
        BY <2>3 DEF ReadRecords
  <2>4. CASE Heal(c)
        BY <2>4 DEF Heal
  <2>5. CASE WriteNew(c)
        BY <2>5 DEF WriteNew, NewRecord, Shape, Learnt
  <2>6. CASE Check(c) \/ AddToIndex(c) \/ Fetch(c) \/ Store(c) \/ Unindex(c) \/ Erase(c)
             \/ Fail(c)
        BY <2>6 DEF Check, AddToIndex, Fetch, Store, Unindex, Erase, Fail
  <2> QED BY <2>1, <2>2, <2>3, <2>4, <2>5, <2>6 DEF Step
<1> QED BY <1>0, <1>1, <1>2, <1>3 DEF Creator

\* A creation has compared itself with all that is listed and is no rival.
LEMMA ComparedKept ==
    ASSUME PInv, kind = "project", Observe, NEW c \in Callers, Step(c), NEW d \in Callers
    PROVE  Compared(d)'
<1> USE DEF PInv, SInv, IInv, Typed, ProjectInv
<1> SUFFICES ASSUME (call[d].op = "create" /\ Active(d))', NEW j \in (index \ rivals[d])'
             PROVE  /\ (command[d] = "loading" => j \in missing[d])'
                    /\ (command[d] \in {"healing", "writing", "indexing"} /\ after[d] = "writing"
                          => Apart(j, d, call[d].place, call[d].name))'
    BY DEF Compared
<1>0. j \notin rivals[d]
      BY DEF Observe
<1>1. ASSUME j \in index, NEW p, NEW n, Apart(j, d, p, n)
      PROVE  Apart(j, d, p, n)'
      BY <1>1, ListedStays, UpdatedStays DEF Apart
<1>2. CASE d # c
  <2>1. /\ command'[d] = command[d] /\ call'[d] = call[d]
        /\ missing'[d] = missing[d] /\ after'[d] = after[d]
        BY <1>2, OthersStay
  <2>2. Creating(d)
        BY <2>1 DEF Creating, Active
  <2>3. j \in index
        BY <1>0, <1>2, <2>2, NewlyListed DEF Creator
  <2> QED BY <1>0, <1>1, <2>1, <2>2, <2>3 DEF Compared, Creating, Apart
<1>3. CASE d = c
  <2> USE DEF Reach
  <2>1. CASE Begin(c)
    <3>1. PICK r \in Requests(c) : command' = [command EXCEPT ![c] = FirstStep(r.op)]
          BY <2>1 DEF Begin
    <3>2. FirstStep(r.op) \in {"listing", "fetching", "unindexing"}
          BY RequestShape DEF FirstStep, Plain
    <3> QED BY <1>3, <3>1, <3>2
  <2>2. CASE ReadIndex(c)
        BY <1>3, <2>2 DEF ReadIndex, store
  <2>3. CASE ReadRecords(c)
    <3>1. j \in index /\ j \in missing[c] /\ records[j] # Null
          BY <1>0, <1>3, <2>3 DEF ReadRecords, store, Compared, Active, EntriesHaveRecords
    <3>2. command'[c] # "loading"
          BY <2>3 DEF ReadRecords
    <3>3. after'[c] = "writing" => Apart(j, c, call[c].place, call[c].name)
          BY <2>3, <3>1 DEF ReadRecords, Taken, Apart
    <3> QED BY <1>1, <1>3, <2>3, <3>1, <3>2, <3>3 DEF ReadRecords
  <2>4. CASE Heal(c)
    <3>1. j \in index /\ command'[c] # "loading" /\ after'[c] = after[c] /\ call' = call
          BY <2>4 DEF Heal
    <3>2. after[c] = "writing" => Apart(j, c, call[c].place, call[c].name)
          BY <1>0, <1>3, <2>4, <3>1 DEF Heal, Compared, Active
    <3> QED BY <1>1, <1>3, <3>1, <3>2
  <2>5. CASE WriteNew(c)
    <3>1. j \in index /\ command'[c] # "loading" /\ after'[c] = after[c] /\ call' = call
          BY <2>5 DEF WriteNew
    <3>2. after[c] = "writing" => Apart(j, c, call[c].place, call[c].name)
          BY <1>0, <1>3, <2>5, <3>1 DEF WriteNew, Compared, Active
    <3> QED BY <1>1, <1>3, <3>1, <3>2
  <2>6. CASE Check(c) \/ AddToIndex(c) \/ Fetch(c) \/ Store(c) \/ Unindex(c) \/ Erase(c)
             \/ Fail(c)
        BY <1>3, <2>6 DEF Check, AddToIndex, Fetch, Store, Unindex, Erase, Fail, Creator,
                          Active, Shape
  <2> QED BY <2>1, <2>2, <2>3, <2>4, <2>5, <2>6 DEF Step
<1> QED BY <1>2, <1>3

\* Two updates that hold copies of one project hold the same path.
LEMMA PlaceKept ==
    ASSUME PInv, kind = "project", Observe, NEW c \in Callers, Step(c), NEW d \in Callers
    PROVE  PlaceHeld(d)'
<1> USE DEF PInv, SInv, IInv, Typed, ProjectInv
<1> SUFFICES ASSUME command'[d] = "storing"
             PROVE  /\ records'[call'[d].key] # Null
                          => fetched'[d].place = records'[call'[d].key].place
                    /\ \A e \in Callers : command'[e] = "storing" /\ call'[e].key = call'[d].key
                          => fetched'[e].place = fetched'[d].place
    BY DEF PlaceHeld
<1>1. CASE Fetch(c)
  <2> DEFINE k == call[c].key
  <2>1. /\ call' = call /\ records' = records /\ k \in EntryKeys
        /\ fetched' = [fetched EXCEPT ![c] = records[k]]
        /\ command'[c] = "storing" => records[k] # Null
        /\ \A e \in Callers : e # c => command'[e] = command[e] /\ fetched'[e] = fetched[e]
        BY <1>1, OthersStay DEF Fetch, Reach, Shape, store
  <2> QED BY <2>1 DEF PlaceHeld
<1>2. CASE ~Fetch(c)
  <2>0. command'[c] # "storing"
    <3>1. CASE Begin(c)
      <4>1. PICK r \in Requests(c) : command' = [command EXCEPT ![c] = FirstStep(r.op)]
            BY <3>1 DEF Begin, Reach
      <4> QED BY <4>1, RequestShape, FirstStepShape
    <3> QED BY <1>2, <3>1 DEF Step, Reach, ReadIndex, ReadRecords, Heal, Check, WriteNew,
                              AddToIndex, Store, Unindex, Erase, Fail
  <2>1. \A e \in Callers : command'[e] = "storing" =>
           command[e] = "storing" /\ call'[e] = call[e] /\ fetched'[e] = fetched[e] /\ call[e].key \in known
        BY <2>0, OthersStay DEF Learnt
  <2>2. d # c /\ call[d].key \in EntryKeys
        BY <2>0, <2>1 DEF Shape
  <2>3. \A e \in Callers : command'[e] = "storing" /\ call'[e].key = call'[d].key
           => fetched'[e].place = fetched'[d].place
        BY <2>1 DEF PlaceHeld
  <2>4. CASE WriteNew(c)
    <3>1. call[d].key # call[c].key
          BY <2>1, <2>4 DEF WriteNew, Learnt, Shape, Active
    <3> QED BY <2>1, <2>2, <2>3, <2>4, <3>1 DEF WriteNew, PlaceHeld
  <2>5. CASE Store(c) /\ call[c].key = call[d].key
    <3>1. records'[call[d].key] = Changed(fetched[c], call[c]) /\ fetched[c] \in Record
          BY <2>2, <2>5 DEF Store, Shape
    <3>2. fetched[c].place = fetched[d].place
          BY <2>1, <2>5 DEF Store, PlaceHeld
    <3> QED BY <2>1, <2>3, <2>5, <3>1, <3>2, ChangedProject DEF Store, Shape
  <2>6. CASE Store(c) /\ call[c].key # call[d].key
        BY <2>1, <2>2, <2>3, <2>6 DEF Store, PlaceHeld
  <2>7. CASE Erase(c)
        BY <2>1, <2>2, <2>3, <2>7 DEF Erase, PlaceHeld
  <2>8. CASE UNCHANGED records
        BY <2>1, <2>3, <2>8 DEF PlaceHeld
  <2> QED BY <1>2, <2>4, <2>5, <2>6, <2>7, <2>8
          DEF Step, store, Begin, ReadIndex, ReadRecords, Heal, Check, AddToIndex, Unindex, Fail
<1> QED BY <1>1, <1>2

\* The entry that is listed differs from all that did not overlap with it.
LEMMA DistinctKept ==
    ASSUME PInv, kind = "project", Observe, NEW c \in Callers, Step(c)
    PROVE  \A j, k \in index' : Distinct(j, k)'
<1> USE DEF PInv, ProjectInv
<1> SUFFICES ASSUME NEW j \in index', NEW k \in index', j # k, ~Rivals(j, k)'
             PROVE  /\ records'[j].place # records'[k].place
                    /\ \/ records'[j].name # records'[k].name
                       \/ UpdatedOnce(j)' \/ UpdatedOnce(k)'
    BY DEF Distinct
<1>0. ~Rivals(j, k) /\ ~Rivals(k, j)
  <2>1. ~Rivals(j, k)
        BY DEF Rivals, Observe
  <2> QED BY <2>1 DEF Rivals, Creator
<1>1. CASE j \in index /\ k \in index
      BY <1>0, <1>1, ListedStays, UpdatedStays DEF Distinct
<1>2. ASSUME NEW i \in index
      PROVE  (~Rivals(c, i) \/ ~Rivals(i, c)) /\ AddToIndex(c)
                => Apart(i, c, NewRecord(c).place, NewRecord(c).name)
  <2> SUFFICES ASSUME ~Rivals(c, i) \/ ~Rivals(i, c), AddToIndex(c)
               PROVE  Apart(i, c, NewRecord(c).place, NewRecord(c).name)
      OBVIOUS
  <2>1. i \notin rivals[c]
        BY DEF Rivals, Creator
  <2>2. call[c].op = "create" /\ Active(c) /\ after[c] = "writing"
        BY DEF AddToIndex, SInv, IInv, Shape, Active, Creator
  <2>3. Apart(i, c, call[c].place, call[c].name)
        BY <2>1, <2>2 DEF Compared, AddToIndex
  <2> QED BY <2>3 DEF NewRecord, Fresh
<1>3. CASE j \notin index
  <2>1. /\ AddToIndex(c) /\ j = c /\ k \in index
        /\ records' = records /\ records[j] = NewRecord(c)
        BY <1>3, NewlyListed
  <2>2. Apart(k, c, NewRecord(c).place, NewRecord(c).name)
        BY <1>0, <1>2, <2>1
  <2> QED BY <2>1, <2>2, UpdatedStays DEF Apart
<1>4. CASE k \notin index
  <2>1. /\ AddToIndex(c) /\ k = c /\ j \in index
        /\ records' = records /\ records[k] = NewRecord(c)
        BY <1>4, NewlyListed
  <2>2. Apart(j, c, NewRecord(c).place, NewRecord(c).name)
        BY <1>0, <1>2, <2>1
  <2> QED BY <2>1, <2>2, UpdatedStays DEF Apart
<1> QED BY <1>1, <1>3, <1>4

LEMMA PInvInductive == PInv /\ [RegistryNext]_registryVars => PInv'
<1> SUFFICES ASSUME PInv, [RegistryNext]_registryVars PROVE PInv'
    OBVIOUS
<1>0. SInv'
      BY SInvInductive DEF PInv
<1>1. CASE UNCHANGED registryVars
      BY <1>0, <1>1 DEF PInv, ProjectInv, registryVars, store, Creator, Compared, PlaceHeld, Distinct,
                        Apart, UpdatedOnce, Rivals, Creating, Active, NewRecord
<1>2. ASSUME NEW c \in Callers, Step(c), Observe PROVE PInv'
  <2>1. kind' = kind /\ IInv'
        BY <1>0, <1>2 DEF Observe, SInv
  <2>2. CASE kind = "project"
        BY <1>0, <1>2, <2>1, <2>2, CreatorKept, ComparedKept, PlaceKept, DistinctKept
        DEF PInv, ProjectInv
  <2>3. CASE kind # "project"
        BY <1>0, <2>1, <2>3 DEF PInv
  <2> QED BY <2>2, <2>3
<1> QED BY <1>1, <1>2 DEF RegistryNext

LEMMA InitProjects == RegistryInit => PInv
<1> SUFFICES ASSUME RegistryInit, kind = "project" PROVE ProjectInv
    BY InitSerial DEF PInv
<1>1. \A j, k \in index : j = k
      BY DEF RegistryInit
<1> QED BY <1>1 DEF RegistryInit, ProjectInv, Creator, Compared, PlaceHeld, Distinct, Creating,
                    Active, NoCall

\* For any number of calls: two listed projects whose creations did not overlap
\* have different paths, and different names until one is updated.
THEOREM ListedProjectsDiffer == RegistrySpec => []ProjectsDiffer
<1>1. PInv => ProjectsDiffer
      BY DEF PInv, ProjectInv, Distinct, ProjectsDiffer
<1> QED BY InitProjects, PInvInductive, <1>1, PTL DEF RegistrySpec
=============================================================================
