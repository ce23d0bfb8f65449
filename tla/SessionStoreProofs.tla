------------------------- MODULE SessionStoreProofs -------------------------
(***************************************************************************)
(* Facts about SessionStore, for every number of concurrent calls: what    *)
(* the session lock does buy update_session as long as nothing else        *)
(* touches the session, and what the order of its two writes buys readers  *)
(* whatever else runs.                                                     *)
(***************************************************************************)
EXTENDS SessionStore, TLAPS

\* Which methods take which steps.
StepsOfMethods ==
    \A w \in Workers :
        /\ pc[w] \in GetSteps => op[w] \in {"get", "increment", "promote", "tags"}
        /\ pc[w] \in {"readMeta", "writeMeta"} => op[w] \in Fields
        /\ pc[w] \in {"lock", "write"} => op[w] = "increment"
        /\ pc[w] = "insert" => op[w] = "create"
        /\ pc[w] \in {"lookup", "lookupRow", "unindex", "drop", "dropRow"}
              => op[w] = "delete"

\* A method that goes on after get_session carries a session.
CarriesSession ==
    \A w \in Workers :
        pc[w] \in {"fill", "fillIndex", "write", "readMeta", "writeMeta", "set", "index"}
            => carried[w] \in Present

TypeInv == StoreTypeOK /\ StepsOfMethods /\ CarriesSession

LEMMA AbsentIsTyped ==
    /\ Absent \in Sessions /\ Absent \notin Present
    /\ NewRow \in Present
  BY DEF Absent, NewRow, Present, Sessions

\* Every program step lands on a step of the method that takes it.
LEMMA StepKeepsMethod ==
    ASSUME TypeInv, [StoreNext]_storeVars
    PROVE  /\ op' = op
           /\ pc' \in [Workers -> Steps]
           /\ outcome' \in [Workers -> Outcomes]
           /\ StepsOfMethods'
<1> USE DEF TypeInv, StoreTypeOK, StepsOfMethods, Steps, GetSteps, Outcomes, Goto,
            Answer, At, Fields
<1> DEFINE Good == /\ op' = op
                   /\ pc' \in [Workers -> Steps]
                   /\ outcome' \in [Workers -> Outcomes]
                   /\ StepsOfMethods'
<1>1. ASSUME NEW w \in Workers, Begin(w) PROVE Good
  <2>1. op[w] \in AllOps
    BY StoreAssumption
  <2> QED
    BY <1>1, <2>1 DEF Begin, FirstStep, AllOps
<1>2. ASSUME NEW w \in Workers, InsertRow(w) PROVE Good
  BY <1>2 DEF InsertRow
<1>3. ASSUME NEW w \in Workers, ReadCache(w) PROVE Good
  BY <1>3 DEF ReadCache, GotSession, AfterGet
<1>4. ASSUME NEW w \in Workers, FetchRow(w) PROVE Good
  BY <1>4 DEF FetchRow
<1>5. ASSUME NEW w \in Workers, FillCache(w) \/ CacheResult(w) PROVE Good
  BY <1>5 DEF FillCache, CacheResult
<1>6. ASSUME NEW w \in Workers, FillIndex(w) \/ IndexResult(w) PROVE Good
  <2>1. CASE FillIndex(w)
    BY <2>1 DEF FillIndex, GotSession, AfterGet
  <2>2. CASE IndexResult(w)
    BY <2>2 DEF IndexResult
  <2> QED
    BY <1>6, <2>1, <2>2
<1>7. ASSUME NEW w \in Workers, LockSession(w) \/ LockTimesOut(w) \/ Unlock(w)
      PROVE  Good
  BY <1>7 DEF LockSession, LockTimesOut, Unlock
<1>8. ASSUME NEW w \in Workers, WriteRow(w) PROVE Good
  BY <1>8 DEF WriteRow
<1>9. ASSUME NEW w \in Workers, ReadMetadata(w) \/ WriteMetadata(w) PROVE Good
  BY <1>9 DEF ReadMetadata, WriteMetadata
<1>10. ASSUME NEW w \in Workers,
              FindOwner(w) \/ FindOwnerInRow(w) \/ RemoveFromIndex(w)
       PROVE  Good
  BY <1>10 DEF FindOwner, FindOwnerInRow, RemoveFromIndex
<1>11. ASSUME NEW w \in Workers, DropEntry(w) \/ DropRow(w) PROVE Good
  BY <1>11 DEF DropEntry, DropRow
<1>12. ASSUME NEW w \in Workers, CreateCacheFails(w) \/ Abort(w) \/ LockLapses(w)
       PROVE  Good
  BY <1>12 DEF CreateCacheFails, Abort, LockLapses
<1>13. CASE EntryExpires \/ IndexExpires \/ UNCHANGED storeVars
  BY <1>13 DEF EntryExpires, IndexExpires, storeVars
<1> QED
  BY <1>1, <1>2, <1>3, <1>4, <1>5, <1>6, <1>7, <1>8, <1>9, <1>10, <1>11, <1>12,
     <1>13 DEF StoreNext, Step

\* The session with its next turn, and with another metadata field.
LEMMA NextVersions ==
    /\ \A s \in Present : [s EXCEPT !.turns = @ + 1] \in Present
    /\ \A s, t \in Present : [s EXCEPT !.turns = t.turns] \in Present
    /\ \A s \in Present, t \in Sessions : [s EXCEPT !.meta = t.meta] \in Present
    /\ \A s, t \in Present, f \in Fields :
          [s EXCEPT !.meta = t.meta \cup {f}] \in Present
  BY DEF Present, Sessions, Absent

\* What a step stores is a session, an absent one, or a set of workers.
LEMMA StepKeepsTypes ==
    ASSUME TypeInv, [StoreNext]_storeVars
    PROVE  /\ row' \in Sessions /\ cached' \in Sessions
           /\ carried' \in [Workers -> Sessions]
           /\ indexed' \in BOOLEAN
           /\ inside' \in SUBSET Workers /\ lapsed' \in SUBSET Workers
           /\ committed' \in Nat
           /\ CarriesSession'
<1> USE AbsentIsTyped
    DEF TypeInv, StoreTypeOK, CarriesSession, Carry, Goto, Answer, At, dataVars,
        lockVars, Sessions
<1> DEFINE Good == /\ row' \in Sessions /\ cached' \in Sessions
                   /\ carried' \in [Workers -> Sessions]
                   /\ indexed' \in BOOLEAN
                   /\ inside' \in SUBSET Workers /\ lapsed' \in SUBSET Workers
                   /\ committed' \in Nat
                   /\ CarriesSession'
<1>1. ASSUME NEW w \in Workers, Begin(w) PROVE Good
  <2>1. op[w] \in AllOps
    BY StoreAssumption
  <2>2. FirstStep[op[w]] \in {"insert", "read", "lock", "lookup"}
    BY <2>1 DEF FirstStep, AllOps
  <2> QED
    BY <1>1, <2>2 DEF Begin
<1>2. ASSUME NEW w \in Workers, InsertRow(w) PROVE Good
  BY <1>2 DEF InsertRow
<1>3. ASSUME NEW w \in Workers, ReadCache(w) PROVE Good
  BY <1>3 DEF ReadCache, GotSession
<1>4. ASSUME NEW w \in Workers, FetchRow(w) PROVE Good
  BY <1>4 DEF FetchRow
<1>5. ASSUME NEW w \in Workers, FillCache(w) \/ CacheResult(w) PROVE Good
  BY <1>5 DEF FillCache, CacheResult, SetEntry
<1>6. ASSUME NEW w \in Workers, FillIndex(w) PROVE Good
  BY <1>6 DEF FillIndex, AddToIndex, GotSession
<1>7. ASSUME NEW w \in Workers, IndexResult(w) PROVE Good
  BY <1>7 DEF IndexResult, AddToIndex
<1>8. ASSUME NEW w \in Workers, LockSession(w) \/ LockTimesOut(w) \/ Unlock(w)
      PROVE  Good
  BY <1>8 DEF LockSession, LockTimesOut, Unlock, Lock!Enter, Lock!Exit
<1>9. ASSUME NEW w \in Workers, WriteRow(w) PROVE Good
  <2> DEFINE u == [carried[w] EXCEPT !.turns = @ + 1]
  <2>1. u \in Present
    BY <1>9, NextVersions DEF WriteRow
  <2>2. row # Absent => [row EXCEPT !.turns = u.turns] \in Present
    BY <2>1, NextVersions
  <2>3. /\ carried' = [carried EXCEPT ![w] = u]
        /\ \/ row' = [row EXCEPT !.turns = u.turns] /\ row # Absent
              /\ committed' = committed + 1
           \/ UNCHANGED <<row, committed>>
        /\ pc' = [pc EXCEPT ![w] = "set"]
        /\ UNCHANGED <<cached, indexed, inside, lapsed>>
    BY <1>9 DEF WriteRow
  <2> HIDE DEF u
  <2> QED
    BY <2>1, <2>2, <2>3
<1>10. ASSUME NEW w \in Workers, ReadMetadata(w) PROVE Good
  <2> DEFINE u == [carried[w] EXCEPT !.meta = row.meta]
  <2>1. u \in Present
    BY <1>10, NextVersions DEF ReadMetadata
  <2>2. carried' = [carried EXCEPT ![w] = u]
    BY <1>10 DEF ReadMetadata
  <2> HIDE DEF u
  <2> QED
    BY <1>10, <2>1, <2>2 DEF ReadMetadata
<1>11. ASSUME NEW w \in Workers, WriteMetadata(w) PROVE Good
  <2> DEFINE u == [row EXCEPT !.meta = carried[w].meta \cup {op[w]}]
  <2>1. op[w] \in Fields /\ carried[w] \in Present
    BY <1>11 DEF WriteMetadata, StepsOfMethods
  <2>2. row # Absent => u \in Present
    BY <2>1, NextVersions
  <2>3. CASE row # Absent
    <3>1. row' = u /\ carried' = [carried EXCEPT ![w] = u]
      BY <1>11, <2>3 DEF WriteMetadata
    <3> HIDE DEF u
    <3> QED
      BY <1>11, <2>2, <2>3, <3>1 DEF WriteMetadata
  <2>4. CASE row = Absent
    BY <1>11, <2>4 DEF WriteMetadata
  <2> QED
    BY <2>3, <2>4
<1>12. ASSUME NEW w \in Workers,
              FindOwner(w) \/ FindOwnerInRow(w) \/ RemoveFromIndex(w)
       PROVE  Good
  BY <1>12 DEF FindOwner, FindOwnerInRow, RemoveFromIndex
<1>13. ASSUME NEW w \in Workers, DropEntry(w) \/ DropRow(w) PROVE Good
  BY <1>13 DEF DropEntry, DropRow
<1>14. ASSUME NEW w \in Workers, CreateCacheFails(w) \/ Abort(w) \/ LockLapses(w)
       PROVE  Good
  BY <1>14 DEF CreateCacheFails, Abort, LockLapses, Lock!Exit, Lock!Lapse
<1>15. CASE EntryExpires \/ IndexExpires
  BY <1>15 DEF EntryExpires, IndexExpires
<1>16. CASE UNCHANGED storeVars
  BY <1>16 DEF storeVars
<1> QED
  BY <1>1, <1>2, <1>3, <1>4, <1>5, <1>6, <1>7, <1>8, <1>9, <1>10, <1>11, <1>12,
     <1>13, <1>14, <1>15, <1>16 DEF StoreNext, Step

\* A call never changes its method, nor the environment its faults.
LEMMA OpsStay ==
    ASSUME [StoreNext]_storeVars
    PROVE  op' = op /\ faults' = faults
<1>0. faults' = faults
  BY DEF StoreNext, storeVars
<1>1. ASSUME NEW w \in Workers, Step(w) PROVE op' = op
  BY <1>1
     DEF Step, Begin, InsertRow, ReadCache, FetchRow, FillCache, FillIndex, CacheResult,
         IndexResult, LockSession, LockTimesOut, WriteRow, Unlock, ReadMetadata,
         WriteMetadata, FindOwner, FindOwnerInRow, RemoveFromIndex, DropEntry, DropRow,
         GotSession, Goto, Answer
<1>2. ASSUME NEW w \in Workers, CreateCacheFails(w) \/ Abort(w) \/ LockLapses(w)
      PROVE  op' = op
  BY <1>2 DEF CreateCacheFails, Abort, LockLapses, Answer
<1>3. ASSUME EntryExpires \/ IndexExpires \/ UNCHANGED storeVars
      PROVE  op' = op
  BY <1>3 DEF EntryExpires, IndexExpires, storeVars
<1> QED
  BY <1>0, <1>1, <1>2, <1>3 DEF StoreNext

\* The type invariant of SessionStore, for all methods and faults.
THEOREM StoreTypeCorrect == SafeStore => []TypeInv
<1>1. StoreInit => TypeInv
  <2> SUFFICES ASSUME StoreInit PROVE TypeInv
    OBVIOUS
  <2>1. row \in Sessions /\ cached \in Sessions /\ carried \in [Workers -> Sessions]
    BY AbsentIsTyped DEF StoreInit, Sessions
  <2>2. indexed \in BOOLEAN
    BY Zenon DEF StoreInit
  <2>3. /\ inside \in SUBSET Workers /\ lapsed \in SUBSET Workers
        /\ pc \in [Workers -> Steps] /\ outcome \in [Workers -> Outcomes]
        /\ op \in [Workers -> Ops] /\ committed \in Nat /\ faults \in Faults
    BY DEF StoreInit, Lock!Init, Steps, Outcomes
  <2>4. StepsOfMethods /\ CarriesSession
    BY DEF StoreInit, StepsOfMethods, CarriesSession, GetSteps
  <2> QED
    BY <2>1, <2>2, <2>3, <2>4 DEF TypeInv, StoreTypeOK
<1>2. TypeInv /\ [StoreNext]_storeVars => TypeInv'
  BY StepKeepsMethod, StepKeepsTypes, OpsStay DEF TypeInv, StoreTypeOK
<1> QED
  BY <1>1, <1>2, PTL DEF SafeStore

----------------------------------------------------------------------------
(* Readers are never ahead of the database *)

\* Without delete_session a row never goes away, so what a method has read of
\* the session is still there when it writes.
RowBehindReads ==
    /\ cached # Absent => row # Absent
    /\ \A w \in Workers : pc[w] \in {"fill", "fillIndex", "write", "set", "index"}
                              => row # Absent

\* No copy of the session, in Redis or in a method, runs ahead of the UPDATEs.
CopiesBehind ==
    /\ row.turns <= committed
    /\ cached.turns <= committed
    /\ \A w \in Workers : carried[w].turns <= committed

\* The only step that loses a row is delete_session's.
LEMMA RowStays ==
    ASSUME TypeInv, NobodyDeletes, row # Absent, [StoreNext]_storeVars
    PROVE  row' # Absent
<1> USE DEF TypeInv, StoreTypeOK
<1>1. ASSUME NEW w \in Workers, WriteRow(w) PROVE row' \in Present
  <2> DEFINE u == [carried[w] EXCEPT !.turns = @ + 1]
  <2>1. u \in Present
    BY <1>1, NextVersions DEF WriteRow, CarriesSession, At
  <2>2. [row EXCEPT !.turns = u.turns] \in Present
    BY <2>1, NextVersions DEF Sessions
  <2> QED
    BY <1>1, <2>2 DEF WriteRow
<1>2. ASSUME NEW w \in Workers, WriteMetadata(w) PROVE row' \in Present
  <2>1. [row EXCEPT !.meta = carried[w].meta \cup {op[w]}] \in Present
    BY <1>2, NextVersions
       DEF WriteMetadata, StepsOfMethods, CarriesSession, At, Sessions
  <2> QED
    BY <1>2, <2>1 DEF WriteMetadata
<1>3. ASSUME NEW w \in Workers, DropRow(w) PROVE FALSE
  BY <1>3 DEF DropRow, StepsOfMethods, At, NobodyDeletes
<1> QED
  BY <1>1, <1>2, <1>3, AbsentIsTyped
     DEF StoreNext, Step, Begin, InsertRow, ReadCache, FetchRow, FillCache, FillIndex,
         CacheResult, IndexResult, LockSession, LockTimesOut, Unlock, ReadMetadata,
         FindOwner, FindOwnerInRow, RemoveFromIndex, DropEntry, CreateCacheFails,
         Abort, LockLapses, EntryExpires, IndexExpires, storeVars, dataVars

LEMMA RowBehindReadsStep ==
    ASSUME TypeInv, NobodyDeletes, RowBehindReads, [StoreNext]_storeVars
    PROVE  RowBehindReads'
<1> USE DEF TypeInv, StoreTypeOK, RowBehindReads, Goto, Answer, At, dataVars, Carry
<1>0. row # Absent => row' # Absent
  BY RowStays
<1>1. ASSUME NEW w \in Workers, Begin(w) PROVE RowBehindReads'
  <2>1. op[w] \in AllOps
    BY StoreAssumption
  <2>2. FirstStep[op[w]] \in {"insert", "read", "lock", "lookup"}
    BY <2>1 DEF FirstStep, AllOps
  <2> QED
    BY <1>1, <2>2 DEF Begin
<1>2. ASSUME NEW w \in Workers, InsertRow(w) PROVE RowBehindReads'
  BY <1>2, AbsentIsTyped DEF InsertRow
<1>3. ASSUME NEW w \in Workers, ReadCache(w) PROVE RowBehindReads'
  BY <1>3 DEF ReadCache, GotSession
<1>4. ASSUME NEW w \in Workers, FetchRow(w) PROVE RowBehindReads'
  BY <1>4 DEF FetchRow
<1>5. ASSUME NEW w \in Workers, FillCache(w) \/ CacheResult(w) PROVE RowBehindReads'
  BY <1>5 DEF FillCache, CacheResult, SetEntry
<1>6. ASSUME NEW w \in Workers, FillIndex(w) PROVE RowBehindReads'
  BY <1>6 DEF FillIndex, AddToIndex, GotSession
<1>7. ASSUME NEW w \in Workers, IndexResult(w) PROVE RowBehindReads'
  BY <1>7 DEF IndexResult, AddToIndex
<1>8. ASSUME NEW w \in Workers, LockSession(w) \/ LockTimesOut(w) \/ Unlock(w)
      PROVE  RowBehindReads'
  BY <1>8 DEF LockSession, LockTimesOut, Unlock
<1>9. ASSUME NEW w \in Workers, WriteRow(w) PROVE RowBehindReads'
  <2>1. row' # Absent
    BY <1>0, <1>9 DEF WriteRow
  <2> QED
    BY <1>9, <2>1 DEF WriteRow
<1>10. ASSUME NEW w \in Workers, ReadMetadata(w) PROVE RowBehindReads'
  BY <1>10 DEF ReadMetadata
<1>11. ASSUME NEW w \in Workers, WriteMetadata(w) PROVE RowBehindReads'
  BY <1>0, <1>11 DEF WriteMetadata
<1>12. ASSUME NEW w \in Workers,
              FindOwner(w) \/ FindOwnerInRow(w) \/ RemoveFromIndex(w)
                \/ DropEntry(w) \/ DropRow(w)
       PROVE  RowBehindReads'
  BY <1>12 DEF FindOwner, FindOwnerInRow, RemoveFromIndex, DropEntry, DropRow,
               StepsOfMethods, NobodyDeletes
<1>13. ASSUME NEW w \in Workers, CreateCacheFails(w) \/ Abort(w) \/ LockLapses(w)
       PROVE  RowBehindReads'
  BY <1>13 DEF CreateCacheFails, Abort, LockLapses
<1>14. CASE EntryExpires \/ IndexExpires \/ UNCHANGED storeVars
  BY <1>14 DEF EntryExpires, IndexExpires, storeVars
<1> QED
  BY <1>1, <1>2, <1>3, <1>4, <1>5, <1>6, <1>7, <1>8, <1>9, <1>10, <1>11, <1>12,
     <1>13, <1>14 DEF StoreNext, Step

\* A copy gains a turn only in WriteRow, which commits that turn.
LEMMA CopiesBehindStep ==
    ASSUME TypeInv, TypeInv', RowBehindReads, CopiesBehind, [StoreNext]_storeVars
    PROVE  CopiesBehind'
<1> USE DEF TypeInv, StoreTypeOK, CopiesBehind, At, dataVars, Carry
<1>0. Absent.turns <= committed /\ NewRow.turns <= committed
  BY DEF Absent, NewRow
<1>1. ASSUME NEW w \in Workers, InsertRow(w) PROVE CopiesBehind'
  BY <1>0, <1>1 DEF InsertRow
<1>2. ASSUME NEW w \in Workers, ReadCache(w) \/ FetchRow(w) PROVE CopiesBehind'
  BY <1>2 DEF ReadCache, FetchRow
<1>3. ASSUME NEW w \in Workers, FillCache(w) \/ CacheResult(w) PROVE CopiesBehind'
  BY <1>3 DEF FillCache, CacheResult, SetEntry
<1>4. ASSUME NEW w \in Workers, FillIndex(w) \/ IndexResult(w) PROVE CopiesBehind'
  BY <1>4 DEF FillIndex, IndexResult, AddToIndex
<1>5. ASSUME NEW w \in Workers, WriteRow(w) PROVE CopiesBehind'
  <2> DEFINE u == [carried[w] EXCEPT !.turns = @ + 1]
  <2>1. carried[w] \in Present /\ row \in Present
    BY <1>5 DEF WriteRow, CarriesSession, RowBehindReads, Sessions
  <2>2. u.turns = carried[w].turns + 1 /\ u.turns \in Nat
    BY <2>1 DEF Present
  <2>3. [row EXCEPT !.turns = u.turns].turns = u.turns
    BY <2>1 DEF Present
  <2>4. /\ carried' = [carried EXCEPT ![w] = u]
        /\ row' = [row EXCEPT !.turns = u.turns]
        /\ committed' = committed + 1
        /\ cached' = cached
    BY <1>5, <2>1, AbsentIsTyped DEF WriteRow
  <2>5. /\ \A v \in Workers : carried[v].turns \in Int
        /\ cached.turns \in Int
    BY DEF Sessions, Present, Absent
  <2> HIDE DEF u
  <2>6. row'.turns <= committed'
    BY <2>1, <2>2, <2>3, <2>4 DEF Present
  <2>7. cached'.turns <= committed'
    BY <2>4, <2>5
  <2>8. ASSUME NEW v \in Workers PROVE carried'[v].turns <= committed'
    BY <2>1, <2>2, <2>4, <2>5 DEF Present
  <2> QED
    BY <2>6, <2>7, <2>8
<1>6. ASSUME NEW w \in Workers, ReadMetadata(w) PROVE CopiesBehind'
  <2>1. [carried[w] EXCEPT !.meta = row.meta].turns = carried[w].turns
    BY <1>6 DEF ReadMetadata, CarriesSession, Present
  <2> QED
    BY <1>6, <2>1 DEF ReadMetadata
<1>7. ASSUME NEW w \in Workers, WriteMetadata(w) PROVE CopiesBehind'
  <2> DEFINE u == [row EXCEPT !.meta = carried[w].meta \cup {op[w]}]
  <2>1. row # Absent => u.turns = row.turns
    BY DEF Sessions, Present
  <2>2. CASE row # Absent
    <3>1. row' = u /\ carried' = [carried EXCEPT ![w] = u]
      BY <1>7, <2>2 DEF WriteMetadata
    <3> HIDE DEF u
    <3> QED
      BY <1>7, <2>1, <2>2, <3>1 DEF WriteMetadata
  <2>3. CASE row = Absent
    BY <1>7, <2>3 DEF WriteMetadata
  <2> QED
    BY <2>2, <2>3
<1>8. ASSUME NEW w \in Workers, DropEntry(w) \/ DropRow(w) PROVE CopiesBehind'
  BY <1>0, <1>8 DEF DropEntry, DropRow
<1>9. CASE EntryExpires \/ IndexExpires
  BY <1>0, <1>9 DEF EntryExpires, IndexExpires
<1> QED
  BY <1>1, <1>2, <1>3, <1>4, <1>5, <1>6, <1>7, <1>8, <1>9
     DEF StoreNext, Step, Begin, LockSession, LockTimesOut, Unlock, FindOwner,
         FindOwnerInRow, RemoveFromIndex, CreateCacheFails, Abort, LockLapses,
         storeVars

\* With any number of concurrent creates, reads, updates, promotes and tag
\* changes, and whatever expires, lapses or dies, the cache never shows a turn
\* that the database has not committed.
THEOREM CacheNeverAhead == SafeStore => []CacheShowsCommitted
<1> DEFINE Inv == NobodyDeletes => RowBehindReads /\ CopiesBehind
<1>1. StoreInit => Inv
  <2> SUFFICES ASSUME StoreInit PROVE RowBehindReads /\ CopiesBehind
    OBVIOUS
  <2>1. Absent.turns <= 0 /\ NewRow.turns <= 0
    BY DEF Absent, NewRow
  <2>2. RowBehindReads
    BY DEF StoreInit, RowBehindReads
  <2>3. CopiesBehind
    BY <2>1 DEF StoreInit, CopiesBehind
  <2> QED
    BY <2>2, <2>3
<1>2. TypeInv /\ TypeInv' /\ Inv /\ [StoreNext]_storeVars => Inv'
  <2> SUFFICES ASSUME TypeInv, TypeInv', Inv, [StoreNext]_storeVars, NobodyDeletes'
               PROVE  RowBehindReads' /\ CopiesBehind'
    OBVIOUS
  <2>1. NobodyDeletes
    BY OpsStay DEF NobodyDeletes
  <2> QED
    BY <2>1, RowBehindReadsStep, CopiesBehindStep
<1>3. Inv => CacheShowsCommitted
  BY DEF CopiesBehind, CacheShowsCommitted
<1> HIDE DEF Inv
<1> QED
  BY <1>1, <1>2, <1>3, StoreTypeCorrect, PTL DEF SafeStore

----------------------------------------------------------------------------
(* What is written into the metadata stays *)

\* promote_session or update_tags has written its field.
Wrote(w) == op[w] \in Fields /\ (pc[w] \in {"set", "index"} \/ outcome[w] = "ok")
FieldInv == \A w \in Workers : Wrote(w) /\ NoOtherField(w) => op[w] \in row.meta

\* No statement on the row takes a field away that only its writers write.
LEMMA FieldKept ==
    ASSUME TypeInv, [StoreNext]_storeVars, NEW w \in Workers,
           op[w] \in Fields, NoOtherField(w), op[w] \in row.meta
    PROVE  op[w] \in row'.meta
<1> USE DEF TypeInv, StoreTypeOK, At, dataVars
<1>0. row \in Present
  BY DEF Sessions, Absent
<1>1. ASSUME NEW v \in Workers, InsertRow(v) PROVE op[w] \in row'.meta
  BY <1>1, <1>0, AbsentIsTyped DEF InsertRow
<1>2. ASSUME NEW v \in Workers, WriteRow(v) PROVE op[w] \in row'.meta
  <2> DEFINE u == [carried[v] EXCEPT !.turns = @ + 1]
  <2>1. row' = [row EXCEPT !.turns = u.turns]
    BY <1>2, <1>0, AbsentIsTyped DEF WriteRow
  <2> HIDE DEF u
  <2> QED
    BY <2>1, <1>0 DEF Present
<1>3. ASSUME NEW v \in Workers, WriteMetadata(v) PROVE op[w] \in row'.meta
  <2>1. op[v] = op[w]
    BY <1>3 DEF WriteMetadata, StepsOfMethods, NoOtherField
  <2>2. row' = [row EXCEPT !.meta = carried[v].meta \cup {op[v]}]
    BY <1>3, <1>0, AbsentIsTyped DEF WriteMetadata
  <2> QED
    BY <2>1, <2>2, <1>0 DEF Present
<1>4. ASSUME NEW v \in Workers, DropRow(v) PROVE FALSE
  BY <1>4 DEF DropRow, StepsOfMethods, NoOtherField
<1> QED
  BY <1>1, <1>2, <1>3, <1>4
     DEF StoreNext, Step, Begin, ReadCache, FetchRow, FillCache, FillIndex,
         CacheResult, IndexResult, LockSession, LockTimesOut, Unlock, ReadMetadata,
         FindOwner, FindOwnerInRow, RemoveFromIndex, DropEntry, CreateCacheFails,
         Abort, LockLapses, EntryExpires, IndexExpires, storeVars

\* The only way to have written a field is the UPDATE that writes it.
LEMMA FieldWritten ==
    ASSUME TypeInv, [StoreNext]_storeVars, NEW w \in Workers, Wrote(w)', ~Wrote(w)
    PROVE  op[w] \in Fields /\ op[w] \in row'.meta
<1> USE DEF TypeInv, StoreTypeOK, StepsOfMethods, Wrote, Fields, Goto, Answer, At
<1>0. op' = op
  BY OpsStay
<1>1. ASSUME NEW v \in Workers, Begin(v) PROVE FALSE
  <2>1. op[v] \in AllOps
    BY StoreAssumption
  <2> QED
    BY <1>0, <1>1, <2>1 DEF Begin, FirstStep, AllOps
<1>2. ASSUME NEW v \in Workers, WriteMetadata(v)
      PROVE  op[w] \in Fields /\ op[w] \in row'.meta
  <2>1. v = w
    BY <1>0, <1>2 DEF WriteMetadata
  <2>2. row # Absent /\ row' = [row EXCEPT !.meta = carried[w].meta \cup {op[w]}]
    BY <1>0, <1>2, <2>1 DEF WriteMetadata
  <2>3. op[w] \in Fields
    BY <1>0
  <2>4. row \in Present
    BY <2>2 DEF Sessions
  <2> QED
    BY <2>2, <2>3, <2>4 DEF Present
<1>3. ASSUME NEW v \in Workers, InsertRow(v) \/ ReadCache(v) \/ FetchRow(v)
      PROVE  FALSE
  <2>1. CASE InsertRow(v)
    <3>1. op[v] = "create"
      BY <2>1 DEF InsertRow
    <3> QED
      BY <1>0, <2>1, <3>1 DEF InsertRow
  <2>2. CASE ReadCache(v) \/ FetchRow(v)
    BY <1>0, <2>2 DEF ReadCache, FetchRow, GotSession, AfterGet, GetSteps
  <2> QED
    BY <1>3, <2>1, <2>2
<1>4. ASSUME NEW v \in Workers, FillCache(v) \/ FillIndex(v) PROVE FALSE
  BY <1>0, <1>4 DEF FillCache, FillIndex, GotSession, AfterGet, GetSteps
<1>5. ASSUME NEW v \in Workers, CacheResult(v) \/ IndexResult(v) PROVE FALSE
  BY <1>0, <1>5 DEF CacheResult, IndexResult
<1>6. ASSUME NEW v \in Workers,
             LockSession(v) \/ LockTimesOut(v) \/ WriteRow(v) \/ Unlock(v)
                \/ ReadMetadata(v)
      PROVE  FALSE
  BY <1>0, <1>6 DEF LockSession, LockTimesOut, WriteRow, Unlock, ReadMetadata
<1>7. ASSUME NEW v \in Workers,
             FindOwner(v) \/ FindOwnerInRow(v) \/ RemoveFromIndex(v)
                \/ DropEntry(v) \/ DropRow(v)
      PROVE  FALSE
  BY <1>0, <1>7 DEF FindOwner, FindOwnerInRow, RemoveFromIndex, DropEntry, DropRow
<1>8. ASSUME NEW v \in Workers, CreateCacheFails(v) \/ Abort(v) \/ LockLapses(v)
      PROVE  FALSE
  BY <1>0, <1>8 DEF CreateCacheFails, Abort, LockLapses
<1>9. CASE EntryExpires \/ IndexExpires \/ UNCHANGED storeVars
  BY <1>9 DEF EntryExpires, IndexExpires, storeVars
<1> QED
  BY <1>1, <1>2, <1>3, <1>4, <1>5, <1>6, <1>7, <1>8, <1>9 DEF StoreNext, Step

\* For any number of concurrent calls and whatever expires, lapses or dies, a
\* field that promote_session or update_tags wrote and answered is in the row
\* as long as nobody writes the other field or deletes the session.
THEOREM WrittenFieldsStay == SafeStore => []FieldsStay
<1>1. StoreInit => FieldInv
  BY DEF StoreInit, FieldInv, Wrote
<1>2. TypeInv /\ FieldInv /\ [StoreNext]_storeVars => FieldInv'
  <2> SUFFICES ASSUME TypeInv, FieldInv, [StoreNext]_storeVars,
                      NEW w \in Workers, Wrote(w)', NoOtherField(w)'
               PROVE  op'[w] \in row'.meta
    BY DEF FieldInv
  <2>1. op' = op /\ NoOtherField(w)
    BY OpsStay DEF NoOtherField
  <2>2. CASE Wrote(w)
    BY <2>1, <2>2, FieldKept DEF FieldInv, Wrote
  <2>3. CASE ~Wrote(w)
    BY <2>1, <2>3, FieldWritten
  <2> QED
    BY <2>2, <2>3
<1>3. FieldInv => FieldsStay
  BY DEF FieldInv, FieldsStay, Wrote
<1> QED
  BY <1>1, <1>2, <1>3, StoreTypeCorrect, PTL DEF SafeStore

----------------------------------------------------------------------------
(* What the lock gives update_session when nothing else touches the session *)

LockedSteps == {"read", "fetch", "fill", "fillIndex", "write", "set", "index", "unlock"}

\* One call at a time is between reading the session and leaving the lock.
OneInside ==
    /\ lapsed = {}
    /\ \A v, w \in inside : v = w
    /\ \A w \in Workers : pc[w] \in LockedSteps <=> w \in inside
    /\ \A w \in Workers : pc[w] \in LockedSteps \cup {"start", "lock", "done"}

\* The row counts the increments, and every copy in use equals the row.
CopiesExact ==
    /\ row # Absent => row.turns = committed
    /\ \A w \in Workers :
          pc[w] \in {"fill", "fillIndex", "write", "set"} => carried[w] = row
    /\ cached # Absent /\ (\A w \in Workers : pc[w] # "set") => cached = row

\* The steps an update can take while nothing fails but the TTL of the cache.
LEMMA UpdateSteps ==
    ASSUME TypeInv, UpdatesOnly, OnlyExpiry,
           OneInside, [StoreNext]_storeVars
    PROVE  \/ \E w \in Workers :
                 \/ Begin(w)
                 \/ ReadCache(w) \/ FetchRow(w) \/ FillCache(w) \/ FillIndex(w)
                 \/ CacheResult(w) \/ IndexResult(w)
                 \/ LockSession(w) \/ LockTimesOut(w) \/ WriteRow(w) \/ Unlock(w)
           \/ EntryExpires \/ IndexExpires \/ UNCHANGED storeVars
<1>1. "lapse" \notin faults /\ "abort" \notin faults
  BY DEF OnlyExpiry
<1>2. ASSUME NEW w \in Workers
      PROVE  pc[w] \in LockedSteps \cup {"start", "lock", "done"}
  BY DEF OneInside
<1>3. ASSUME NEW w \in Workers, InsertRow(w) \/ ReadMetadata(w) \/ WriteMetadata(w)
      PROVE  FALSE
  BY <1>2, <1>3 DEF LockedSteps, At, InsertRow, ReadMetadata, WriteMetadata
<1>4. ASSUME NEW w \in Workers, FindOwner(w) \/ FindOwnerInRow(w) \/ RemoveFromIndex(w)
      PROVE  FALSE
  BY <1>2, <1>4 DEF LockedSteps, At, FindOwner, FindOwnerInRow, RemoveFromIndex
<1>5. ASSUME NEW w \in Workers, DropEntry(w) \/ DropRow(w)
      PROVE  FALSE
  BY <1>2, <1>5 DEF LockedSteps, At, DropEntry, DropRow
<1>6. ASSUME NEW w \in Workers, CreateCacheFails(w) \/ Abort(w) \/ LockLapses(w)
      PROVE  FALSE
  BY <1>1, <1>6 DEF CreateCacheFails, Abort, LockLapses
<1> QED
  BY <1>3, <1>4, <1>5, <1>6 DEF StoreNext, Step

LEMMA OneInsideStep ==
    ASSUME TypeInv, UpdatesOnly, OnlyExpiry,
           OneInside, [StoreNext]_storeVars
    PROVE  OneInside'
<1> USE DEF TypeInv, StoreTypeOK, OneInside, LockedSteps, Goto, Answer, At, lockVars
<1>0. \A w \in Workers : op[w] = "increment"
  BY DEF UpdatesOnly
<1>1. ASSUME NEW w \in Workers, Begin(w) PROVE OneInside'
  <2>1. FirstStep[op[w]] = "lock"
    BY <1>0 DEF FirstStep
  <2> QED
    BY <1>1, <2>1 DEF Begin
<1>2. ASSUME NEW w \in Workers, ReadCache(w) PROVE OneInside'
  BY <1>0, <1>2 DEF ReadCache, GotSession, AfterGet
<1>3. ASSUME NEW w \in Workers, FetchRow(w) PROVE OneInside'
  BY <1>3 DEF FetchRow
<1>4. ASSUME NEW w \in Workers, FillCache(w) \/ CacheResult(w) PROVE OneInside'
  BY <1>4 DEF FillCache, CacheResult
<1>5. ASSUME NEW w \in Workers, FillIndex(w) PROVE OneInside'
  BY <1>0, <1>5 DEF FillIndex, GotSession, AfterGet
<1>6. ASSUME NEW w \in Workers, IndexResult(w) PROVE OneInside'
  BY <1>6 DEF IndexResult
<1>7. ASSUME NEW w \in Workers, LockSession(w) PROVE OneInside'
  <2>1. inside = {} /\ inside' = {w} /\ lapsed' = lapsed
    BY <1>7 DEF LockSession, Lock!Enter
  <2> QED
    BY <1>7, <2>1 DEF LockSession
<1>8. ASSUME NEW w \in Workers, LockTimesOut(w) PROVE OneInside'
  BY <1>8 DEF LockTimesOut
<1>9. ASSUME NEW w \in Workers, WriteRow(w) PROVE OneInside'
  BY <1>9 DEF WriteRow
<1>10. ASSUME NEW w \in Workers, Unlock(w) PROVE OneInside'
  BY <1>10 DEF Unlock, Lock!Exit
<1>11. CASE EntryExpires \/ IndexExpires \/ UNCHANGED storeVars
  BY <1>11 DEF EntryExpires, IndexExpires, storeVars
<1> QED
  BY <1>1, <1>2, <1>3, <1>4, <1>5, <1>6, <1>7, <1>8, <1>9, <1>10, <1>11, UpdateSteps

LEMMA CopiesExactStep ==
    ASSUME TypeInv, UpdatesOnly, OnlyExpiry,
           OneInside, CopiesExact, [StoreNext]_storeVars
    PROVE  CopiesExact'
<1> USE DEF TypeInv, StoreTypeOK, CopiesExact, Goto, Answer, At, dataVars, Carry
<1>0. /\ \A w \in Workers : op[w] = "increment"
      /\ \A v, w \in Workers :
            pc[v] \in LockedSteps /\ pc[w] \in LockedSteps => v = w
  BY DEF OneInside, UpdatesOnly
<1> USE DEF LockedSteps
<1>1. ASSUME NEW w \in Workers, Begin(w) PROVE CopiesExact'
  <2>1. FirstStep[op[w]] = "lock"
    BY <1>0 DEF FirstStep
  <2> QED
    BY <1>1, <2>1 DEF Begin
<1>2. ASSUME NEW w \in Workers, ReadCache(w) PROVE CopiesExact'
  <2>1. \A v \in Workers : pc[v] # "set"
    BY <1>0, <1>2 DEF ReadCache
  <2> QED
    BY <1>0, <1>2, <2>1 DEF ReadCache, GotSession, AfterGet
<1>3. ASSUME NEW w \in Workers, FetchRow(w) PROVE CopiesExact'
  BY <1>3 DEF FetchRow
<1>4. ASSUME NEW w \in Workers, FillCache(w) PROVE CopiesExact'
  BY <1>4 DEF FillCache, SetEntry
<1>5. ASSUME NEW w \in Workers, FillIndex(w) PROVE CopiesExact'
  BY <1>0, <1>5 DEF FillIndex, AddToIndex, GotSession, AfterGet
<1>6. ASSUME NEW w \in Workers, CacheResult(w) PROVE CopiesExact'
  BY <1>6 DEF CacheResult, SetEntry
<1>7. ASSUME NEW w \in Workers, IndexResult(w) PROVE CopiesExact'
  BY <1>7 DEF IndexResult, AddToIndex
<1>8. ASSUME NEW w \in Workers, LockSession(w) \/ LockTimesOut(w) \/ Unlock(w)
      PROVE  CopiesExact'
  BY <1>8 DEF LockSession, LockTimesOut, Unlock
<1>9. ASSUME NEW w \in Workers, WriteRow(w) PROVE CopiesExact'
  <2> DEFINE u == [carried[w] EXCEPT !.turns = @ + 1]
  <2>1. carried[w] \in Present /\ row = carried[w] /\ row.turns = committed
    BY <1>9, AbsentIsTyped DEF WriteRow, CarriesSession
  <2>2. [row EXCEPT !.turns = u.turns] = u /\ u.turns = committed + 1
    BY <2>1 DEF Present
  <2>3. /\ carried' = [carried EXCEPT ![w] = u]
        /\ row' = u
        /\ committed' = committed + 1
        /\ pc' = [pc EXCEPT ![w] = "set"]
    BY <1>9, <2>1, <2>2, AbsentIsTyped DEF WriteRow
  <2> HIDE DEF u
  <2> QED
    BY <1>0, <1>9, <2>2, <2>3 DEF WriteRow
<1>10. CASE EntryExpires \/ IndexExpires \/ UNCHANGED storeVars
  BY <1>10 DEF EntryExpires, IndexExpires, storeVars
<1> QED
  BY <1>1, <1>2, <1>3, <1>4, <1>5, <1>6, <1>7, <1>8, <1>9, <1>10, UpdateSteps

\* As long as updates alone touch the session, no lock outlives its lease and
\* no call dies half-way, every increment counts, whenever the cache expires.
THEOREM LockedIncrementsCount == SafeStore => []UpdatesCount
<1> DEFINE Inv == UpdatesOnly /\ OnlyExpiry => OneInside /\ CopiesExact
<1>1. StoreInit => Inv
  <2> SUFFICES ASSUME StoreInit PROVE OneInside /\ CopiesExact
    OBVIOUS
  <2>1. OneInside
    BY DEF StoreInit, OneInside, LockedSteps, Lock!Init
  <2>2. (row = Absent \/ row = NewRow) /\ (cached # Absent => cached = row)
    <3>1. PICK c \in {<<Absent, Absent>>, <<NewRow, Absent>>, <<NewRow, NewRow>>} :
             row = c[1] /\ cached = c[2]
      BY Zenon DEF StoreInit
    <3> QED
      BY <3>1
  <2>3. NewRow.turns = 0
    BY DEF NewRow
  <2>4. CopiesExact
    BY <2>2, <2>3 DEF StoreInit, CopiesExact
  <2> QED
    BY <2>1, <2>4
<1>2. TypeInv /\ Inv /\ [StoreNext]_storeVars => Inv'
  <2> SUFFICES ASSUME TypeInv, Inv, [StoreNext]_storeVars, UpdatesOnly', OnlyExpiry'
               PROVE  OneInside' /\ CopiesExact'
    OBVIOUS
  <2>1. UpdatesOnly /\ OnlyExpiry
    BY OpsStay DEF UpdatesOnly, OnlyExpiry
  <2> QED
    BY <2>1, OneInsideStep, CopiesExactStep
<1>3. Inv => UpdatesCount
  BY DEF CopiesExact, UpdatesCount, IncrementsCount
<1> HIDE DEF Inv
<1> QED
  BY <1>1, <1>2, <1>3, StoreTypeCorrect, PTL DEF SafeStore
=============================================================================
