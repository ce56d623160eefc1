------------------------ MODULE TenantRegistryProofs ------------------------
(* Proofs, for any number of connections, tenants and collections and any
   capacity, of the safety properties of TenantRegistry and of its refinement
   of TenantService.

   The inductive invariant adds to the properties what ties an AppState to the
   map: whoever holds the mutex across an await holds it to remove a victim
   that stays unused (VictimUnused); an AppState in the map was built for the
   tenant it is filed under by a connection that finished its acquire
   (StatesFiled); one that is not there yet is empty (FreshIsEmpty); one being
   evicted is out of the map for good and has no cursor (EvictedIsOut).      *)
EXTENDS TenantRegistry, FiniteSetTheorems, TLAPS

\* the connections whose acquire returned a guard
Acquired == {"serving", "releasing", "done"}

HolderRemoves == \A w \in Conns : holder = w <=> pc[w] = "remove"

VictimUnused ==
  \A w \in Conns : pc[w] = "remove" =>
    /\ victim[w] \in DOMAIN inner
    /\ inner[victim[w]].active = 0
    /\ cursors[inner[victim[w]].state] = 0

StatesFiled ==
  \A d \in DOMAIN inner : db[inner[d].state] = d /\ pc[inner[d].state] \in Acquired

FreshIsEmpty ==
  \A s \in Conns :
    /\ pc[s] \notin Acquired => handles[s] = {} /\ cursors[s] = 0
    /\ pc[s] = "insert" => held[s] = s

EvictedIsOut ==
  \A w \in Conns : pc[w] \in {"clear", "close"} =>
    /\ held[w] \in Conns
    /\ pc[held[w]] \in Acquired
    /\ cursors[held[w]] = 0
    /\ \A d \in DOMAIN inner : inner[d].state # held[w]

FiledNotFenced ==
  \A d \in DOMAIN inner : \A c \in handles[inner[d].state] : writer[d][c] = inner[d].state

Filing == HolderRemoves /\ VictimUnused /\ StatesFiled /\ FreshIsEmpty /\ EvictedIsOut /\ FiledNotFenced

IInv == TypeOK /\ ActiveCountsUsers /\ GuardStateIsCurrent /\ Filing

-----------------------------------------------------------------------------
(* Who uses a tenant is a finite set: counting it is adding and removing one. *)
LEMMA UsersFinite == \A d : IsFiniteSet(Users(d))
  BY ConnsAssumption, FS_Subset DEF Users

\* The tenants nobody uses are those whose count is zero.
LEMMA NoUsersNoCount ==
  ASSUME TypeOK, ActiveCountsUsers, NEW d \in DOMAIN inner
  PROVE  inner[d].active = 0 <=> Users(d) = {}
<1>1. inner[d].active = Cardinality(Users(d))
  BY DEF ActiveCountsUsers, TypeOK
<1> QED BY <1>1, UsersFinite, FS_EmptySet

\* A connection that is served uses its tenant.
LEMMA ServedUses ==
  ASSUME TypeOK, ActiveCountsUsers, GuardStateIsCurrent, NEW w \in Conns, pc[w] = "serving"
  PROVE  /\ db[w] \in DOMAIN inner
         /\ inner[db[w]].active # 0
         /\ held[w] = inner[db[w]].state
<1>1. db[w] \in DOMAIN inner /\ held[w] = inner[db[w]].state
  BY DEF GuardStateIsCurrent
<1>2. w \in Users(db[w])
  BY DEF Users
<1> QED BY <1>1, <1>2, NoUsersNoCount

\* Two tenants never share an AppState.
LEMMA StatesApart ==
  ASSUME StatesFiled, NEW d \in DOMAIN inner, NEW k \in DOMAIN inner, inner[d].state = inner[k].state
  PROVE  d = k
  BY DEF StatesFiled

-----------------------------------------------------------------------------
(* Type correctness.                                                         *)
LEMMA TypeInit == Init => TypeOK
  BY BoundsAssumption DEF Init, TypeOK, Entry

LEMMA TypeSetEntry ==
  ASSUME TypeOK, NEW d \in DbIds, NEW e \in [state : Conns, active : Nat], SetEntry(d, e)
  PROVE  DOMAIN inner' \subseteq DbIds /\ inner' \in [DOMAIN inner' -> [state : Conns, active : Nat]]
  BY DEF TypeOK, SetEntry

LEMMA TypeTouch ==
  ASSUME TypeOK, NEW d \in DbIds, Touch(d)
  PROVE  usedBefore' \subseteq DbIds \X DbIds
  BY DEF TypeOK, Touch

LEMMA TypeStep == TypeOK /\ FreshIsEmpty /\ EvictedIsOut /\ VictimUnused /\ GuardStateIsCurrent /\ [Next]_vars => TypeOK'
<1> SUFFICES ASSUME TypeOK, FreshIsEmpty, EvictedIsOut, VictimUnused, GuardStateIsCurrent, [Next]_vars
             PROVE  TypeOK'
  OBVIOUS
<1>1. ASSUME NEW w \in Conns, Evict(w) PROVE TypeOK'
  <2>1. CASE EvictNotNeeded(w) BY <2>1 DEF EvictNotNeeded, TypeOK, At, Goto
  <2>2. CASE EvictPick(w) BY <2>2 DEF EvictPick, TypeOK, At, Goto, Idle
  <2>3. CASE VictimLost(w) BY <2>3 DEF VictimLost, TypeOK, At, Goto
  <2>4. CASE VictimConfirmed(w) BY <2>4 DEF VictimConfirmed, TypeOK, At, Goto
  <2>5. CASE VictimRemoved(w) BY <2>5 DEF VictimRemoved, VictimUnused, RemoveEntry, TypeOK, At, Goto
  <2>6. CASE VictimCleared(w) BY <2>6 DEF VictimCleared, EvictedIsOut, TypeOK, At, Goto
  <2>7. ASSUME NEW c \in Colls, CloseHandle(w, c) PROVE TypeOK' BY <2>7 DEF CloseHandle, TypeOK
  <2>8. ASSUME NEW c \in Colls, CloseFails(w, c) PROVE TypeOK' BY <2>8 DEF CloseFails, TypeOK, At, Goto
  <2>9. CASE VictimClosed(w) BY <2>9 DEF VictimClosed, TypeOK, At, Goto
  <2> QED BY <1>1, <2>1, <2>2, <2>3, <2>4, <2>5, <2>6, <2>7, <2>8, <2>9 DEF Evict
<1>2. ASSUME NEW w \in Conns, Acquire(w) PROVE TypeOK'
  <2> db[w] \in DbIds BY DEF TypeOK
  <2>1. CASE AcquireWarm(w) \/ AcquireRaced(w)
    <3>1. /\ db[w] \in DOMAIN inner
          /\ SetEntry(db[w], Entry(inner[db[w]].state, inner[db[w]].active + 1))
          /\ Touch(db[w])
      BY <2>1 DEF AcquireWarm, AcquireRaced, JoinEntry
    <3>2. inner[db[w]].state \in Conns /\ inner[db[w]].active \in Nat
      BY <3>1 DEF TypeOK
    <3>3. Entry(inner[db[w]].state, inner[db[w]].active + 1) \in [state : Conns, active : Nat]
      BY <3>2 DEF Entry
    <3>4. /\ DOMAIN inner' \subseteq DbIds
          /\ inner' \in [DOMAIN inner' -> [state : Conns, active : Nat]]
          /\ usedBefore' \subseteq DbIds \X DbIds
      BY <3>1, <3>3, TypeSetEntry, TypeTouch
    <3> QED BY <2>1, <3>2, <3>4 DEF AcquireWarm, AcquireRaced, JoinEntry, TypeOK, At, Goto
  <2>2. CASE AcquireCold(w) BY <2>2 DEF AcquireCold, TypeOK, At, Goto
  <2>3. CASE OpenTenant(w) BY <2>3 DEF OpenTenant, TypeOK, At, Goto
  <2>4. CASE OpenFails(w) BY <2>4 DEF OpenFails, TypeOK, At, Goto
  <2>5. CASE AcquireInsert(w)
    <3>1. Entry(held[w], 1) \in [state : Conns, active : Nat]
      BY <2>5 DEF AcquireInsert, FreshIsEmpty, At, Entry
    <3>2. /\ DOMAIN inner' \subseteq DbIds
          /\ inner' \in [DOMAIN inner' -> [state : Conns, active : Nat]]
          /\ usedBefore' \subseteq DbIds \X DbIds
      BY <2>5, <3>1, TypeSetEntry, TypeTouch DEF AcquireInsert
    <3> QED BY <2>5, <3>2 DEF AcquireInsert, TypeOK, At, Goto
  <2> QED BY <1>2, <2>1, <2>2, <2>3, <2>4, <2>5 DEF Acquire
<1>3. ASSUME NEW w \in Conns, Work(w) PROVE TypeOK'
  <2>1. pc[w] = "serving" BY <1>3 DEF Work, OpenCollection, RegisterCursor, EndCursor, Disconnect, At
  <2>2. held[w] \in Conns BY <2>1 DEF GuardStateIsCurrent, TypeOK
  <2>3. ASSUME NEW c \in Colls, OpenCollection(w, c) PROVE TypeOK'
    BY <2>2, <2>3 DEF OpenCollection, TypeOK, locals
  <2>4. CASE RegisterCursor(w) BY <2>2, <2>4 DEF RegisterCursor, TypeOK, locals
  <2>5. CASE EndCursor(w) BY <2>2, <2>5 DEF EndCursor, TypeOK, locals
  <2>6. CASE Disconnect(w) BY <2>6 DEF Disconnect, TypeOK, Goto
  <2> QED BY <1>3, <2>3, <2>4, <2>5, <2>6 DEF Work
<1>4. ASSUME NEW w \in Conns, Release(w) PROVE TypeOK'
  <2> db[w] \in DbIds BY DEF TypeOK
  <2>1. CASE db[w] \in DOMAIN inner
    <3>1. inner[db[w]].state \in Conns /\ Minus1(inner[db[w]].active) \in Nat
      BY <2>1 DEF TypeOK, Minus1
    <3>2. Entry(inner[db[w]].state, Minus1(inner[db[w]].active)) \in [state : Conns, active : Nat]
      BY <3>1 DEF Entry
    <3>3. /\ DOMAIN inner' \subseteq DbIds
          /\ inner' \in [DOMAIN inner' -> [state : Conns, active : Nat]]
          /\ usedBefore' \subseteq DbIds \X DbIds
      BY <1>4, <2>1, <3>2, TypeSetEntry, TypeTouch DEF Release
    <3> QED BY <1>4, <3>3 DEF Release, TypeOK, Goto
  <2>2. CASE db[w] \notin DOMAIN inner
    BY <1>4, <2>2 DEF Release, TypeOK, Goto
  <2> QED BY <2>1, <2>2
<1>5. CASE UNCHANGED vars \/ Quiet
  BY <1>5 DEF vars, locals, TypeOK, Quiet
<1> QED BY <1>1, <1>2, <1>3, <1>4, <1>5 DEF Next

-----------------------------------------------------------------------------
(* Counting.                                                                 *)
Using == {"serving", "releasing"}

LEMMA UsersSame ==
  ASSUME db' = db, \A w \in Conns : pc'[w] \in Using <=> pc[w] \in Using
  PROVE  \A d \in DbIds : Users(d)' = Users(d)
  BY DEF Users, Using

LEMMA UserJoins ==
  ASSUME TypeOK, NEW w \in Conns, db' = db, pc[w] \notin Using, pc' = [pc EXCEPT ![w] = "serving"]
  PROVE  /\ Cardinality(Users(db[w]))' = Cardinality(Users(db[w])) + 1
         /\ \A d \in DbIds : d # db[w] => Users(d)' = Users(d)
<1>1. Users(db[w])' = Users(db[w]) \cup {w} /\ w \notin Users(db[w])
  BY DEF Users, Using, TypeOK
<1>2. \A d \in DbIds : d # db[w] => Users(d)' = Users(d)
  BY DEF Users, Using, TypeOK
<1>3. IsFiniteSet(Users(db[w]))
  BY UsersFinite
<1> QED BY <1>1, <1>2, <1>3, FS_AddElement

LEMMA UserLeaves ==
  ASSUME TypeOK, NEW w \in Conns, db' = db, pc[w] \in Using, pc' = [pc EXCEPT ![w] = "done"]
  PROVE  /\ Cardinality(Users(db[w]))' = Cardinality(Users(db[w])) - 1
         /\ \A d \in DbIds : d # db[w] => Users(d)' = Users(d)
<1>1. Users(db[w])' = Users(db[w]) \ {w} /\ w \in Users(db[w])
  BY DEF Users, Using, TypeOK
<1>2. \A d \in DbIds : d # db[w] => Users(d)' = Users(d)
  BY DEF Users, Using, TypeOK
<1>3. IsFiniteSet(Users(db[w]))
  BY UsersFinite
<1> QED BY <1>1, <1>2, <1>3, FS_RemoveElement

-----------------------------------------------------------------------------
(* A step of one task that touches neither the map nor any AppState.         *)
LocalStep(w) ==
  /\ UNCHANGED <<db, inner, holder, handles, cursors, writer>>
  /\ \A u \in Conns \ {w} : pc'[u] = pc[u] /\ held'[u] = held[u] /\ victim'[u] = victim[u]
  /\ pc[w] \notin Acquired \cup {"remove"}
  /\ pc'[w] \notin Acquired \cup {"remove", "clear"}
  /\ pc'[w] = "insert" => held'[w] = w
  /\ pc'[w] = "close" => pc[w] = "close" /\ held'[w] = held[w]

Safe == ActiveCountsUsers /\ GuardStateIsCurrent /\ Filing

LEMMA LocalStepKeeps ==
  ASSUME IInv, NEW w \in Conns, LocalStep(w)
  PROVE  Safe'
<1>1. \A u \in Conns : pc'[u] \in Using <=> pc[u] \in Using
  BY DEF LocalStep, Using, Acquired
<1>2. ActiveCountsUsers'
  BY <1>1, UsersSame DEF IInv, LocalStep, ActiveCountsUsers
<1>3. GuardStateIsCurrent'
  BY DEF IInv, LocalStep, GuardStateIsCurrent, Acquired
<1>4. HolderRemoves' /\ VictimUnused'
  BY DEF IInv, Filing, LocalStep, HolderRemoves, VictimUnused
<1>5. StatesFiled'
  BY DEF IInv, TypeOK, Filing, LocalStep, StatesFiled, Acquired
<1>6. FreshIsEmpty'
  BY DEF IInv, Filing, LocalStep, FreshIsEmpty, Acquired
<1>7. EvictedIsOut'
  BY DEF IInv, Filing, LocalStep, EvictedIsOut, Acquired
<1>8. FiledNotFenced'
  BY DEF IInv, Filing, LocalStep, FiledNotFenced
<1> QED BY <1>2, <1>3, <1>4, <1>5, <1>6, <1>7, <1>8 DEF Safe, Filing

LEMMA LocalSteps ==
  ASSUME TypeOK, FreshIsEmpty, NEW w \in Conns,
         \/ EvictNotNeeded(w) \/ EvictPick(w) \/ VictimLost(w) \/ VictimClosed(w)
         \/ \E c \in Colls : CloseHandle(w, c) \/ CloseFails(w, c)
         \/ AcquireCold(w) \/ OpenTenant(w) \/ OpenFails(w)
  PROVE  LocalStep(w)
<1> USE DEF LocalStep, TypeOK, Acquired, At, Goto
<1>1. CASE EvictNotNeeded(w) BY <1>1 DEF EvictNotNeeded
<1>2. CASE EvictPick(w) BY <1>2 DEF EvictPick
<1>3. CASE VictimLost(w) BY <1>3 DEF VictimLost
<1>4. CASE VictimClosed(w) BY <1>4 DEF VictimClosed
<1>5. ASSUME NEW c \in Colls, CloseHandle(w, c) PROVE LocalStep(w) BY <1>5 DEF CloseHandle
<1>6. ASSUME NEW c \in Colls, CloseFails(w, c) PROVE LocalStep(w) BY <1>6 DEF CloseFails
<1>7. CASE AcquireCold(w) BY <1>7 DEF AcquireCold
<1>8. CASE OpenTenant(w) BY <1>8 DEF OpenTenant
<1>9. CASE OpenFails(w) BY <1>9 DEF OpenFails
<1> QED BY <1>1, <1>2, <1>3, <1>4, <1>5, <1>6, <1>7, <1>8, <1>9

-----------------------------------------------------------------------------
(* The steps of an eviction that touch the map or the victim's AppState.     *)
LEMMA VictimConfirmedKeeps ==
  ASSUME IInv, NEW w \in Conns, VictimConfirmed(w)
  PROVE  Safe'
<1> USE DEF VictimConfirmed, At, Goto, IInv, Filing, TypeOK
<1>1. ActiveCountsUsers'
  BY UsersSame DEF Using, ActiveCountsUsers
<1>2. GuardStateIsCurrent'
  BY DEF GuardStateIsCurrent
<1>3. HolderRemoves'
  BY ConnsAssumption DEF HolderRemoves, Unlocked
<1>4. VictimUnused'
  BY DEF VictimUnused, Evictable
<1>5. StatesFiled'
  BY DEF StatesFiled, Acquired
<1>6. FreshIsEmpty' /\ EvictedIsOut'
  BY DEF FreshIsEmpty, EvictedIsOut, Acquired
<1>7. FiledNotFenced'
  BY DEF FiledNotFenced
<1> QED BY <1>1, <1>2, <1>3, <1>4, <1>5, <1>6, <1>7 DEF Safe

LEMMA VictimRemovedKeeps ==
  ASSUME IInv, NEW w \in Conns, VictimRemoved(w)
  PROVE  Safe'
<1> DEFINE v == victim[w]
<1>1. /\ v \in DOMAIN inner /\ inner[v].active = 0 /\ cursors[inner[v].state] = 0
      /\ Users(v) = {}
  BY NoUsersNoCount DEF VictimRemoved, At, IInv, Filing, VictimUnused
<1>2. /\ DOMAIN inner' = DOMAIN inner \ {v}
      /\ \A d \in DOMAIN inner' : inner'[d] = inner[d]
  BY DEF VictimRemoved, RemoveEntry
<1> USE DEF VictimRemoved, At, Goto, IInv, Filing, TypeOK
<1>3. ActiveCountsUsers'
  <2>1. \A d \in DbIds : Users(d)' = Users(d)
    BY UsersSame DEF Using
  <2> QED BY <1>1, <1>2, <2>1 DEF ActiveCountsUsers
<1>4. GuardStateIsCurrent'
  <2>1. \A u \in Conns : pc[u] = "serving" => db[u] # v
    BY <1>1 DEF Users
  <2> QED BY <1>2, <2>1 DEF GuardStateIsCurrent
<1>5. HolderRemoves'
  BY ConnsAssumption DEF HolderRemoves
<1>6. VictimUnused'
  BY DEF VictimUnused, HolderRemoves
<1>7. StatesFiled'
  BY <1>2 DEF StatesFiled, Acquired
<1>8. FreshIsEmpty'
  BY DEF FreshIsEmpty, Acquired
<1>9. EvictedIsOut'
  <2>1. inner[v].state \in Conns /\ pc[inner[v].state] \in Acquired
    BY <1>1 DEF StatesFiled
  <2>2. \A d \in DOMAIN inner' : inner'[d].state # inner[v].state
    BY <1>1, <1>2, StatesApart
  <2> QED BY <1>1, <1>2, <2>1, <2>2 DEF EvictedIsOut, Acquired
<1>10. FiledNotFenced'
  BY <1>2 DEF FiledNotFenced
<1> QED BY <1>3, <1>4, <1>5, <1>6, <1>7, <1>8, <1>9, <1>10 DEF Safe

LEMMA VictimClearedKeeps ==
  ASSUME IInv, NEW w \in Conns, VictimCleared(w)
  PROVE  Safe'
<1>1. /\ held[w] \in Conns /\ cursors[held[w]] = 0 /\ pc[held[w]] \in Acquired
      /\ \A d \in DOMAIN inner : inner[d].state # held[w]
  BY DEF VictimCleared, At, IInv, Filing, EvictedIsOut
<1>2. cursors' = cursors
  BY <1>1 DEF VictimCleared, IInv, TypeOK
<1> USE DEF VictimCleared, At, Goto, IInv, Filing, TypeOK
<1>3. ActiveCountsUsers'
  BY UsersSame DEF Using, ActiveCountsUsers
<1>4. GuardStateIsCurrent'
  BY DEF GuardStateIsCurrent
<1>5. HolderRemoves' /\ VictimUnused'
  BY <1>2 DEF HolderRemoves, VictimUnused
<1>6. StatesFiled'
  BY DEF StatesFiled, Acquired
<1>7. FreshIsEmpty'
  BY <1>1, <1>2 DEF FreshIsEmpty, Acquired
<1>8. EvictedIsOut'
  BY <1>1, <1>2 DEF EvictedIsOut, Acquired
<1>9. FiledNotFenced'
  BY <1>1 DEF FiledNotFenced
<1> QED BY <1>3, <1>4, <1>5, <1>6, <1>7, <1>8, <1>9 DEF Safe

-----------------------------------------------------------------------------
(* The ends of acquire.                                                      *)
LEMMA JoinKeeps ==
  ASSUME IInv, NEW w \in Conns, AcquireWarm(w) \/ AcquireRaced(w)
  PROVE  Safe'
<1> DEFINE d == db[w]
<1>1. /\ d \in DOMAIN inner /\ pc[w] \in {"lookup", "insert"} /\ Unlocked
      /\ DOMAIN inner' = DOMAIN inner
      /\ inner'[d] = Entry(inner[d].state, inner[d].active + 1)
      /\ \A k \in DOMAIN inner : k # d => inner'[k] = inner[k]
      /\ held' = [held EXCEPT ![w] = inner[d].state]
      /\ pc' = [pc EXCEPT ![w] = "serving"]
      /\ UNCHANGED <<db, victim, draining, holder, cursors, writer>>
  BY DEF AcquireWarm, AcquireRaced, JoinEntry, SetEntry, At, Goto
<1>2. handles' = handles
  BY DEF AcquireWarm, AcquireRaced, IInv, Filing, FreshIsEmpty, Acquired, At, TypeOK
<1>3. \A k \in DOMAIN inner : inner'[k].state = inner[k].state
  BY <1>1 DEF Entry
<1>4. \A u \in Conns : pc[u] # "remove"
  BY <1>1, ConnsAssumption DEF IInv, Filing, HolderRemoves, Unlocked
<1> USE DEF IInv, Filing, TypeOK
<1>5. ActiveCountsUsers'
  <2>1. /\ Cardinality(Users(d))' = Cardinality(Users(d)) + 1
        /\ \A k \in DbIds : k # d => Users(k)' = Users(k)
    BY <1>1, UserJoins DEF Using
  <2>2. inner'[d].active = inner[d].active + 1
    BY <1>1 DEF Entry
  <2> QED BY <1>1, <2>1, <2>2 DEF ActiveCountsUsers
<1>6. GuardStateIsCurrent'
  BY <1>1, <1>3 DEF GuardStateIsCurrent
<1>7. HolderRemoves' /\ VictimUnused'
  BY <1>1, <1>4 DEF HolderRemoves, VictimUnused
<1>8. StatesFiled'
  BY <1>1, <1>3 DEF StatesFiled, Acquired
<1>9. FreshIsEmpty'
  BY <1>1, <1>2 DEF FreshIsEmpty, Acquired
<1>10. EvictedIsOut'
  BY <1>1, <1>3 DEF EvictedIsOut, Acquired
<1>11. FiledNotFenced'
  BY <1>1, <1>2, <1>3 DEF FiledNotFenced
<1> QED BY <1>5, <1>6, <1>7, <1>8, <1>9, <1>10, <1>11 DEF Safe

LEMMA InsertKeeps ==
  ASSUME IInv, NEW w \in Conns, AcquireInsert(w)
  PROVE  Safe'
<1> DEFINE d == db[w]
<1>1. /\ d \in DbIds /\ d \notin DOMAIN inner /\ pc[w] = "insert" /\ held[w] = w /\ Unlocked
      /\ DOMAIN inner' = DOMAIN inner \cup {d}
      /\ inner'[d] = Entry(w, 1)
      /\ \A k \in DOMAIN inner : inner'[k] = inner[k]
      /\ pc' = [pc EXCEPT ![w] = "serving"]
      /\ UNCHANGED <<db, held, victim, draining, holder, handles, cursors, writer>>
  BY DEF AcquireInsert, SetEntry, At, Goto, IInv, TypeOK, Filing, FreshIsEmpty
<1>2. inner'[d].state = w /\ inner'[d].active = 1
  BY <1>1 DEF Entry
<1>3. handles[w] = {} /\ Users(d) = {}
  BY <1>1 DEF IInv, Filing, FreshIsEmpty, Acquired, ActiveCountsUsers
<1>4. \A u \in Conns : pc[u] # "remove"
  BY <1>1, ConnsAssumption DEF IInv, Filing, HolderRemoves, Unlocked
<1> USE DEF IInv, Filing, TypeOK
<1>5. ActiveCountsUsers'
  <2>1. /\ Cardinality(Users(d))' = Cardinality(Users(d)) + 1
        /\ \A k \in DbIds : k # d => Users(k)' = Users(k)
    BY <1>1, UserJoins DEF Using
  <2>2. Cardinality(Users(d)) = 0
    BY <1>3, FS_EmptySet
  <2> QED BY <1>1, <1>2, <2>1, <2>2 DEF ActiveCountsUsers
<1>6. GuardStateIsCurrent'
  BY <1>1, <1>2 DEF GuardStateIsCurrent
<1>7. HolderRemoves' /\ VictimUnused'
  BY <1>1, <1>4 DEF HolderRemoves, VictimUnused
<1>8. StatesFiled'
  BY <1>1, <1>2 DEF StatesFiled, Acquired
<1>9. FreshIsEmpty'
  BY <1>1 DEF FreshIsEmpty, Acquired
<1>10. EvictedIsOut'
  BY <1>1, <1>2 DEF EvictedIsOut, Acquired
<1>11. FiledNotFenced'
  <2> SUFFICES ASSUME NEW k \in DOMAIN inner', NEW c \in handles'[inner'[k].state]
               PROVE  writer'[k][c] = inner'[k].state
    BY DEF FiledNotFenced
  <2>1. k # d
    BY <1>1, <1>2, <1>3
  <2>2. k \in DOMAIN inner /\ inner'[k] = inner[k] /\ handles' = handles /\ writer' = writer
    BY <1>1, <2>1
  <2> QED BY <2>2 DEF FiledNotFenced
<1> HIDE DEF IInv, TypeOK
<1> QED BY <1>5, <1>6, <1>7, <1>8, <1>9, <1>10, <1>11 DEF Safe

-----------------------------------------------------------------------------
(* Work on the AppState, and the release.                                    *)
LEMMA OpenCollectionKeeps ==
  ASSUME IInv, NEW w \in Conns, NEW c \in Colls, OpenCollection(w, c)
  PROVE  Safe'
<1>1. /\ db[w] \in DOMAIN inner /\ held[w] = inner[db[w]].state
      /\ held[w] \in Conns /\ db[w] \in DbIds /\ pc[held[w]] \in Acquired
  BY DEF OpenCollection, At, IInv, Filing, GuardStateIsCurrent, TypeOK, StatesFiled
<1> USE DEF OpenCollection, At, locals, IInv, Filing, TypeOK
<1>2. ActiveCountsUsers'
  BY UsersSame DEF ActiveCountsUsers
<1>3. GuardStateIsCurrent'
  BY DEF GuardStateIsCurrent
<1>4. HolderRemoves' /\ VictimUnused' /\ StatesFiled'
  BY DEF HolderRemoves, VictimUnused, StatesFiled
<1>5. FreshIsEmpty' /\ EvictedIsOut'
  BY <1>1 DEF FreshIsEmpty, EvictedIsOut
<1>6. FiledNotFenced'
  <2> SUFFICES ASSUME NEW d \in DOMAIN inner, NEW e \in handles'[inner[d].state]
               PROVE  writer'[d][e] = inner[d].state
    BY DEF FiledNotFenced
  <2>1. CASE d = db[w]
    <3>1. e = c \/ e \in handles[held[w]]
      BY <1>1, <2>1
    <3>2. e \in Colls /\ writer'[d][e] = (IF e = c THEN held[w] ELSE writer[d][e])
      BY <1>1, <2>1, <3>1
    <3> QED BY <1>1, <2>1, <3>1, <3>2 DEF FiledNotFenced
  <2>2. CASE d # db[w]
    <3>1. inner[d].state # held[w]
      BY <1>1, <2>2, StatesApart
    <3> QED BY <1>1, <2>2, <3>1 DEF FiledNotFenced
  <2> QED BY <2>1, <2>2
<1> QED BY <1>2, <1>3, <1>4, <1>5, <1>6 DEF Safe

LEMMA CursorKeeps ==
  ASSUME IInv, NEW w \in Conns, RegisterCursor(w) \/ EndCursor(w)
  PROVE  Safe'
<1>1. /\ pc[w] = "serving" /\ UNCHANGED <<locals, inner, usedBefore, holder, handles, writer>>
      /\ \A s \in Conns : s # held[w] => cursors'[s] = cursors[s]
  BY DEF RegisterCursor, EndCursor, At, IInv, TypeOK
<1>2. /\ db[w] \in DOMAIN inner /\ held[w] = inner[db[w]].state /\ inner[db[w]].active # 0
      /\ held[w] \in Conns /\ pc[held[w]] \in Acquired
  BY <1>1, ServedUses DEF IInv, Filing, TypeOK, StatesFiled
<1> USE DEF locals, IInv, Filing, TypeOK
<1>3. ActiveCountsUsers'
  BY <1>1, UsersSame DEF ActiveCountsUsers
<1>4. GuardStateIsCurrent' /\ HolderRemoves' /\ StatesFiled' /\ FiledNotFenced'
  BY <1>1 DEF GuardStateIsCurrent, HolderRemoves, StatesFiled, FiledNotFenced
<1>5. VictimUnused'
  <2>1. ASSUME NEW u \in Conns, pc[u] = "remove" PROVE inner[victim[u]].state # held[w]
    BY <1>2, <2>1, StatesApart DEF VictimUnused
  <2> QED BY <1>1, <2>1 DEF VictimUnused
<1>6. FreshIsEmpty' /\ EvictedIsOut'
  BY <1>1, <1>2 DEF FreshIsEmpty, EvictedIsOut
<1> QED BY <1>3, <1>4, <1>5, <1>6 DEF Safe

LEMMA DisconnectKeeps ==
  ASSUME IInv, NEW w \in Conns, Disconnect(w)
  PROVE  Safe'
<1> USE DEF Disconnect, At, Goto, IInv, Filing, TypeOK
<1>1. ActiveCountsUsers'
  BY UsersSame DEF Using, ActiveCountsUsers
<1>2. GuardStateIsCurrent' /\ HolderRemoves' /\ VictimUnused'
  BY DEF GuardStateIsCurrent, HolderRemoves, VictimUnused
<1>3. StatesFiled' /\ FreshIsEmpty' /\ EvictedIsOut'
  BY DEF StatesFiled, FreshIsEmpty, EvictedIsOut, Acquired
<1>4. FiledNotFenced'
  BY DEF FiledNotFenced
<1> QED BY <1>1, <1>2, <1>3, <1>4 DEF Safe

LEMMA ReleaseKeeps ==
  ASSUME IInv, NEW w \in Conns, Release(w)
  PROVE  Safe'
<1> DEFINE d == db[w]
<1>1. w \in Users(d)
  BY DEF Release, At, Users
<1>2. d \in DOMAIN inner /\ d \in DbIds /\ inner[d].active \in Nat \ {0}
  BY <1>1, NoUsersNoCount DEF IInv, ActiveCountsUsers, TypeOK
<1>3. /\ DOMAIN inner' = DOMAIN inner
      /\ inner'[d] = Entry(inner[d].state, inner[d].active - 1)
      /\ \A k \in DOMAIN inner : k # d => inner'[k] = inner[k]
      /\ pc[w] = "releasing" /\ pc' = [pc EXCEPT ![w] = "done"] /\ Unlocked
      /\ UNCHANGED <<db, held, victim, draining, holder, handles, cursors, writer>>
  BY <1>2 DEF Release, SetEntry, At, Goto, Minus1
<1>4. \A k \in DOMAIN inner : inner'[k].state = inner[k].state
  BY <1>3 DEF Entry
<1>5. \A u \in Conns : pc[u] # "remove"
  BY <1>3, ConnsAssumption DEF IInv, Filing, HolderRemoves, Unlocked
<1> USE DEF IInv, Filing, TypeOK
<1>6. ActiveCountsUsers'
  <2>1. /\ Cardinality(Users(d))' = Cardinality(Users(d)) - 1
        /\ \A k \in DbIds : k # d => Users(k)' = Users(k)
    BY <1>3, UserLeaves DEF Using
  <2>2. inner'[d].active = inner[d].active - 1
    BY <1>3 DEF Entry
  <2> QED BY <1>2, <1>3, <2>1, <2>2 DEF ActiveCountsUsers
<1>7. GuardStateIsCurrent'
  BY <1>3, <1>4 DEF GuardStateIsCurrent
<1>8. HolderRemoves' /\ VictimUnused'
  BY <1>3, <1>5 DEF HolderRemoves, VictimUnused
<1>9. StatesFiled' /\ FreshIsEmpty' /\ EvictedIsOut'
  BY <1>3, <1>4 DEF StatesFiled, FreshIsEmpty, EvictedIsOut, Acquired
<1>10. FiledNotFenced'
  BY <1>3, <1>4 DEF FiledNotFenced
<1> QED BY <1>6, <1>7, <1>8, <1>9, <1>10 DEF Safe

-----------------------------------------------------------------------------
LEMMA InvInit == Init => IInv
<1> SUFFICES ASSUME Init PROVE IInv
  OBVIOUS
<1>1. TypeOK
  BY TypeInit
<1>2. DOMAIN inner = {} /\ \A w \in Conns : pc[w] = "evict"
  BY DEF Init
<1>3. ActiveCountsUsers /\ GuardStateIsCurrent
  BY <1>2 DEF ActiveCountsUsers, GuardStateIsCurrent, Users
<1>4. HolderRemoves
  BY <1>2, ConnsAssumption DEF HolderRemoves, Init
<1>5. VictimUnused /\ StatesFiled /\ EvictedIsOut /\ FiledNotFenced
  BY <1>2 DEF VictimUnused, StatesFiled, EvictedIsOut, FiledNotFenced
<1>6. FreshIsEmpty
  BY <1>2 DEF FreshIsEmpty, Init
<1> QED BY <1>1, <1>3, <1>4, <1>5, <1>6 DEF IInv, Filing

LEMMA InvStep == IInv /\ [Next]_vars => IInv'
<1> SUFFICES ASSUME IInv, [Next]_vars PROVE IInv'
  OBVIOUS
<1>1. TypeOK'
  BY TypeStep DEF IInv, Filing
<1>2. TypeOK /\ FreshIsEmpty
  BY DEF IInv, Filing
<1>3. Safe'
  <2>1. ASSUME NEW w \in Conns, Evict(w) PROVE Safe'
    <3>1. CASE VictimConfirmed(w) BY <3>1, VictimConfirmedKeeps
    <3>2. CASE VictimRemoved(w) BY <3>2, VictimRemovedKeeps
    <3>3. CASE VictimCleared(w) BY <3>3, VictimClearedKeeps
    <3>4. CASE \/ EvictNotNeeded(w) \/ EvictPick(w) \/ VictimLost(w) \/ VictimClosed(w)
               \/ \E c \in Colls : CloseHandle(w, c) \/ CloseFails(w, c)
      BY <1>2, <3>4, LocalSteps, LocalStepKeeps
    <3> QED BY <2>1, <3>1, <3>2, <3>3, <3>4 DEF Evict
  <2>2. ASSUME NEW w \in Conns, Acquire(w) PROVE Safe'
    <3>1. CASE AcquireWarm(w) \/ AcquireRaced(w) BY <3>1, JoinKeeps
    <3>2. CASE AcquireInsert(w) BY <3>2, InsertKeeps
    <3>3. CASE AcquireCold(w) \/ OpenTenant(w) \/ OpenFails(w)
      BY <1>2, <3>3, LocalSteps, LocalStepKeeps
    <3> QED BY <2>2, <3>1, <3>2, <3>3 DEF Acquire
  <2>3. ASSUME NEW w \in Conns, Work(w) PROVE Safe'
    BY <2>3, OpenCollectionKeeps, CursorKeeps, DisconnectKeeps DEF Work
  <2>4. ASSUME NEW w \in Conns, Release(w) PROVE Safe'
    BY <2>4, ReleaseKeeps
  <2>5. CASE UNCHANGED vars \/ Quiet
    <3>1. UNCHANGED vars
      BY <2>5 DEF Quiet
    <3>2. ActiveCountsUsers' /\ GuardStateIsCurrent'
      BY <3>1 DEF vars, locals, IInv, ActiveCountsUsers, GuardStateIsCurrent, Users
    <3>3. HolderRemoves' /\ VictimUnused' /\ StatesFiled'
      BY <3>1 DEF vars, locals, IInv, Filing, HolderRemoves, VictimUnused, StatesFiled
    <3>4. FreshIsEmpty' /\ EvictedIsOut' /\ FiledNotFenced'
      BY <3>1 DEF vars, locals, IInv, Filing, FreshIsEmpty, EvictedIsOut, FiledNotFenced
    <3> QED BY <3>2, <3>3, <3>4 DEF Safe, Filing
  <2> QED BY <2>1, <2>2, <2>3, <2>4, <2>5 DEF Next
<1> QED BY <1>1, <1>3 DEF IInv, Safe

\* The inductive invariant holds in every reachable state.
THEOREM Invariance == Spec => []IInv
  BY InvInit, InvStep, PTL DEF Spec

\* Every variable keeps its type.
THEOREM TypeCorrect == Spec => []TypeOK
<1>1. IInv => TypeOK
  BY DEF IInv
<1> QED BY Invariance, <1>1, PTL

\* active_connections counts guards and pending releases, and no tenant in
\* use is missing from the map.
THEOREM CountsUsers == Spec => []ActiveCountsUsers
<1>1. IInv => ActiveCountsUsers
  BY DEF IInv
<1> QED BY Invariance, <1>1, PTL

\* A guard's AppState is the one in the map: two connections of a tenant
\* always work on the same AppState.
THEOREM GuardCurrent == Spec => []GuardStateIsCurrent
<1>1. IInv => GuardStateIsCurrent
  BY DEF IInv
<1> QED BY Invariance, <1>1, PTL

\* No handle a served connection uses has been fenced by a later open.
THEOREM NotFenced == Spec => []ServingHandlesNotFenced
<1>1. IInv => ServingHandlesNotFenced
  BY DEF IInv, Filing, GuardStateIsCurrent, FiledNotFenced, ServingHandlesNotFenced
<1> QED BY Invariance, <1>1, PTL

\* An eviction never takes a cursor away.
THEOREM NoCursorDropped == Spec => []EvictionDropsNoCursor
<1>1. IInv => EvictionDropsNoCursor
  BY DEF IInv, Filing, VictimUnused, EvictedIsOut, EvictionDropsNoCursor
<1> QED BY Invariance, <1>1, PTL

-----------------------------------------------------------------------------
(* Refinement of TenantService: an acquire takes effect when it enters the
   map, an eviction when its victim leaves the map, a disconnect when the
   guard is dropped; all other steps are invisible.                          *)
aStage == [w \in Conns |-> Stage(w)]
aServing == [d \in DbIds |-> IF d \in DOMAIN inner THEN inner[d].state ELSE NoConn]
aAttached == [w \in Conns |-> IF pc[w] = "serving" THEN held[w] ELSE NoConn]

\* Which abstract variables a step leaves alone.
LEMMA SameServing ==
  ASSUME DOMAIN inner' = DOMAIN inner, \A d \in DOMAIN inner : inner'[d].state = inner[d].state
  PROVE  aServing' = aServing
  BY DEF aServing

LEMMA StageMoves ==
  ASSUME TypeOK, NEW w \in Conns, NEW to, pc' = [pc EXCEPT ![w] = to]
  PROVE  aStage' = [aStage EXCEPT ![w] = Stage(w)']
  BY DEF aStage, Stage, TypeOK

LEMMA AttachedMoves ==
  ASSUME TypeOK, NEW w \in Conns, NEW to, pc' = [pc EXCEPT ![w] = to],
         \A u \in Conns : u # w => held'[u] = held[u]
  PROVE  aAttached' = [aAttached EXCEPT ![w] = IF to = "serving" THEN held'[w] ELSE NoConn]
  BY DEF aAttached, TypeOK

\* A step between two control states before the guard changes nothing abstract.
LEMMA WaitingStutters ==
  ASSUME TypeOK, NEW w \in Conns, NEW to, pc' = [pc EXCEPT ![w] = to],
         \A u \in Conns : u # w => held'[u] = held[u],
         pc[w] \notin Acquired \cup {"failed"}, to \notin Acquired \cup {"failed"}
  PROVE  aStage' = aStage /\ aAttached' = aAttached
<1>1. Stage(w) = "waiting" /\ Stage(w)' = "waiting"
  BY DEF Stage, Acquired, TypeOK
<1>2. aStage' = aStage
  BY <1>1, StageMoves DEF aStage
<1>3. aAttached[w] = NoConn /\ to # "serving"
  BY DEF aAttached, Acquired
<1>4. aAttached' = aAttached
  BY <1>3, AttachedMoves, ZenonT(60) DEF aAttached
<1> QED BY <1>2, <1>4

LEMMA RefusalRefines ==
  ASSUME TypeOK, NEW w \in Conns, pc[w] \notin Acquired \cup {"failed"},
         pc' = [pc EXCEPT ![w] = "failed"],
         \A u \in Conns : u # w => held'[u] = held[u],
         UNCHANGED <<db, inner, cursors>>
  PROVE  Service!Refuse(w)
<1>1. Stage(w) = "waiting" /\ Stage(w)' = "gone"
  BY DEF Stage, Acquired, TypeOK
<1>2. aStage' = [aStage EXCEPT ![w] = "gone"] /\ aStage[w] = "waiting"
  BY <1>1, StageMoves DEF aStage
<1>3. aAttached[w] = NoConn
  BY DEF aAttached, Acquired
<1>4. aAttached' = [aAttached EXCEPT ![w] = IF "failed" = "serving" THEN held'[w] ELSE NoConn]
  BY AttachedMoves
<1>5. aAttached' = [aAttached EXCEPT ![w] = NoConn]
  BY <1>4
<1>6. aAttached' = aAttached
  BY <1>3, <1>5 DEF aAttached
<1>7. aServing' = aServing
  BY SameServing
<1> QED BY <1>2, <1>6, <1>7 DEF Service!Refuse, aStage, aServing, aAttached

LEMMA InsertRefines ==
  ASSUME IInv, NEW w \in Conns, AcquireInsert(w)
  PROVE  Service!BringUp(w)
<1> DEFINE d == db[w]
<1>1. /\ d \in DbIds /\ d \notin DOMAIN inner /\ pc[w] = "insert" /\ held[w] = w
      /\ DOMAIN inner' = DOMAIN inner \cup {d} /\ inner'[d] = Entry(w, 1)
      /\ \A k \in DOMAIN inner : inner'[k] = inner[k]
      /\ pc' = [pc EXCEPT ![w] = "serving"]
      /\ UNCHANGED <<db, held, cursors>>
  BY DEF AcquireInsert, SetEntry, At, Goto, IInv, TypeOK, Filing, FreshIsEmpty
<1>2. TypeOK
  BY DEF IInv
<1>3. Stage(w) = "waiting" /\ Stage(w)' = "attached"
  BY <1>1, <1>2 DEF Stage, TypeOK
<1>4. aStage' = [aStage EXCEPT ![w] = "attached"] /\ aStage[w] = "waiting"
  BY <1>1, <1>2, <1>3, StageMoves DEF aStage
<1>5. aAttached' = [aAttached EXCEPT ![w] = w]
  BY <1>1, <1>2, AttachedMoves
<1>6. inner'[d].state = w
  BY <1>1 DEF Entry
<1>7. aServing' = [aServing EXCEPT ![d] = w] /\ aServing[d] = NoConn
  BY <1>1, <1>6 DEF aServing
<1> QED BY <1>1, <1>4, <1>5, <1>7 DEF Service!BringUp, aStage, aServing, aAttached

LEMMA JoinRefines ==
  ASSUME IInv, NEW w \in Conns, AcquireWarm(w) \/ AcquireRaced(w)
  PROVE  Service!Attach(w)
<1> DEFINE d == db[w]
<1>1. /\ d \in DOMAIN inner /\ pc[w] \in {"lookup", "insert"}
      /\ DOMAIN inner' = DOMAIN inner
      /\ inner'[d] = Entry(inner[d].state, inner[d].active + 1)
      /\ \A k \in DOMAIN inner : k # d => inner'[k] = inner[k]
      /\ held' = [held EXCEPT ![w] = inner[d].state]
      /\ pc' = [pc EXCEPT ![w] = "serving"]
      /\ UNCHANGED <<db, cursors>>
  BY DEF AcquireWarm, AcquireRaced, JoinEntry, SetEntry, At, Goto
<1>2. TypeOK /\ d \in DbIds
  BY DEF IInv, TypeOK
<1>3. \A k \in DOMAIN inner : inner'[k].state = inner[k].state
  BY <1>1 DEF Entry
<1>4. Stage(w) = "waiting" /\ Stage(w)' = "attached"
  BY <1>1, <1>2 DEF Stage, TypeOK
<1>5. aStage' = [aStage EXCEPT ![w] = "attached"] /\ aStage[w] = "waiting"
  BY <1>1, <1>2, <1>4, StageMoves DEF aStage
<1>6. held'[w] = inner[d].state /\ \A u \in Conns : u # w => held'[u] = held[u]
  BY <1>1, <1>2 DEF TypeOK
<1>7. aAttached' = [aAttached EXCEPT ![w] = inner[d].state]
  BY <1>1, <1>2, <1>6, AttachedMoves, ZenonT(60)
<1>8. aServing' = aServing /\ aServing[d] = inner[d].state /\ aServing[d] # NoConn
  BY <1>1, <1>2, <1>3, SameServing, ConnsAssumption DEF aServing, TypeOK
<1> QED BY <1>1, <1>2, <1>5, <1>7, <1>8 DEF Service!Attach, aStage, aServing, aAttached

LEMMA RemovalRefines ==
  ASSUME IInv, NEW w \in Conns, NEW v \in DbIds, v = victim[w], VictimRemoved(w)
  PROVE  Service!Retire(v)
<1>1. /\ v \in DOMAIN inner /\ cursors[inner[v].state] = 0 /\ Users(v) = {}
      /\ pc[w] = "remove" /\ pc' = [pc EXCEPT ![w] = "clear"]
      /\ DOMAIN inner' = DOMAIN inner \ {v}
      /\ \A d \in DOMAIN inner' : inner'[d] = inner[d]
      /\ \A u \in Conns : u # w => held'[u] = held[u]
      /\ UNCHANGED <<db, cursors>>
  BY NoUsersNoCount DEF VictimRemoved, RemoveEntry, At, Goto, IInv, Filing, VictimUnused
<1>2. TypeOK /\ v \in DbIds /\ inner[v].state \in Conns
  BY <1>1 DEF IInv, TypeOK
<1>3. aStage' = aStage /\ aAttached' = aAttached
  BY <1>1, <1>2, WaitingStutters DEF Acquired
<1>4. aServing' = [aServing EXCEPT ![v] = NoConn] /\ aServing[v] = inner[v].state
  BY <1>1, <1>2 DEF aServing
<1>5. \A u \in Conns : aAttached[u] # inner[v].state
  <2> SUFFICES ASSUME NEW u \in Conns, aAttached[u] = inner[v].state PROVE FALSE
    OBVIOUS
  <2>1. pc[u] = "serving" /\ held[u] = inner[v].state
    BY <1>2, ConnsAssumption DEF aAttached
  <2>2. db[u] \in DOMAIN inner /\ inner[db[u]].state = inner[v].state
    BY <2>1 DEF IInv, GuardStateIsCurrent
  <2>3. db[u] = v
    BY <1>1, <2>2, StatesApart DEF IInv, Filing
  <2> QED BY <1>1, <2>1, <2>3 DEF Users
<1>6. aServing[v] # NoConn
  BY <1>2, <1>4, ConnsAssumption
<1> QED BY <1>1, <1>3, <1>4, <1>5, <1>6 DEF Service!Retire, aStage, aServing, aAttached

LEMMA WorkRefines ==
  ASSUME IInv, NEW w \in Conns, Work(w)
  PROVE  [Service!Next]_Service!vars
<1>1. /\ pc[w] = "serving" /\ TypeOK
      /\ aStage[w] = "attached" /\ aAttached[w] = held[w]
  BY DEF Work, OpenCollection, RegisterCursor, EndCursor, Disconnect, At, IInv, aStage, Stage, aAttached
<1>2. ASSUME NEW c \in Colls, OpenCollection(w, c) PROVE UNCHANGED Service!vars
  <2>1. UNCHANGED <<aStage, aServing, aAttached, db, cursors>>
    BY <1>2 DEF OpenCollection, locals, aStage, Stage, aServing, aAttached
  <2> QED BY <2>1 DEF Service!vars, aStage, aServing, aAttached
<1>3. ASSUME RegisterCursor(w) PROVE Service!OpenCursor(w)
  <2>1. UNCHANGED <<aStage, aServing, aAttached, db>>
    BY <1>3 DEF RegisterCursor, locals, aStage, Stage, aServing, aAttached
  <2> QED BY <1>1, <1>3, <2>1 DEF RegisterCursor, Service!OpenCursor, aStage, aServing, aAttached
<1>4. ASSUME EndCursor(w) PROVE Service!EndCursor(w)
  <2>1. UNCHANGED <<aStage, aServing, aAttached, db>>
    BY <1>4 DEF EndCursor, locals, aStage, Stage, aServing, aAttached
  <2> QED BY <1>1, <1>4, <2>1 DEF EndCursor, Service!EndCursor, aStage, aServing, aAttached
<1>5. ASSUME Disconnect(w) PROVE Service!Detach(w)
  <2>1. pc' = [pc EXCEPT ![w] = "releasing"] /\ \A u \in Conns : u # w => held'[u] = held[u]
    BY <1>5 DEF Disconnect, Goto
  <2>2. Stage(w)' = "gone"
    BY <1>1, <2>1 DEF Stage, TypeOK
  <2>3. aStage' = [aStage EXCEPT ![w] = "gone"]
    BY <1>1, <2>1, <2>2, StageMoves
  <2>4. aAttached' = [aAttached EXCEPT ![w] = NoConn]
    <3>1. aAttached' = [aAttached EXCEPT ![w] = IF "releasing" = "serving" THEN held'[w] ELSE NoConn]
      BY <1>1, <2>1, AttachedMoves
    <3> QED BY <3>1
  <2>5. UNCHANGED <<aServing, db, cursors>>
    BY <1>5 DEF Disconnect, aServing
  <2> QED BY <1>1, <2>3, <2>4, <2>5 DEF Service!Detach, aStage, aServing, aAttached
<1> QED BY <1>2, <1>3, <1>4, <1>5 DEF Work, Service!Next

LEMMA ReleaseRefines ==
  ASSUME IInv, NEW w \in Conns, Release(w)
  PROVE  UNCHANGED Service!vars
<1>1. pc[w] = "releasing" /\ pc' = [pc EXCEPT ![w] = "done"] /\ UNCHANGED <<db, held, cursors>> /\ TypeOK
  BY DEF Release, At, Goto, IInv
<1>2. DOMAIN inner' = DOMAIN inner /\ \A k \in DOMAIN inner : inner'[k].state = inner[k].state
  BY DEF Release, SetEntry, Entry
<1>3. aStage' = aStage
  BY <1>1 DEF aStage, Stage, TypeOK
<1>4. aAttached' = aAttached
  BY <1>1 DEF aAttached, TypeOK
<1>5. aServing' = aServing
  BY <1>2, SameServing
<1> QED BY <1>1, <1>3, <1>4, <1>5 DEF Service!vars, aStage, aServing, aAttached

\* The other steps before the guard: a failure refuses the connection.
LEMMA WaitingRefines ==
  ASSUME IInv, NEW w \in Conns,
         \/ EvictNotNeeded(w) \/ EvictPick(w) \/ VictimLost(w) \/ VictimClosed(w)
         \/ VictimConfirmed(w) \/ VictimCleared(w)
         \/ \E c \in Colls : CloseHandle(w, c) \/ CloseFails(w, c)
         \/ AcquireCold(w) \/ OpenTenant(w) \/ OpenFails(w)
  PROVE  [Service!Next]_Service!vars
<1>1. TypeOK
  BY DEF IInv
<1>2. UNCHANGED <<db, inner, cursors>>
  <2>1. CASE VictimCleared(w)
    BY <1>1, <2>1 DEF VictimCleared, At, IInv, Filing, EvictedIsOut, TypeOK
  <2> QED BY <2>1 DEF EvictNotNeeded, EvictPick, VictimLost, VictimClosed, VictimConfirmed,
                      CloseHandle, CloseFails, AcquireCold, OpenTenant, OpenFails
<1>3. /\ pc[w] \notin Acquired \cup {"failed"}
      /\ \A u \in Conns : u # w => held'[u] = held[u]
      /\ \E to \in {"evict", "recheck", "remove", "clear", "close", "lookup", "open", "insert", "failed"} :
           pc' = [pc EXCEPT ![w] = to]
  BY <1>1 DEF EvictNotNeeded, EvictPick, VictimLost, VictimClosed, VictimConfirmed, VictimCleared,
              CloseHandle, CloseFails, AcquireCold, OpenTenant, OpenFails, At, Goto, TypeOK, Acquired
<1>4. PICK to \in {"evict", "recheck", "remove", "clear", "close", "lookup", "open", "insert", "failed"} :
           pc' = [pc EXCEPT ![w] = to]
  BY <1>3
<1>5. CASE to = "failed"
  <2>1. Service!Refuse(w)
    BY <1>1, <1>2, <1>3, <1>4, <1>5, RefusalRefines
  <2> QED BY <2>1 DEF Service!Next
<1>6. CASE to # "failed"
  <2>1. aStage' = aStage /\ aAttached' = aAttached
    BY <1>1, <1>3, <1>4, <1>6, WaitingStutters DEF Acquired
  <2>2. aServing' = aServing
    BY <1>2, SameServing
  <2> QED BY <1>2, <2>1, <2>2 DEF Service!vars, aStage, aServing, aAttached
<1> QED BY <1>5, <1>6

LEMMA RefinesInit == Init => Service!Init
  BY DEF Init, Service!Init, Stage

LEMMA RefinesStep == IInv /\ [Next]_vars => [Service!Next]_Service!vars
<1> SUFFICES ASSUME IInv, [Next]_vars PROVE [Service!Next]_Service!vars
  OBVIOUS
<1>1. ASSUME NEW w \in Conns, Evict(w) PROVE [Service!Next]_Service!vars
  <2>1. CASE VictimRemoved(w)
    <3>1. PICK v \in DbIds : v = victim[w]
      BY <2>1 DEF VictimRemoved, At, IInv, Filing, VictimUnused, TypeOK
    <3>2. Service!Retire(v)
      BY <2>1, <3>1, RemovalRefines
    <3> QED BY <3>2 DEF Service!Next
  <2> QED BY <1>1, <2>1, WaitingRefines DEF Evict
<1>2. ASSUME NEW w \in Conns, Acquire(w) PROVE [Service!Next]_Service!vars
  <2>1. CASE AcquireWarm(w) \/ AcquireRaced(w)
    BY <2>1, JoinRefines DEF Service!Next
  <2>2. CASE AcquireInsert(w)
    BY <2>2, InsertRefines DEF Service!Next
  <2> QED BY <1>2, <2>1, <2>2, WaitingRefines DEF Acquire
<1>3. ASSUME NEW w \in Conns, Work(w) PROVE [Service!Next]_Service!vars
  BY <1>3, WorkRefines
<1>4. ASSUME NEW w \in Conns, Release(w) PROVE [Service!Next]_Service!vars
  BY <1>4, ReleaseRefines
<1>5. CASE UNCHANGED vars \/ Quiet
  <2>1. UNCHANGED <<aStage, aServing, aAttached, db, cursors>>
    BY <1>5 DEF Quiet, vars, locals, aStage, Stage, aServing, aAttached
  <2> QED BY <2>1 DEF Service!vars, aStage, aServing, aAttached
<1> QED BY <1>1, <1>2, <1>3, <1>4, <1>5 DEF Next

\* The registry implements the atomic one: one incarnation of a tenant at a
\* time, never retired while a connection or a cursor depends on it.
THEOREM Refinement == Spec => ImplementsService
  BY Invariance, RefinesInit, RefinesStep, PTL DEF Spec, ImplementsService, Service!Spec
=============================================================================
