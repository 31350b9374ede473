--------------------- MODULE CustomHostnameRecordProofs ---------------------
(***************************************************************************)
(* Theorems about CustomHostname and the records of CF: how many are made, *)
(* for whom, and when they are deleted.                                    *)
(***************************************************************************)
EXTENDS CustomHostnameStatusProofs, FiniteSetTheorems

-----------------------------------------------------------------------------
(***************************************************************************)
(* The copies of an object and where they come from                        *)
(***************************************************************************)

\* o is c as somebody knows it: the API server, the informer, an event under way,
\* or the worker.
IsCopy(o, c) ==
    \/ o = api[c]
    \/ o = cache[c]
    \/ \E i \in DOMAIN watch : watch[i].cr = c /\ watch[i].obj = o
    \/ pc # "idle" /\ cur = c /\ ch = o

\* The copy o of c is made from the copy p.  The worker computes no new status for
\* a terminating CR.
Inherits(o, p, c) ==
    /\ p # None /\ o.status.creates = p.status.creates
    /\ \/ ~o.term
       \/ o = api'[c]
       \/ p.term /\ p.spec = o.spec /\ p.status = o.status

CountsCreate(o, c) ==
    /\ CreateAttempt /\ c = cur
    /\ ~o.term /\ o.status.creates = ch.status.creates + 1

\* Where the copy o comes from in a step.
ComesFrom(o, c) ==
    \/ \E p : IsCopy(p, c) /\ Inherits(o, p, c)
    \/ ~o.term /\ o.status.creates = 0
    \/ CountsCreate(o, c)

LEMMA SelfInherits ==
    ASSUME NEW c, NEW o, o # None, IsCopy(o, c)
    PROVE  ComesFrom(o, c)
  BY DEF ComesFrom, Inherits

LEMMA CopiesUnchanged ==
    ASSUME UNCHANGED <<api, cache, watch>>, pc' = "idle" \/ UNCHANGED <<pc, cur, ch>>,
           NEW c, NEW o, IsCopy(o, c)'
    PROVE  IsCopy(o, c)
  BY DEF IsCopy

LEMMA CopiesPut ==
    ASSUME IInv, NEW d \in CRs, NEW obj \in Object \cup {None}, Put(d, obj), cache' = cache,
           pc' = "idle" \/ UNCHANGED <<pc, cur, ch>>,
           NEW c \in CRs, NEW o, IsCopy(o, c)'
    PROVE  IsCopy(o, c) \/ (c = d /\ o = obj /\ o = api'[c])
  <1>1. /\ api'[d] = obj /\ \A e \in CRs \ {d} : api'[e] = api[e]
        /\ \A i \in DOMAIN watch' : \/ i \in DOMAIN watch /\ watch'[i] = watch[i]
                                    \/ watch'[i] = [cr |-> d, obj |-> obj]
    BY PutSync DEF IInv
  <1>2. \A i \in DOMAIN watch' : \/ i \in DOMAIN watch /\ watch'[i] = watch[i]
                                 \/ watch'[i].cr = d /\ watch'[i].obj = obj
    BY <1>1
  <1> HIDE <1>1
  <1>3. CASE o = api'[c]
    BY <1>1, <1>3 DEF IsCopy
  <1>4. CASE o = cache[c]
    BY <1>4 DEF IsCopy
  <1>5. ASSUME NEW i \in DOMAIN watch', watch'[i].cr = c, watch'[i].obj = o
        PROVE  IsCopy(o, c) \/ (c = d /\ o = obj /\ o = api'[c])
    BY <1>1, <1>2, <1>5 DEF IsCopy
  <1>6. CASE pc' # "idle" /\ cur' = c /\ ch' = o
    BY <1>6 DEF IsCopy
  <1> QED
    BY <1>3, <1>4, <1>5, <1>6 DEF IsCopy

LEMMA CopiesDeliver ==
    ASSUME IInv, Deliver, NEW c \in CRs, NEW o, IsCopy(o, c)'
    PROVE  IsCopy(o, c)
  <1>1. /\ \A i \in DOMAIN watch' : \E j \in DOMAIN watch : watch'[i] = watch[j]
        /\ \/ cache'[c] = cache[c]
           \/ \E j \in DOMAIN watch : watch[j].cr = c /\ cache'[c] = watch[j].obj
    BY DeliverSync DEF IInv
  <1>2. UNCHANGED <<api, pc, cur, ch>>
    BY DEF Deliver, worker
  <1> QED
    BY <1>1, <1>2 DEF IsCopy

\* Only the worker's copy changes.
LEMMA CopiesWorker ==
    ASSUME UNCHANGED <<api, cache, watch>>, NEW c, NEW o, IsCopy(o, c)'
    PROVE  IsCopy(o, c) \/ (pc' # "idle" /\ cur' = c /\ o = ch')
  BY DEF IsCopy

-----------------------------------------------------------------------------

LEMMA ReconcileFlow ==
    ASSUME IInv, NEW d \in CRs, Reconcile(d), NEW c \in CRs, NEW o, o # None, IsCopy(o, c)'
    PROVE  ComesFrom(o, c)
  <1>0. TypeOK
    BY DEF IInv
  <1>1. UNCHANGED <<api, cache, watch>>
    BY DEF Reconcile, ReconcileGone, ReconcileRelease, ReconcileDelete, ReconcileError,
           ReconcileAddFinalizer, ReconcileConflict, ReconcileLookup, Begin
  <1>2. CASE IsCopy(o, c)
    BY <1>2, SelfInherits
  <1>3. CASE pc' # "idle" /\ cur' = c /\ o = ch'
    <2>1. CASE ReconcileGone(d)
      BY <1>3, <2>1 DEF ReconcileGone, Takes, worker
    <2>2. CASE ReconcileRelease(d) \/ ReconcileDelete(d) \/ ReconcileAddFinalizer(d)
               \/ ReconcileLookup(d)
      <3>1. o = cache[c]
        BY <1>3, <2>2 DEF ReconcileRelease, ReconcileDelete, ReconcileAddFinalizer,
                          ReconcileLookup, Begin
      <3> QED
        BY <3>1, SelfInherits DEF IsCopy
    <2>3. CASE ReconcileError(d) \/ ReconcileConflict(d)
      <3> DEFINE s == cache[d].status
      <3>1. cache[d] # None /\ ~cache[d].term
        BY <2>3 DEF ReconcileError, ReconcileConflict, Managed, Alive
      <3>2. c = d /\ (o = WithStatus(cache[d], SetError(s)) \/ o = WithStatus(cache[d], SetConflict(s)))
        BY <1>3, <2>3 DEF ReconcileError, ReconcileConflict, Begin
      <3>3. cache[d] \in Object /\ s \in Status
        BY <1>0, <3>1, CachedType, ObjectFields
      <3>4. /\ SetError(s) \in Status /\ SetConflict(s) \in Status
            /\ SetError(s).creates = s.creates /\ SetConflict(s).creates = s.creates
        BY <3>3, StatusTypes DEF SetError, SetConflict, Status
      <3>5. ~o.term /\ o.status.creates = s.creates
        BY <3>1, <3>2, <3>3, <3>4, WithStatusType
      <3> QED
        BY <3>1, <3>2, <3>5 DEF ComesFrom, IsCopy, Inherits
    <2> QED
      BY <2>1, <2>2, <2>3 DEF Reconcile
  <1> QED
    BY <1>1, <1>2, <1>3, CopiesWorker

\* The statuses computed during a call keep the number of creates, but for one.
LEMMA CallCounts ==
    ASSUME NEW s \in Status
    PROVE  /\ SetError(s).creates = s.creates
           /\ SetWaiting(s).creates = s.creates
           /\ SetDryRun(s).creates = s.creates
           /\ \A id \in Nat : Adopt(s, id).creates = s.creates
           /\ \A ssl : Refresh(s, ssl).creates = s.creates
           /\ \A id, ssl : Created(s, id, ssl).creates = s.creates + 1
           /\ RequeueOrReady(s).creates = s.creates
  BY DEF Status, SetError, SetWaiting, SetDryRun, Adopt, Refresh, Created, RequeueOrReady

\* The error counter moves only with the conditions that say so.
LEMMA CallErrors ==
    ASSUME NEW s \in Status
    PROVE  /\ ErrorStep(s, SetError(s))
           /\ ErrorStep(s, SetConflict(s))
           /\ ErrorStep(s, SetWaiting(s))
           /\ ErrorStep(s, SetDryRun(s))
           /\ \A id \in Nat : Adopt(s, id).errs = s.errs
           /\ \A u \in Status : ErrorStep(s, RequeueOrReady(u))
  BY DEF Status, ErrorStep, SetError, SetConflict, SetWaiting, SetDryRun, Adopt,
         RequeueOrReady

CFCall ==
    LookupMissing \/ LookupFound \/ CreateAttempt \/ EditAttempt
    \/ Predelete \/ DeleteAttempt \/ DeleteNotFound \/ CallFails

\* The status s is what the worker goes on with after a call.
CallResult(s) ==
    \/ /\ pc' = "status" /\ pc \in {"lookup", "create", "edit"}
       /\ s.creates = ch.status.creates
    \/ /\ pc' = "status" /\ CreateAttempt
       /\ s.creates = ch.status.creates + 1
    \/ /\ pc' = "create" /\ LookupMissing /\ s = ch.status
       /\ EffectiveManagementPolicy(ch.spec) # "observe" /\ ~dryRun
    \/ /\ pc' = "edit" /\ pc = "lookup" /\ MayEdit(ch.spec)
       /\ s.creates = ch.status.creates
    \/ /\ pc' = "delete" /\ pc = "predelete" /\ s = ch.status
    \/ /\ pc' = "release" /\ (Predelete \/ DeleteAttempt \/ DeleteNotFound)
       /\ s = ch.status

GoesOn ==
    \E s \in Status : /\ ch' = WithStatus(ch, s) /\ cur' = cur
                      /\ s.id = ch.status.id \/ s.id # 0
                      /\ CallResult(s)
                      /\ IF pc' = "status" THEN ErrorStep(ch.status, s)
                         ELSE s.errs = ch.status.errs

LEMMA CallMoves ==
    ASSUME IInv, CFCall
    PROVE  pc' = "idle" \/ UNCHANGED <<pc, cur, ch>> \/ GoesOn
  <1>0. TypeOK
    BY DEF IInv
  <1>1. pc \in CFCalls /\ pc # "idle"
    BY DEF CFCall, CFCalls, LookupMissing, LookupFound, CreateAttempt, EditAttempt,
           Predelete, DeleteAttempt, DeleteNotFound, CallFails
  <1>2. ch \in Object /\ ch.status \in Status
    BY <1>0, <1>1, ObjectFields DEF TypeOK
  <1> DEFINE t == ch.status
  <1>3. ASSUME FailedAttempt \/ GiveUp
        PROVE  pc' = "idle" \/ UNCHANGED <<pc, cur, ch>> \/ GoesOn
    <2>1. CASE Retry
      BY <2>1 DEF Retry
    <2>2. CASE pc \in {"predelete", "delete"} /\ Abort
      BY <2>2 DEF Abort
    <2>3. CASE pc \in {"lookup", "create", "edit"} /\ Goto("status", SetError(t))
      <3>1. /\ SetError(t) \in Status /\ SetError(t).creates = t.creates
            /\ SetError(t).id = t.id
        BY <1>2, StatusTypes, CallCounts, SameIds
      <3> QED
        BY <1>2, <2>3, <3>1, CallErrors DEF GoesOn, CallResult, Goto
    <2> QED
      BY <1>3, <2>1, <2>2, <2>3 DEF FailedAttempt, GiveUp
  <1>4. ASSUME NEW s \in Status, Settle(s), s.id # 0,
               \/ pc \in {"lookup", "create", "edit"} /\ s.creates = t.creates
               \/ CreateAttempt /\ s.creates = t.creates + 1
        PROVE  GoesOn
    <2>1. /\ RequeueOrReady(s) \in Status /\ RequeueOrReady(s).creates = s.creates
          /\ RequeueOrReady(s).id = s.id
      BY <1>4, StatusTypes, CallCounts, SameIds
    <2>2. Goto("status", RequeueOrReady(s))
      BY <1>4 DEF Settle
    <2> QED
      BY <1>2, <1>4, <2>1, <2>2, CallErrors DEF GoesOn, CallResult, Goto
  <1>5. CASE LookupMissing
    <2>1. /\ SetWaiting(t) \in Status /\ SetWaiting(t).creates = t.creates
          /\ SetWaiting(t).id = t.id
          /\ SetDryRun(t) \in Status /\ SetDryRun(t).creates = t.creates
          /\ SetDryRun(t).id = t.id
      BY <1>2, StatusTypes, CallCounts, SameIds
    <2>2. CASE Goto("status", SetWaiting(t)) \/ Goto("status", SetDryRun(t))
      BY <1>2, <1>5, <2>1, <2>2, CallErrors DEF GoesOn, CallResult, Goto, LookupMissing
    <2>3. CASE /\ EffectiveManagementPolicy(ch.spec) # "observe" /\ ~dryRun
               /\ Goto("create", t)
      BY <1>2, <1>5, <2>3 DEF GoesOn, CallResult, Goto
    <2> QED
      BY <1>5, <2>2, <2>3 DEF LookupMissing
  <1>6. CASE LookupFound
    <2>1. PICK r \in FindByHostname(ch.spec.zone, HostOf[cur]) \ {0} :
            \/ MayEdit(ch.spec) /\ Goto("edit", Adopt(t, r))
            \/ Settle(Refresh(Adopt(t, r), cf[r].ssl))
      BY <1>6 DEF LookupFound
    <2>2. r \in Nat /\ r # 0 /\ cf[r] \in Record
      BY <1>0, FindType
    <2>3. /\ Adopt(t, r) \in Status /\ Adopt(t, r).creates = t.creates
          /\ Adopt(t, r).id = r /\ Adopt(t, r).errs = t.errs
      BY <1>2, <2>2, StatusTypes, CallCounts, CallErrors DEF Adopt, Status
    <2>4. CASE MayEdit(ch.spec) /\ Goto("edit", Adopt(t, r))
      BY <1>6, <2>2, <2>3, <2>4 DEF GoesOn, CallResult, Goto, LookupFound
    <2>5. CASE Settle(Refresh(Adopt(t, r), cf[r].ssl))
      <3> DEFINE s == Adopt(t, r)
                 v == Refresh(s, cf[r].ssl)
      <3>1. cf[r].ssl \in {"none", "pending", "active"}
        BY <2>2 DEF Record
      <3>2. s \in Status /\ s.creates = t.creates /\ s.id = r
        BY <2>3
      <3> HIDE DEF s
      <3>3. v \in Status /\ v.creates = s.creates /\ v.id = r
        BY <3>1, <3>2, StatusTypes, CallCounts DEF Refresh, Status
      <3>4. Settle(v) /\ pc = "lookup"
        BY <1>6, <2>5 DEF LookupFound, s
      <3> HIDE DEF v
      <3> QED
        BY <1>4, <2>2, <3>2, <3>3, <3>4
    <2> QED
      BY <2>1, <2>4, <2>5
  <1>7. CASE CreateAttempt
    <2>1. PICK ssl \in {"pending", "active"} :
            Settle(Created(t, Len(cf) + 1, ssl)) \/ FailedAttempt
      BY <1>7 DEF CreateAttempt
    <2> DEFINE n == Len(cf) + 1
               s == Created(t, n, ssl)
    <2>2. n \in Nat /\ n # 0
      BY <1>0 DEF TypeOK
    <2> HIDE DEF n
    <2>3. s \in Status /\ s.creates = t.creates + 1 /\ s.id = n
      BY <1>2, <2>2, StatusTypes, CallCounts DEF Created, Status
    <2>4. CASE Settle(s)
      <3> HIDE DEF s
      <3> QED
        BY <1>4, <1>7, <2>2, <2>3, <2>4
    <2> QED
      BY <1>3, <2>1, <2>4 DEF n
  <1>8. CASE EditAttempt
    <2>1. PICK ssl \in {"pending", "active"} : Settle(Refresh(t, ssl)) \/ FailedAttempt
      BY <1>8 DEF EditAttempt
    <2> DEFINE s == Refresh(t, ssl)
    <2>2. s \in Status /\ s.creates = t.creates /\ s.id = t.id
      BY <1>2, StatusTypes, CallCounts DEF Refresh, Status
    <2>3. t.id # 0 /\ pc = "edit"
      BY <1>0, <1>8 DEF EditAttempt, InZone, TypeOK
    <2>4. CASE Settle(s)
      <3> HIDE DEF s
      <3> QED
        BY <1>4, <2>2, <2>3, <2>4
    <2> QED
      BY <1>3, <2>1, <2>4
  <1>9. CASE Predelete
    <2>1. Goto("delete", t) \/ Goto("release", t)
      BY <1>9 DEF Predelete
    <2> QED
      BY <1>2, <1>9, <2>1 DEF GoesOn, CallResult, Goto, Predelete
  <1>10. CASE DeleteAttempt \/ DeleteNotFound
    <2>1. CASE Goto("release", t)
      BY <1>2, <1>10, <2>1 DEF GoesOn, CallResult, Goto
    <2>2. CASE FailedAttempt
      BY <1>3, <2>2
    <2> QED
      BY <1>10, <2>1, <2>2 DEF DeleteAttempt, DeleteNotFound, FailedAttempt
  <1>11. CASE CallFails
    BY <1>3, <1>11 DEF CallFails
  <1> QED
    BY <1>5, <1>6, <1>7, <1>8, <1>9, <1>10, <1>11 DEF CFCall

LEMMA CallFlow ==
    ASSUME IInv, CFCall, NEW c \in CRs, NEW o, o # None, IsCopy(o, c)'
    PROVE  ComesFrom(o, c)
  <1>1. UNCHANGED <<api, cache, watch>> /\ pc # "idle"
    BY CFCallShape DEF IInv, CFCall
  <1>2. CASE IsCopy(o, c)
    BY <1>2, SelfInherits
  <1>3. CASE pc' # "idle" /\ cur' = c /\ o = ch' /\ GoesOn
    <2>1. PICK s \in Status : o = WithStatus(ch, s) /\ cur = c /\ CallResult(s)
      BY <1>3 DEF GoesOn
    <2>2. ch \in Object /\ ch # None
      BY <1>1, ObjectFields DEF IInv, TypeOK
    <2>3. o.spec = ch.spec /\ o.term = ch.term /\ o.status = s
      BY <2>1, <2>2, WithStatusType
    <2>4. IsCopy(ch, c)
      BY <1>1, <2>1 DEF IsCopy
    <2>5. CASE s = ch.status
      BY <2>2, <2>3, <2>4, <2>5 DEF ComesFrom, Inherits
    <2>6. CASE pc \in {"lookup", "create", "edit"} /\ s.creates = ch.status.creates
      <3>1. ~o.term
        BY <2>3, <2>6 DEF IInv, PhaseInv
      <3> QED
        BY <2>2, <2>3, <2>4, <2>6, <3>1 DEF ComesFrom, Inherits
    <2>7. CASE CreateAttempt /\ s.creates = ch.status.creates + 1
      <3>1. ~o.term
        BY <2>3, <2>7 DEF IInv, PhaseInv, CreateAttempt
      <3> QED
        BY <2>1, <2>3, <2>7, <3>1 DEF ComesFrom, CountsCreate
    <2> QED
      BY <2>1, <2>5, <2>6, <2>7 DEF CallResult
  <1>4. CASE pc' # "idle" /\ cur' = c /\ o = ch' /\ UNCHANGED <<pc, cur, ch>>
    BY <1>4, SelfInherits DEF IsCopy
  <1> QED
    BY <1>1, <1>2, <1>3, <1>4, CallMoves, CopiesWorker

LEMMA WriteFlow ==
    ASSUME IInv, AddFinalizer \/ Release \/ PersistStatus \/ WriteFails,
           NEW c \in CRs, NEW o, o # None, IsCopy(o, c)'
    PROVE  ComesFrom(o, c)
  <1>1. /\ pc' = "idle" /\ pc # "idle" /\ cache' = cache
        /\ TypeOK /\ FreshInv /\ PhaseInv /\ cur \in CRs /\ ch \in Object
    BY DEF IInv, TypeOK, AddFinalizer, Release, PersistStatus, WriteFails, APIWrites, Done, Abort
  <1>2. CASE IsCopy(o, c)
    BY <1>2, SelfInherits
  <1>3. CASE AddFinalizer
    <2> DEFINE obj == [ch EXCEPT !.fin = TRUE, !.status = api[cur].status]
    <2>1. Put(cur, obj) /\ api[cur] # None /\ api[cur] \in Object /\ ~ch.term
      BY <1>1, <1>3 DEF AddFinalizer, FreshInv, PhaseInv, TypeOK
    <2>2. obj \in Object /\ ~obj.term /\ obj.status = api[cur].status
      BY <1>1, <2>1, ObjectFields DEF Object
    <2> HIDE DEF obj
    <2>3. IsCopy(o, c) \/ (c = cur /\ o = obj)
      BY <1>1, <2>1, <2>2, CopiesPut
    <2>4. CASE c = cur /\ o = obj
      BY <2>1, <2>2, <2>4 DEF ComesFrom, Inherits, IsCopy
    <2> QED
      BY <1>2, <2>3, <2>4
  <1>4. CASE Release
    <2>1. Put(cur, None)
      BY <1>4 DEF Release
    <2>2. IsCopy(o, c)
      BY <1>1, <2>1, CopiesPut
    <2> QED
      BY <1>2, <2>2
  <1>5. CASE PersistStatus
    <2> DEFINE obj == WithStatus(api[cur], ch.status)
    <2>1. CASE Put(cur, obj)
      <3>1. api[cur] \in Object /\ ~ch.term /\ api[cur].term = ch.term
        BY <1>1, <1>5 DEF PersistStatus, FreshInv, PhaseInv, TypeOK
      <3>2. obj \in Object /\ ~obj.term /\ obj.status = ch.status
        BY <1>1, <3>1, ObjectFields, WithStatusType
      <3> HIDE DEF obj
      <3>3. IsCopy(o, c) \/ (c = cur /\ o = obj)
        BY <1>1, <2>1, <3>2, CopiesPut
      <3>4. CASE c = cur /\ o = obj
        BY <1>1, <3>2, <3>4, ObjectFields DEF ComesFrom, Inherits, IsCopy
      <3> QED
        BY <1>2, <3>3, <3>4
    <2>2. CASE UNCHANGED <<api, watch>>
      BY <1>1, <1>2, <2>2, CopiesUnchanged
    <2> QED
      BY <1>5, <2>1, <2>2 DEF PersistStatus
  <1>6. CASE WriteFails
    BY <1>1, <1>2, <1>6, CopiesUnchanged DEF WriteFails
  <1> QED
    BY <1>3, <1>4, <1>5, <1>6

LEMMA UserFlow ==
    ASSUME IInv, NEW d \in CRs, User(d), NEW c \in CRs, NEW o, o # None, IsCopy(o, c)'
    PROVE  ComesFrom(o, c)
  <1>0. TypeOK
    BY DEF IInv
  <1>1. CASE CreateCR(d)
    <2>1. PICK spec \in Specs : PutByOther(d, NewObject(spec))
      BY <1>1 DEF CreateCR, NewObject
    <2>2. /\ NewObject(spec) \in Object /\ ~NewObject(spec).term
          /\ NewObject(spec).status.creates = 0
      <3>1. NewStatus \in Status /\ NewStatus.creates = 0
        BY DEF NewStatus, Status, Conds
      <3> QED
        BY <3>1 DEF NewObject, Object
    <2>3. IsCopy(o, c) \/ o = NewObject(spec)
      BY <2>1, <2>2, CopiesPut DEF PutByOther
    <2> QED
      BY <2>2, <2>3, SelfInherits DEF ComesFrom
  <1>2. CASE EditSpec(d) \/ DeleteCR(d)
    <2>1. PICK obj \in Object \cup {None} :
            /\ PutByOther(d, obj)
            /\ \/ api[d] = None
               \/ obj # None /\ obj.status = api[d].status
               \/ obj = None
      BY <1>0, UserPut DEF User
    <2>2. api[d] # None
      BY <1>2 DEF EditSpec, DeleteCR
    <2>3. IsCopy(o, c) \/ (c = d /\ o = obj /\ o = api'[c])
      BY <2>1, CopiesPut DEF PutByOther
    <2>4. CASE c = d /\ o = obj /\ o = api'[c]
      BY <2>1, <2>2, <2>4 DEF ComesFrom, Inherits, IsCopy
    <2> QED
      BY <2>3, <2>4, SelfInherits
  <1> QED
    BY <1>1, <1>2 DEF User

\* A copy of c is a copy that was there, or made from one by an edit, the
\* deletion request or a write of its status, or it belongs to a CR just made.
LEMMA Flow ==
    ASSUME IInv, [Next]_vars, NEW c \in CRs, NEW o, o # None, IsCopy(o, c)'
    PROVE  ComesFrom(o, c)
  <1>1. ASSUME NEW d \in CRs, Reconcile(d) \/ User(d) PROVE ComesFrom(o, c)
    BY <1>1, ReconcileFlow, UserFlow
  <1>2. CASE WorkerStep
    BY <1>2, CallFlow, WriteFlow DEF WorkerStep, CFCall
  <1>3. CASE Deliver
    BY <1>3, CopiesDeliver, SelfInherits
  <1>4. ASSUME UNCHANGED <<api, cache, watch, worker>> PROVE ComesFrom(o, c)
    BY <1>4, CopiesUnchanged, SelfInherits DEF worker
  <1>5. ASSUME NEW d \in CRs, DriftEvent(d) PROVE ComesFrom(o, c)
    BY <1>4, <1>5 DEF DriftEvent
  <1>6. CASE External
    BY <1>4, <1>6 DEF External, ExtCreate, ExtEdit, ExtDelete, SSLChanges, OnlyCF
  <1>7. ASSUME NEW z \in Zones, ZoneChanges(z) PROVE ComesFrom(o, c)
    BY <1>4, <1>7 DEF ZoneChanges
  <1>8. CASE Restart
    <2>1. o = api[c]
      BY <1>8 DEF Restart, IsCopy
    <2> QED
      BY <2>1, SelfInherits DEF IsCopy
  <1>9. CASE UNCHANGED vars
    BY <1>4, <1>9 DEF vars
  <1> QED
    BY <1>1, <1>2, <1>3, <1>5, <1>6, <1>7, <1>8, <1>9 DEF Next

\* Where the worker is after a step.
LEMMA Moves ==
    ASSUME IInv, [Next]_vars
    PROVE  \/ pc' = "idle"
           \/ /\ UNCHANGED <<pc, cur, ch, dryRun>>
              /\ fresh' => fresh /\ api'[cur] = api[cur]
           \/ /\ CFCall /\ GoesOn
              /\ UNCHANGED <<api, cache, watch, fresh, dryRun>>
           \/ \E c \in CRs : Reconcile(c) /\ UNCHANGED <<api, dryRun, cf>>
  <1> DEFINE Stays == /\ UNCHANGED <<pc, cur, ch, dryRun>>
                      /\ fresh' => fresh /\ api'[cur] = api[cur]
  <1>1. ASSUME NEW c \in CRs, Reconcile(c) PROVE UNCHANGED <<api, dryRun, cf>>
    BY <1>1 DEF Reconcile, ReconcileGone, ReconcileRelease, ReconcileDelete, ReconcileError,
                ReconcileAddFinalizer, ReconcileConflict, ReconcileLookup, Begin
  <1>2. ASSUME NEW c \in CRs, User(c) PROVE Stays
    <2>1. PICK obj : PutByOther(c, obj)
      BY <1>2 DEF User, CreateCR, EditSpec, DeleteCR
    <2>2. /\ UNCHANGED <<pc, cur, ch, dryRun>>
          /\ fresh' = (fresh /\ cur # c) /\ api' = [api EXCEPT ![c] = obj]
      BY <2>1 DEF PutByOther, Put
    <2>3. cur # c => api'[cur] = api[cur]
      BY <2>2 DEF IInv, TypeOK
    <2> QED
      BY <2>2, <2>3
  <1>3. CASE CFCall
    <2>1. UNCHANGED <<api, cache, watch>> /\ (pc' = "idle" \/ fresh' = fresh)
      BY <1>3, CFCallShape DEF IInv, CFCall
    <2>2. UNCHANGED dryRun
      BY <1>3 DEF CFCall, LookupMissing, LookupFound, CreateAttempt, EditAttempt, Predelete,
                  DeleteAttempt, DeleteNotFound, CallFails, FailedAttempt, GiveUp, Retry,
                  Settle, Goto
    <2> QED
      BY <1>3, <2>1, <2>2, CallMoves
  <1>4. CASE AddFinalizer \/ Release \/ PersistStatus \/ WriteFails
    BY <1>4 DEF AddFinalizer, Release, PersistStatus, WriteFails, Done, Abort
  <1>5. ASSUME NEW c \in CRs, DriftEvent(c) PROVE Stays
    BY <1>5 DEF DriftEvent, worker
  <1>6. CASE Deliver \/ External \/ UNCHANGED vars
    BY <1>6 DEF Deliver, External, ExtCreate, ExtEdit, ExtDelete, SSLChanges, OnlyCF, worker,
                vars
  <1>7. ASSUME NEW z \in Zones, ZoneChanges(z) PROVE Stays
    BY <1>7 DEF ZoneChanges, worker
  <1>8. CASE Restart
    BY <1>8 DEF Restart
  <1> QED
    BY <1>1, <1>2, <1>3, <1>4, <1>5, <1>6, <1>7, <1>8 DEF Next, WorkerStep, CFCall

\* Records are made by the worker and by other clients.  No step changes what a
\* record is, or brings a dead one back.
LEMMA CFSteps ==
    ASSUME IInv, [Next]_vars
    PROVE  /\ RecordsKept(cf, cf')
           /\ \/ DOMAIN cf' = DOMAIN cf
              \/ CreateAttempt
              \/ ExtCreate
  <1>0. TypeOK
    BY DEF IInv
  <1>1. CASE CreateAttempt
    <2>1. PICK ssl : CFCreate(ch.spec.zone, HostOf[cur], ch.spec.cfg, ssl, cur)
      BY <1>1 DEF CreateAttempt
    <2> QED
      BY <1>0, <1>1, <2>1, CFCreateHosts
  <1>2. CASE External
    BY <1>0, <1>2, ExternalHosts
       DEF External, ExtCreate, ExtEdit, ExtDelete, SSLChanges, TypeOK
  <1>3. CASE EditAttempt
    <2> DEFINE i == ch.status.id
    <2>1. PICK ssl : cf' = [cf EXCEPT ![i].cfg = ch.spec.cfg, ![i].ssl = ssl]
      BY <1>3 DEF EditAttempt
    <2> DEFINE rec == [cf[i] EXCEPT !.cfg = ch.spec.cfg, !.ssl = ssl]
    <2>2. i \in DOMAIN cf
      BY <1>3 DEF EditAttempt, InZone
    <2>3. cf' = [cf EXCEPT ![i] = rec]
      BY <1>0, <2>1, <2>2 DEF TypeOK
    <2>4. SameRecord(cf[i], rec)
      BY <1>0, <2>2, EditHosts
    <2> HIDE DEF rec, i
    <2> QED
      BY <1>0, <2>3, <2>4, ReplaceHosts
  <1>4. CASE DeleteAttempt
    <2> DEFINE i == ch.status.id
               rec == [cf[i] EXCEPT !.live = FALSE]
    <2>1. i \in DOMAIN cf /\ cf' = [cf EXCEPT ![i] = rec]
      BY <1>0, <1>4 DEF DeleteAttempt, InZone, TypeOK
    <2>2. SameRecord(cf[i], rec)
      BY <1>0, <2>1, EditHosts
    <2> HIDE DEF rec, i
    <2> QED
      BY <1>0, <2>1, <2>2, ReplaceHosts
  <1>5. ASSUME UNCHANGED cf
        PROVE  RecordsKept(cf, cf') /\ DOMAIN cf' = DOMAIN cf
    BY <1>5, SameHosts
  <1>6. ASSUME NEW c \in CRs, Reconcile(c) \/ User(c) \/ DriftEvent(c) PROVE UNCHANGED cf
    BY <1>6 DEF Reconcile, ReconcileGone, ReconcileRelease, ReconcileDelete, ReconcileError,
                ReconcileAddFinalizer, ReconcileConflict, ReconcileLookup, Begin,
                User, CreateCR, EditSpec, DeleteCR, PutByOther, DriftEvent
  <1>7. CASE LookupMissing \/ LookupFound \/ Predelete \/ DeleteNotFound \/ CallFails
             \/ AddFinalizer \/ Release \/ PersistStatus \/ WriteFails
    BY <1>5, <1>7 DEF LookupMissing, LookupFound, Predelete, DeleteNotFound, CallFails,
                      AddFinalizer, Release, PersistStatus, WriteFails
  <1>8. ASSUME NEW z \in Zones, ZoneChanges(z) PROVE UNCHANGED cf
    BY <1>8 DEF ZoneChanges
  <1>9. CASE Deliver \/ Restart \/ UNCHANGED vars
    BY <1>5, <1>9 DEF Deliver, Restart, vars
  <1> QED
    BY <1>1, <1>2, <1>3, <1>4, <1>5, <1>6, <1>7, <1>8, <1>9 DEF Next, WorkerStep

\* The record that CreateAttempt or ExtCreate makes.
Makes(n, z, h, by) ==
    /\ CFRejectsDuplicates => FindByHostname(z, h) = {0}
    /\ DOMAIN cf' = DOMAIN cf \cup {n} /\ n \notin DOMAIN cf
    /\ cf'[n].zone = z /\ cf'[n].host = h /\ cf'[n].by = by /\ cf'[n].live

LEMMA CreateMakes ==
    ASSUME TypeOK, CreateAttempt
    PROVE  \E n : Makes(n, ch.spec.zone, HostOf[cur], cur)
  <1>1. PICK ssl : CFCreate(ch.spec.zone, HostOf[cur], ch.spec.cfg, ssl, cur)
    BY DEF CreateAttempt
  <1> QED
    BY <1>1, CFCreateHosts DEF Makes, CFCreate

LEMMA ExtCreateMakes ==
    ASSUME TypeOK, ExtCreate
    PROVE  \E n : \E z \in Zones, h \in Hosts : Makes(n, z, h, None)
  <1>1. PICK z \in Zones, h \in Hosts, cfg \in Cfgs : CFCreate(z, h, cfg, "pending", None)
    BY DEF ExtCreate
  <1> QED
    BY <1>1, CFCreateHosts DEF Makes, CFCreate

\* nil is the answer only when CF has no such record.
LEMMA FindNone ==
    ASSUME TypeOK, NEW z, NEW h, 0 \in FindByHostname(z, h), NEW r \in DOMAIN cf,
           cf[r].zone = z, cf[r].host = h
    PROVE  ~cf[r].live
  BY DEF TypeOK, FindByHostname

-----------------------------------------------------------------------------
(***************************************************************************)
(* One record of a hostname                                                *)
(***************************************************************************)

\* A create whose reply was lost is not repeated, or CF refuses the second.
RetriesAreSafe == CFRejectsDuplicates \/ ~LostReplies \/ MaxRetries = 0

\* Since the lookup that found nothing, the operator made no record.
NoTwinAhead ==
    ~CFRejectsDuplicates /\ pc = "create" =>
       \A r \in DOMAIN cf :
          cf[r].live /\ cf[r].zone = ch.spec.zone /\ cf[r].host = HostOf[cur]
            => cf[r].by = None

UniqueInv == OneRecordPerHost /\ NoTwinAhead

LEMMA CreateAgain ==
    ASSUME TypeOK, CreateAttempt, pc' = "create"
    PROVE  LostReplies /\ MaxRetries # 0
  <1>1. LostReplies /\ FailedAttempt
    BY DEF CreateAttempt, Settle, Goto
  <1>2. Retry
    BY <1>1 DEF FailedAttempt, GiveUp, Goto, Abort
  <1> QED
    BY <1>1, <1>2, BoundAssumption DEF Retry, TypeOK

LEMMA UniqueNext ==
    ASSUME RetriesAreSafe, IInv, UniqueInv, [Next]_vars
    PROVE  UniqueInv'
  <1>0. TypeOK /\ RecordsKept(cf, cf')
    BY CFSteps DEF IInv
  <1>1. ASSUME NEW n, NEW z, NEW h, NEW by, Makes(n, z, h, by),
               \/ by = None
               \/ CFRejectsDuplicates
               \/ \A r \in DOMAIN cf : cf[r].live /\ cf[r].zone = z /\ cf[r].host = h
                                         => cf[r].by = None
        PROVE  OneRecordPerHost'
    <2>1. ASSUME NEW r \in DOMAIN cf, cf'[r].live, cf'[r].zone = z, cf'[r].host = h,
                 CFRejectsDuplicates \/ (cf'[r].by # None /\ by # None)
          PROVE  FALSE
      <3>1. cf[r].live /\ cf[r].zone = z /\ cf[r].host = h /\ cf[r].by = cf'[r].by
        BY <1>0, <2>1 DEF RecordsKept, SameRecord
      <3>2. ~CFRejectsDuplicates
        BY <1>0, <1>1, <3>1, FindNone DEF Makes
      <3> QED
        BY <1>1, <2>1, <3>1, <3>2
    <2>2. ASSUME NEW r \in DOMAIN cf, NEW q \in DOMAIN cf,
                 cf'[r].live, cf'[q].live, cf'[r].zone = cf'[q].zone,
                 cf'[r].host = cf'[q].host,
                 CFRejectsDuplicates \/ (cf'[r].by # None /\ cf'[q].by # None)
          PROVE  r = q
      BY <1>0, <2>2 DEF UniqueInv, OneRecordPerHost, RecordsKept, SameRecord
    <2> QED
      BY <1>1, <2>1, <2>2 DEF Makes, OneRecordPerHost
  <1>2. OneRecordPerHost'
    <2>1. CASE DOMAIN cf' = DOMAIN cf
      BY <1>0, <2>1 DEF UniqueInv, OneRecordPerHost, RecordsKept, SameRecord
    <2>2. CASE CreateAttempt
      <3>1. PICK n : Makes(n, ch.spec.zone, HostOf[cur], cur)
        BY <1>0, <2>2, CreateMakes
      <3>2. CFRejectsDuplicates
            \/ \A r \in DOMAIN cf :
                  cf[r].live /\ cf[r].zone = ch.spec.zone /\ cf[r].host = HostOf[cur]
                    => cf[r].by = None
        BY <2>2 DEF UniqueInv, NoTwinAhead, CreateAttempt
      <3> QED
        BY <1>1, <3>1, <3>2
    <2>3. CASE ExtCreate
      <3>1. PICK n : \E z \in Zones, h \in Hosts : Makes(n, z, h, None)
        BY <1>0, <2>3, ExtCreateMakes
      <3> QED
        BY <1>1, <3>1
    <2> QED
      BY <2>1, <2>2, <2>3, CFSteps
  <1>3. ASSUME ~CFRejectsDuplicates, pc' = "create",
               NEW r \in DOMAIN cf', cf'[r].live, cf'[r].zone = ch'.spec.zone,
               cf'[r].host = HostOf[cur']
        PROVE  cf'[r].by = None
    <2>1. CASE UNCHANGED <<pc, cur, ch>>
      <3>1. CASE r \in DOMAIN cf
        BY <1>0, <1>3, <2>1, <3>1 DEF UniqueInv, NoTwinAhead, RecordsKept, SameRecord
      <3>2. CASE r \notin DOMAIN cf
        <4>1. ~CreateAttempt
          BY <1>0, <1>3, CreateAgain DEF RetriesAreSafe
        <4>2. PICK n : \E z \in Zones, h \in Hosts : Makes(n, z, h, None)
          BY <1>0, <1>3, <3>2, <4>1, CFSteps, ExtCreateMakes
        <4> QED
          BY <1>3, <3>2, <4>2 DEF Makes
      <3> QED
        BY <3>1, <3>2
    <2>2. CASE CFCall /\ GoesOn
      <3>1. LookupMissing /\ ch' = WithStatus(ch, ch'.status) /\ cur' = cur
        BY <1>0, <1>3, <2>2 DEF GoesOn, CallResult, LookupMissing, Goto, TypeOK, Object,
                                WithStatus
      <3>2. ch'.spec = ch.spec /\ cf' = cf
        BY <1>3, <3>1, CFCallShape DEF IInv, LookupMissing
      <3>3. 0 \in FindByHostname(ch.spec.zone, HostOf[cur])
        BY <3>1 DEF LookupMissing
      <3> QED
        BY <1>0, <1>3, <3>1, <3>2, <3>3, FindNone
    <2>3. ASSUME NEW c \in CRs, Reconcile(c) PROVE FALSE
      BY <1>3, <2>3 DEF Reconcile, ReconcileGone, ReconcileRelease, ReconcileDelete,
                        ReconcileError, ReconcileAddFinalizer, ReconcileConflict,
                        ReconcileLookup, Begin, Takes, worker
    <2> QED
      BY <1>3, <2>1, <2>2, <2>3, Moves
  <1> QED
    BY <1>2, <1>3 DEF UniqueInv, NoTwinAhead

LEMMA UniqueInvariance == ASSUME RetriesAreSafe PROVE Spec => []UniqueInv
  <1>1. Init => UniqueInv
    BY DEF Init, UniqueInv, OneRecordPerHost, NoTwinAhead
  <1>2. IInv /\ UniqueInv /\ [Next]_vars => UniqueInv'
    BY UniqueNext
  <1> QED
    BY <1>1, <1>2, Invariance, PTL DEF Spec

\* The operator makes no two records of a hostname, neither for two CRs nor for
\* one that is deleted and made again, as long as a create is not repeated after
\* a lost reply that CF would not refuse: the only lookup that counts is that of
\* the one worker, and nothing it makes can come between its lookup and its create.
THEOREM OneRecordIsMade == ASSUME RetriesAreSafe PROVE Spec => []OneRecordPerHost
  <1>1. UniqueInv => OneRecordPerHost
    BY DEF UniqueInv
  <1> QED
    BY <1>1, UniqueInvariance, PTL


-----------------------------------------------------------------------------
(***************************************************************************)
(* The number of creates                                                   *)
(***************************************************************************)

MadeFor(c) == {r \in DOMAIN cf : cf[r].by = c}

\* A record made for a CR is one of its hostname.
OwnHosts == \A r \in DOMAIN cf : cf[r].by # None => cf[r].host = HostOf[cf[r].by]

\* Every create that a copy counts was made, and at most one of those is in use.
Counted(o, c) ==
    /\ o.status.creates <= Cardinality(MadeFor(c))
    /\ \A z \in Zones : o.status.creates <= Cardinality(Lost(c, z)) + 1

CopiesCounted == \A c \in CRs : \A o : IsCopy(o, c) /\ o # None => Counted(o, c)

\* When the lookup found nothing, every record that was made is lost.
CreateCounted ==
    pc = "create" => ch.status.creates <= Cardinality(Lost(cur, ch.spec.zone))

CountInv == OwnHosts /\ CopiesCounted /\ CreateCounted

LEMMA RecordSets ==
    ASSUME TypeOK, NEW S \in SUBSET DOMAIN cf
    PROVE  IsFiniteSet(S) /\ Cardinality(S) \in Nat
  <1>1. DOMAIN cf = 1..Len(cf) /\ Len(cf) \in Nat
    BY DEF TypeOK
  <1>2. IsFiniteSet(1..Len(cf))
    BY <1>1, FS_Interval
  <1>3. IsFiniteSet(S)
    BY <1>1, <1>2, FS_Subset
  <1> QED
    BY <1>3, FS_CardinalityType

LEMMA SetsGrow ==
    ASSUME TypeOK, TypeOK', RecordsKept(cf, cf'), NEW c, NEW z
    PROVE  /\ MadeFor(c) \subseteq MadeFor(c)' /\ Lost(c, z) \subseteq Lost(c, z)'
           /\ Cardinality(MadeFor(c)) \in Nat /\ Cardinality(MadeFor(c))' \in Nat
           /\ Cardinality(Lost(c, z)) \in Nat /\ Cardinality(Lost(c, z))' \in Nat
           /\ Cardinality(MadeFor(c)) <= Cardinality(MadeFor(c))'
           /\ Cardinality(Lost(c, z)) <= Cardinality(Lost(c, z))'
  <1>1. MadeFor(c) \subseteq MadeFor(c)' /\ Lost(c, z) \subseteq Lost(c, z)'
    BY DEF MadeFor, Lost, RecordsKept, SameRecord
  <1>2. /\ IsFiniteSet(MadeFor(c)) /\ Cardinality(MadeFor(c)) \in Nat
        /\ IsFiniteSet(Lost(c, z)) /\ Cardinality(Lost(c, z)) \in Nat
    BY RecordSets DEF MadeFor, Lost
  <1>3. /\ IsFiniteSet(MadeFor(c)') /\ Cardinality(MadeFor(c)') \in Nat
        /\ IsFiniteSet(Lost(c, z)') /\ Cardinality(Lost(c, z)') \in Nat
    <2>1. /\ DOMAIN cf' = 1..Len(cf') /\ Len(cf') \in Nat
      BY DEF TypeOK
    <2>2. IsFiniteSet(1..Len(cf'))
      BY <2>1, FS_Interval
    <2>3. MadeFor(c)' \subseteq DOMAIN cf' /\ Lost(c, z)' \subseteq DOMAIN cf'
      BY DEF MadeFor, Lost
    <2>4. IsFiniteSet(MadeFor(c)') /\ IsFiniteSet(Lost(c, z)')
      BY <2>1, <2>2, <2>3, FS_Subset
    <2> QED
      BY <2>4, FS_CardinalityType
  <1> QED
    BY <1>1, <1>2, <1>3, FS_Subset

\* The record n is one more for its CR, and for the other zones one that is lost.
LEMMA SetsAtCreate ==
    ASSUME TypeOK, TypeOK', RecordsKept(cf, cf'), NEW n, NEW z, NEW h, NEW c,
           Makes(n, z, h, c)
    PROVE  /\ Cardinality(MadeFor(c)) + 1 <= Cardinality(MadeFor(c))'
           /\ \A y \in Zones \ {z} : Cardinality(Lost(c, y)) + 1 <= Cardinality(Lost(c, y))'
  <1>1. MadeFor(c) \cup {n} \subseteq MadeFor(c)' /\ n \notin MadeFor(c)
    BY SetsGrow DEF Makes, MadeFor
  <1>2. ASSUME NEW y \in Zones \ {z}
        PROVE  Lost(c, y) \cup {n} \subseteq Lost(c, y)' /\ n \notin Lost(c, y)
    <2>1. Lost(c, y) \subseteq Lost(c, y)'
      BY SetsGrow
    <2>2. n \in Lost(c, y)'
      BY <1>2 DEF Makes, Lost
    <2>3. n \notin Lost(c, y)
      BY DEF Makes, Lost
    <2> QED
      BY <2>1, <2>2, <2>3
  <1>3. ASSUME NEW S, NEW T, S \cup {n} \subseteq T, n \notin S, IsFiniteSet(S), IsFiniteSet(T)
        PROVE  Cardinality(S) + 1 <= Cardinality(T)
    <2>1. IsFiniteSet(S \cup {n}) /\ Cardinality(S \cup {n}) = Cardinality(S) + 1
      BY <1>3, FS_AddElement
    <2>2. Cardinality(S \cup {n}) <= Cardinality(T)
      BY <1>3, FS_Subset
    <2> QED
      BY <2>1, <2>2
  <1>4. \A S : S \subseteq DOMAIN cf' => IsFiniteSet(S)
    <2>1. DOMAIN cf' = 1..Len(cf') /\ Len(cf') \in Nat
      BY DEF TypeOK
    <2>2. IsFiniteSet(DOMAIN cf')
      BY <2>1, FS_Interval
    <2> QED
      BY <2>2, FS_Subset
  <1>5. IsFiniteSet(MadeFor(c)) /\ IsFiniteSet(MadeFor(c)')
    BY <1>4, RecordSets DEF MadeFor
  <1>6. \A y : IsFiniteSet(Lost(c, y)) /\ IsFiniteSet(Lost(c, y)')
    BY <1>4, RecordSets DEF Lost
  <1>7. Cardinality(MadeFor(c)) + 1 <= Cardinality(MadeFor(c)')
    BY <1>1, <1>3, <1>5
  <1>8. ASSUME NEW y \in Zones \ {z}
        PROVE  Cardinality(Lost(c, y)) + 1 <= Cardinality(Lost(c, y)')
    BY <1>2, <1>3, <1>6, <1>8
  <1> QED
    BY <1>7, <1>8

LEMMA CopyType ==
    ASSUME TypeOK, NEW c \in CRs, NEW o, IsCopy(o, c), o # None
    PROVE  o \in Object /\ o.status.creates \in Nat
  <1>1. watch \in Seq(Event)
    BY DEF TypeOK, Event
  <1>2. \A i \in DOMAIN watch : watch[i].obj \in Object \cup {None}
    <2>1. \A i \in DOMAIN watch : watch[i] \in Event
      BY <1>1
    <2> QED
      BY <2>1 DEF Event
  <1>3. o \in Object
    BY <1>2 DEF IsCopy, TypeOK
  <1> QED
    BY <1>3, ObjectFields DEF Status

LEMMA OwnHostsNext ==
    ASSUME IInv, OwnHosts, [Next]_vars
    PROVE  OwnHosts'
  <1>0. TypeOK /\ RecordsKept(cf, cf')
    BY CFSteps DEF IInv
  <1>1. CASE DOMAIN cf' = DOMAIN cf
    BY <1>0, <1>1 DEF OwnHosts, RecordsKept, SameRecord
  <1>2. CASE CreateAttempt
    <2>1. PICK n : Makes(n, ch.spec.zone, HostOf[cur], cur)
      BY <1>0, <1>2, CreateMakes
    <2> QED
      BY <1>0, <2>1 DEF OwnHosts, RecordsKept, SameRecord, Makes
  <1>3. CASE ExtCreate
    <2>1. PICK n : \E z \in Zones, h \in Hosts : Makes(n, z, h, None)
      BY <1>0, <1>3, ExtCreateMakes
    <2> QED
      BY <1>0, <2>1 DEF OwnHosts, RecordsKept, SameRecord, Makes
  <1> QED
    BY <1>1, <1>2, <1>3, CFSteps

LEMMA CopiesCountedNext ==
    ASSUME IInv, CountInv, [Next]_vars
    PROVE  CopiesCounted'
  <1>0. TypeOK /\ TypeOK' /\ RecordsKept(cf, cf')
    BY CFSteps, IInvNext DEF IInv
  <1> SUFFICES ASSUME NEW c \in CRs, NEW o, IsCopy(o, c)', o # None
               PROVE  Counted(o, c)'
    BY DEF CopiesCounted
  <1>1. ASSUME NEW n \in Nat, n <= Cardinality(MadeFor(c)),
               \A z \in Zones : n <= Cardinality(Lost(c, z)) + 1
        PROVE  /\ n <= Cardinality(MadeFor(c))'
               /\ \A z \in Zones : n <= Cardinality(Lost(c, z))' + 1
    <2>1. ASSUME NEW z \in Zones PROVE n <= Cardinality(Lost(c, z))' + 1
      BY <1>0, <1>1, <2>1, SetsGrow
    <2> QED
      BY <1>0, <1>1, <2>1, SetsGrow
  <1>2. CASE \E p : IsCopy(p, c) /\ Inherits(o, p, c)
    <2>1. PICK p : IsCopy(p, c) /\ Inherits(o, p, c)
      BY <1>2
    <2>2. /\ p # None /\ o.status.creates = p.status.creates
          /\ p.status.creates \in Nat /\ Counted(p, c)
      BY <1>0, <2>1, CopyType DEF Inherits, CountInv, CopiesCounted
    <2> QED
      BY <1>1, <2>2 DEF Counted
  <1>3. CASE o.status.creates = 0
    <2>1. /\ 0 <= Cardinality(MadeFor(c))
          /\ \A z \in Zones : 0 <= Cardinality(Lost(c, z)) + 1
      BY <1>0, SetsGrow
    <2> QED
      BY <1>1, <1>3, <2>1 DEF Counted
  <1>4. CASE CountsCreate(o, c)
    <2> DEFINE m == ch.status.creates
    <2>1. CreateAttempt /\ pc = "create" /\ c = cur /\ o.status.creates = m + 1
      BY <1>4 DEF CountsCreate, CreateAttempt
    <2>2. IsCopy(ch, c) /\ ch # None /\ m \in Nat
      BY <1>0, <2>1, ObjectFields DEF IsCopy, TypeOK, Status
    <2>3. Counted(ch, c) /\ m <= Cardinality(Lost(c, ch.spec.zone))
      BY <2>1, <2>2 DEF CountInv, CopiesCounted, CreateCounted
    <2>4. PICK n : Makes(n, ch.spec.zone, HostOf[cur], c)
      BY <1>0, <2>1, CreateMakes
    <2>5. m + 1 <= Cardinality(MadeFor(c))'
      BY <1>0, <2>2, <2>3, <2>4, SetsAtCreate, SetsGrow DEF Counted
    <2>6. ASSUME NEW z \in Zones PROVE m + 1 <= Cardinality(Lost(c, z))' + 1
      <3>1. CASE z = ch.spec.zone
        BY <1>0, <2>2, <2>3, <3>1, SetsGrow
      <3>2. CASE z # ch.spec.zone
        BY <1>0, <2>2, <2>3, <2>4, <3>2, SetsAtCreate, SetsGrow DEF Counted
      <3> QED
        BY <3>1, <3>2
    <2> QED
      BY <2>1, <2>5, <2>6 DEF Counted
  <1> QED
    BY <1>2, <1>3, <1>4, Flow DEF ComesFrom

LEMMA CreateCountedNext ==
    ASSUME IInv, CountInv, [Next]_vars
    PROVE  CreateCounted'
  <1>0. TypeOK /\ TypeOK' /\ RecordsKept(cf, cf')
    BY CFSteps, IInvNext DEF IInv
  <1> SUFFICES ASSUME pc' = "create"
               PROVE  ch'.status.creates <= Cardinality(Lost(cur, ch.spec.zone))'
    BY DEF CreateCounted
  <1>1. CASE UNCHANGED <<pc, cur, ch>>
    <2>1. ch.status.creates <= Cardinality(Lost(cur, ch.spec.zone))
      BY <1>1 DEF CountInv, CreateCounted
    <2>2. ch.status.creates \in Nat
      BY <1>0, <1>1, ObjectFields DEF TypeOK, Status
    <2>3. ASSUME NEW c, c = cur, NEW z, z = ch.spec.zone
          PROVE  Cardinality(Lost(c, z)) <= Cardinality(Lost(c, z))'
      BY <1>0, SetsGrow
    <2> QED
      BY <1>0, <1>1, <2>1, <2>2, <2>3, SetsGrow
  <1>2. CASE CFCall /\ GoesOn
    <2>1. LookupMissing /\ ch' = WithStatus(ch, ch.status) /\ cur' = cur
      BY <1>2 DEF GoesOn, CallResult
    <2>2. pc # "idle" /\ cf' = cf
      BY <2>1 DEF LookupMissing
    <2>3. ch \in Object /\ ch # None /\ cur \in CRs /\ IsCopy(ch, cur)
      BY <1>0, <2>2, ObjectFields DEF TypeOK, IsCopy
    <2>4. ch'.status = ch.status /\ ch'.spec = ch.spec
      BY <2>1, <2>3, ObjectFields, WithStatusType
    <2>5. ch.status.creates <= Cardinality(MadeFor(cur))
      BY <2>3 DEF CountInv, CopiesCounted, Counted
    <2>6. MadeFor(cur) = Lost(cur, ch.spec.zone)
      <3>1. 0 \in FindByHostname(ch.spec.zone, HostOf[cur])
        BY <2>1 DEF LookupMissing
      <3>2. cur # None
        BY <2>3, NoneAssumption
      <3>3. ASSUME NEW r \in MadeFor(cur)
            PROVE  ~(cf[r].live /\ cf[r].zone = ch.spec.zone)
        BY <1>0, <3>1, <3>2, FindNone DEF MadeFor, CountInv, OwnHosts
      <3> QED
        BY <3>3 DEF MadeFor, Lost
    <2>7. Lost(cur, ch.spec.zone)' = Lost(cur, ch.spec.zone)
      BY <2>1, <2>2, <2>4 DEF Lost
    <2> QED
      BY <2>4, <2>5, <2>6, <2>7
  <1>3. ASSUME NEW c \in CRs, Reconcile(c) PROVE FALSE
    BY <1>3 DEF Reconcile, ReconcileGone, ReconcileRelease, ReconcileDelete,
                ReconcileError, ReconcileAddFinalizer, ReconcileConflict,
                ReconcileLookup, Begin, Takes, worker
  <1> QED
    BY <1>1, <1>2, <1>3, Moves

LEMMA CountInvariance == Spec => []CountInv
  <1>1. Init => CountInv
    <2> SUFFICES ASSUME Init PROVE CountInv
      OBVIOUS
    <2>1. OwnHosts /\ CreateCounted
      BY DEF Init, OwnHosts, CreateCounted
    <2>2. \A c \in CRs : \A o : IsCopy(o, c) => o = None
      BY DEF Init, IsCopy
    <2> QED
      BY <2>1, <2>2 DEF CountInv, CopiesCounted
  <1>2. IInv /\ CountInv /\ [Next]_vars => CountInv'
    BY OwnHostsNext, CopiesCountedNext, CreateCountedNext DEF CountInv
  <1> QED
    BY <1>1, <1>2, Invariance, PTL DEF Spec

\* Whatever is outdated, retried, lost or restarted: of the creates that a CR
\* counts, all but one were of records that are gone, or that its zoneRef left.
THEOREM RecreatesReplaceLosses == Spec => []RecreateOnlyAfterLoss
  <1>1. IInv /\ CountInv => RecreateOnlyAfterLoss
    <2> SUFFICES ASSUME IInv, CountInv, NEW c \in CRs, api[c] # None
                 PROVE  Cardinality(Lost(c, api[c].spec.zone)) + 1 >= api[c].status.creates
      BY DEF RecreateOnlyAfterLoss
    <2>1. api[c] \in Object /\ api[c].status.creates \in Nat /\ Counted(api[c], c)
      BY CopyType DEF IInv, IsCopy, CountInv, CopiesCounted
    <2>2. api[c].spec.zone \in Zones
      BY <2>1, ObjectFields, ConfigAssumption DEF AnySpec
    <2>3. Cardinality(Lost(c, api[c].spec.zone)) \in Nat
      BY RecordSets DEF IInv, Lost
    <2> QED
      BY <2>1, <2>2, <2>3 DEF Counted
  <1> QED
    BY <1>1, CountInvariance, Invariance, PTL


-----------------------------------------------------------------------------
(***************************************************************************)
(* Policies                                                                *)
(***************************************************************************)

OwnOnly(o) == EffectiveDeletePolicy(o.spec) = "own-only"

\* The policies that the worker's copy names allow the call it is at.
PolicyInv ==
    /\ pc = "create" => EffectiveManagementPolicy(ch.spec) # "observe" /\ ~dryRun
    /\ pc = "edit" => MayEdit(ch.spec)
    /\ pc \in {"predelete", "delete"} => ~ReleasedWithoutCF(ch) /\ ~dryRun
    /\ pc = "predelete" => OwnOnly(ch)

\* The first step of a reconcile, and the copy it leaves the worker with.
LEMMA Begins ==
    ASSUME NEW c \in CRs, Reconcile(c), pc' # "idle"
    PROVE  /\ cur' = c /\ fresh' = ~Pending(c)
           /\ \/ pc' \in {"finalizer", "lookup"} /\ ch' = cache[c] /\ ~ch'.term
              \/ pc' = "status"
              \/ /\ pc' = "release" /\ ch' = cache[c]
                 /\ ReleasedWithoutCF(ch') \/ dryRun
              \/ /\ pc' = "delete" /\ ch' = cache[c]
                 /\ ~ReleasedWithoutCF(ch') /\ ~dryRun
              \/ /\ pc' = "predelete" /\ ch' = cache[c]
                 /\ ~ReleasedWithoutCF(ch') /\ ~dryRun /\ OwnOnly(ch')
  <1>1. CASE ReconcileGone(c)
    BY <1>1 DEF ReconcileGone, Takes, worker
  <1>2. CASE ReconcileRelease(c)
    BY <1>2 DEF ReconcileRelease, Begin
  <1>3. CASE ReconcileDelete(c)
    BY <1>3 DEF ReconcileDelete, Begin, OwnOnly
  <1>4. CASE ReconcileError(c) \/ ReconcileConflict(c)
    BY <1>4 DEF ReconcileError, ReconcileConflict, Begin
  <1>5. CASE ReconcileAddFinalizer(c) \/ ReconcileLookup(c)
    BY <1>5 DEF ReconcileAddFinalizer, ReconcileLookup, Managed, Alive, Begin
  <1> QED
    BY <1>1, <1>2, <1>3, <1>4, <1>5 DEF Reconcile

\* A call leaves spec and status as the next call needs them.
LEMMA CallCopy ==
    ASSUME IInv, CFCall, pc # "idle", NEW s \in Status, ch' = WithStatus(ch, s)
    PROVE  ch'.spec = ch.spec /\ ch'.status = s /\ ch'.term = ch.term /\ ch'.fin = ch.fin
  BY WithStatusType DEF IInv, TypeOK

LEMMA CFCallBusy == CFCall => pc # "idle"
  BY DEF CFCall, CFCalls, LookupMissing, LookupFound, CreateAttempt, EditAttempt,
         Predelete, DeleteAttempt, DeleteNotFound, CallFails

LEMMA PolicyNext ==
    ASSUME IInv, PolicyInv, [Next]_vars
    PROVE  PolicyInv'
  <1>1. CASE UNCHANGED <<pc, cur, ch, dryRun>>
    BY <1>1 DEF PolicyInv, MayEdit, ReleasedWithoutCF, OwnOnly
  <1>2. CASE CFCall /\ GoesOn /\ UNCHANGED dryRun
    <2>1. PICK s \in Status : ch' = WithStatus(ch, s) /\ CallResult(s)
      BY <1>2 DEF GoesOn
    <2>2. ch'.spec = ch.spec /\ ch'.status = s
      BY <1>2, <2>1, CallCopy, CFCallBusy
    <2> QED
      BY <1>2, <2>1, <2>2
         DEF PolicyInv, CallResult, MayEdit, ReleasedWithoutCF, OwnOnly
  <1>3. ASSUME NEW c \in CRs, Reconcile(c), UNCHANGED dryRun, pc' # "idle" PROVE PolicyInv'
    BY <1>3, Begins DEF PolicyInv, ReleasedWithoutCF, OwnOnly
  <1>4. CASE pc' = "idle"
    BY <1>4 DEF PolicyInv
  <1> QED
    BY <1>1, <1>2, <1>3, <1>4, Moves

LEMMA PolicyInvariance == Spec => []PolicyInv
  <1>1. Init => PolicyInv
    BY DEF Init, PolicyInv
  <1>2. IInv /\ PolicyInv /\ [Next]_vars => PolicyInv'
    BY PolicyNext
  <1> QED
    BY <1>1, <1>2, Invariance, PTL DEF Spec

\* Every write to CF is one that the spec the worker read allows; that spec is the
\* one in force unless the CR was written to meanwhile; none is made in dry-run.
THEOREM PoliciesAreRespected == Spec => PolicyRespected
  <1>1. IInv /\ PolicyInv /\ [Next]_vars =>
          [WorkerStep /\ cf' # cf =>
             LET mgmt == EffectiveManagementPolicy(ch.spec)
             IN  /\ ~dryRun
                 /\ mgmt # "observe"
                 /\ pc = "edit" => mgmt = "manage"
                 /\ pc = "delete" => EffectiveDeletePolicy(ch.spec) # "never"
                 /\ fresh => api[cur].spec = ch.spec]_vars
    <2> SUFFICES ASSUME IInv, PolicyInv, WorkerStep, cf' # cf
                 PROVE  /\ ~dryRun
                        /\ EffectiveManagementPolicy(ch.spec) # "observe"
                        /\ pc = "edit" => EffectiveManagementPolicy(ch.spec) = "manage"
                        /\ pc = "delete" => EffectiveDeletePolicy(ch.spec) # "never"
                        /\ fresh => api[cur].spec = ch.spec
      OBVIOUS
    <2>1. CreateAttempt \/ EditAttempt \/ DeleteAttempt
      BY DEF WorkerStep, LookupMissing, LookupFound, Predelete, DeleteNotFound, CallFails,
             AddFinalizer, Release, PersistStatus, WriteFails
    <2>2. pc \in {"create", "edit", "delete"}
      BY <2>1 DEF CreateAttempt, EditAttempt, DeleteAttempt
    <2>3. fresh => ch.spec = api[cur].spec
      BY DEF IInv, FreshInv
    <2> QED
      BY <2>2, <2>3 DEF PolicyInv, MayEdit, ReleasedWithoutCF
  <1> QED
    BY <1>1, PolicyInvariance, Invariance, PTL DEF Spec, PolicyRespected

-----------------------------------------------------------------------------
(***************************************************************************)
(* The error counter                                                       *)
(***************************************************************************)

\* Of the copy that the API server would accept: its error counter is still the
\* stored one, until the worker has the status it will write.
ErrInv ==
    fresh => IF pc = "status" THEN ErrorStep(api[cur].status, ch.status)
             ELSE ch.status.errs = api[cur].status.errs

LEMMA ReconcileKeepsErrors ==
    ASSUME IInv, NEW c \in CRs, Reconcile(c), pc' # "idle"
    PROVE  /\ cur' = c /\ fresh' = ~Pending(c)
           /\ IF pc' = "status" THEN ErrorStep(cache[c].status, ch'.status)
              ELSE ch'.status = cache[c].status
  <1>1. CASE ReconcileGone(c)
    BY <1>1 DEF ReconcileGone, Takes, worker
  <1>2. CASE ReconcileRelease(c) \/ ReconcileDelete(c) \/ ReconcileAddFinalizer(c)
             \/ ReconcileLookup(c)
    BY <1>2 DEF ReconcileRelease, ReconcileDelete, ReconcileAddFinalizer, ReconcileLookup,
                Begin
  <1>3. CASE ReconcileError(c) \/ ReconcileConflict(c)
    <2> DEFINE s == cache[c].status
    <2>1. /\ pc' = "status" /\ cur' = c /\ fresh' = ~Pending(c) /\ cache[c] # None
          /\ \/ ch' = WithStatus(cache[c], SetError(s))
             \/ ch' = WithStatus(cache[c], SetConflict(s))
      BY <1>3 DEF ReconcileError, ReconcileConflict, Managed, Alive, Begin
    <2>2. cache[c] \in Object /\ s \in Status
      BY <2>1, CachedType, ObjectFields DEF IInv
    <2>3. /\ SetError(s) \in Status /\ SetConflict(s) \in Status
          /\ ErrorStep(s, SetError(s)) /\ ErrorStep(s, SetConflict(s))
      BY <2>2, StatusTypes, CallErrors
    <2> QED
      BY <2>1, <2>2, <2>3, WithStatusType
  <1> QED
    BY <1>1, <1>2, <1>3 DEF Reconcile

LEMMA ErrNext ==
    ASSUME IInv, ErrInv, [Next]_vars
    PROVE  ErrInv'
  <1>1. CASE pc' = "idle"
    BY <1>1, IInvNext DEF IInv, TypeOK, ErrInv
  <1>2. CASE UNCHANGED <<pc, cur, ch, dryRun>> /\ (fresh' => fresh /\ api'[cur] = api[cur])
    BY <1>2 DEF ErrInv
  <1>3. CASE CFCall /\ GoesOn /\ UNCHANGED <<api, fresh>>
    <2>1. PICK s \in Status : /\ ch' = WithStatus(ch, s) /\ cur' = cur
                              /\ IF pc' = "status" THEN ErrorStep(ch.status, s)
                                 ELSE s.errs = ch.status.errs
      BY <1>3 DEF GoesOn
    <2>2. ch'.status = s
      BY <1>3, <2>1, CallCopy, CFCallBusy
    <2>3. pc # "status"
      BY <1>3 DEF CFCall, CFCalls, LookupMissing, LookupFound, CreateAttempt, EditAttempt,
                  Predelete, DeleteAttempt, DeleteNotFound, CallFails
    <2> QED
      BY <1>3, <2>1, <2>2, <2>3 DEF ErrInv, ErrorStep
  <1>4. ASSUME NEW c \in CRs, Reconcile(c), UNCHANGED api, pc' # "idle" PROVE ErrInv'
    <2>1. fresh' => cache[c] = api'[cur']
      BY <1>4, ReconcileKeepsErrors DEF IInv, SyncInv
    <2> QED
      BY <1>4, <2>1, ReconcileKeepsErrors DEF ErrInv
  <1> QED
    BY <1>1, <1>2, <1>3, <1>4, Moves

LEMMA ErrInvariance == Spec => []ErrInv
  <1>1. Init => ErrInv
    BY DEF Init, ErrInv
  <1> QED
    BY <1>1, ErrNext, Invariance, PTL DEF Spec

\* Of the worker's writes only the status carries the counter.
LEMMA WriteKeepsErrors ==
    ASSUME IInv, ErrInv, WorkerStep, NEW c \in CRs, api[c] # None, api'[c] # None
    PROVE  ErrorStep(api[c].status, api'[c].status)
  <1>0. TypeOK
    BY DEF IInv
  <1>1. CASE api'[c] = api[c]
    BY <1>1 DEF ErrorStep
  <1>2. CASE api'[c] # api[c]
    <2>1. cur = c /\ pc # "release"
      BY <1>2, WorkerWrites
    <2>2. AddFinalizer \/ PersistStatus
      BY <1>2, <2>1, CFCallShape DEF IInv, WorkerStep, WriteFails, Release
    <2>3. fresh /\ ch \in Object /\ api[c] \in Object
      BY <1>0, <2>1, <2>2 DEF AddFinalizer, PersistStatus, TypeOK
    <2>4. CASE AddFinalizer
      <3> DEFINE obj == [ch EXCEPT !.fin = TRUE, !.status = api[cur].status]
      <3>1. obj.status = api[c].status
        BY <2>1, <2>3 DEF Object
      <3>2. api' = [api EXCEPT ![cur] = obj]
        BY <2>4 DEF AddFinalizer, Put
      <3> HIDE DEF obj
      <3>3. api'[c] = obj
        BY <1>0, <2>1, <3>2 DEF TypeOK
      <3> QED
        BY <3>1, <3>3 DEF ErrorStep
    <2>5. CASE PersistStatus
      <3> DEFINE obj == WithStatus(api[cur], ch.status)
      <3>1. obj.status = ch.status
        BY <2>1, <2>3, ObjectFields, WithStatusType
      <3>2. api' = [api EXCEPT ![cur] = obj] /\ pc = "status"
        BY <1>2, <2>5 DEF PersistStatus, Put
      <3> HIDE DEF obj
      <3>3. api'[c] = obj
        BY <1>0, <2>1, <3>2 DEF TypeOK
      <3> QED
        BY <2>1, <2>3, <3>1, <3>2, <3>3 DEF ErrInv
    <2> QED
      BY <2>2, <2>4, <2>5
  <1> QED
    BY <1>1, <1>2

LEMMA UserKeepsErrors ==
    ASSUME IInv, NEW d \in CRs, User(d), NEW c \in CRs, api[c] # None, api'[c] # None
    PROVE  ErrorStep(api[c].status, api'[c].status)
  <1>1. PICK obj \in Object \cup {None} :
          /\ PutByOther(d, obj)
          /\ api[d] # None /\ obj # None => obj.status = api[d].status
    BY UserPut DEF IInv
  <1>2. api'[c] = IF c = d THEN obj ELSE api[c]
    BY <1>1 DEF PutByOther, Put, IInv, TypeOK
  <1> QED
    BY <1>1, <1>2 DEF ErrorStep

\* Only a reconcile that fails starts the count of errors that the drift cycle goes
\* by, and only one that succeeds ends it (setError, requeueOrReady,
\* setWaitingForExternal): no conflict, dry-run, stale copy or restart does.
THEOREM ErrorsAreKept == Spec => ErrorsOutlastDetours
  <1>1. IInv /\ ErrInv /\ [Next]_vars =>
          [\A c \in CRs : api[c] # None /\ api'[c] # None
                            => ErrorStep(api[c].status, api'[c].status)]_vars
    <2> SUFFICES ASSUME IInv, ErrInv, [Next]_vars,
                        NEW c \in CRs, api[c] # None, api'[c] # None
                 PROVE  ErrorStep(api[c].status, api'[c].status)
      OBVIOUS
    <2>1. CASE UNCHANGED api
      BY <2>1 DEF ErrorStep
    <2>2. CASE WorkerStep
      BY <2>2, WriteKeepsErrors
    <2>3. ASSUME NEW d \in CRs, User(d) PROVE ErrorStep(api[c].status, api'[c].status)
      BY <2>3, UserKeepsErrors
    <2>4. ASSUME NEW d \in CRs, Reconcile(d) \/ DriftEvent(d) PROVE UNCHANGED api
      BY <2>4 DEF Reconcile, ReconcileGone, ReconcileRelease, ReconcileDelete,
                  ReconcileError, ReconcileAddFinalizer, ReconcileConflict,
                  ReconcileLookup, Begin, DriftEvent
    <2>5. ASSUME NEW z \in Zones, ZoneChanges(z) PROVE UNCHANGED api
      BY <2>5 DEF ZoneChanges
    <2>6. Deliver \/ External \/ Restart \/ UNCHANGED vars => UNCHANGED api
      BY DEF Deliver, External, ExtCreate, ExtEdit, ExtDelete, SSLChanges, OnlyCF,
             Restart, vars
    <2> QED
      BY <2>1, <2>2, <2>3, <2>4, <2>5, <2>6 DEF Next
  <1> QED
    BY <1>1, ErrInvariance, Invariance, PTL DEF Spec, ErrorsOutlastDetours


-----------------------------------------------------------------------------
(***************************************************************************)
(* The end of a CR                                                         *)
(***************************************************************************)

\* The CR, as the copy o shows it, may be let go: a policy keeps the record, or
\* CF has no such record in its zone.  Under own-only a second record of the
\* hostname, if CF has one, may hide the CR's own from the lookup.
LetGo(o) ==
    \/ ReleasedWithoutCF(o)
    \/ dryRun
    \/ ~InZone(o.status.id, o.spec.zone)
    \/ OwnOnly(o) /\ ~CFRejectsDuplicates

\* Towards the release, what the worker knows is what the API server holds, and at
\* the release the CR may be let go.
EndInv ==
    /\ pc = "release" => LetGo(ch)
    /\ fresh /\ pc \in {"predelete", "delete", "release"} => ch.status = api[cur].status

\* Under CFRejectsDuplicates a hostname has one record.
CFUnique == CFRejectsDuplicates => UniqueInv

\* A terminating copy is no older than the deletion that is under way, or the CR it
\* shows may be let go.
Timely(o, c) ==
    \/ api[c] # None /\ api[c].term /\ api[c].status = o.status
    \/ LetGo(o)

LateInv == \A c \in CRs : \A o : IsCopy(o, c) /\ o # None /\ o.term => Timely(o, c)

DeleteInv == PolicyInv /\ CFUnique /\ EndInv /\ LateInv

\* A record that is gone from its zone stays gone.
LEMMA LetGoKept ==
    ASSUME RecordsKept(cf, cf'), dryRun' = dryRun, NEW o, NEW c, o # None, Good(cf, o, c),
           LetGo(o)
    PROVE  LetGo(o)'
  <1>1. CASE o.status.id = 0
    BY <1>1 DEF LetGo, ReleasedWithoutCF
  <1>2. CASE o.status.id # 0
    <2>1. o.status.id \in DOMAIN cf
      BY <1>2 DEF Good, GoodStatus, Refers
    <2>2. ~InZone(o.status.id, o.spec.zone) => ~InZone(o.status.id, o.spec.zone)'
      BY <2>1 DEF InZone, RecordsKept, SameRecord
    <2> QED
      BY <2>2 DEF LetGo, ReleasedWithoutCF, OwnOnly
  <1> QED
    BY <1>1, <1>2

LEMMA SameLetGo ==
    ASSUME NEW o, NEW p, p.spec = o.spec, p.status = o.status
    PROVE  LetGo(p) <=> LetGo(o)
  BY DEF LetGo, ReleasedWithoutCF, OwnOnly

LEMMA CopiesAreGood ==
    ASSUME CopyInv, NEW c \in CRs, NEW o, IsCopy(o, c)
    PROVE  Good(cf, o, c)
  BY DEF CopyInv, APIGood, CacheGood, WatchGood, CopyGood, IsCopy

\* The three ways from CF to the release leave no record in the zone, unless the
\* lookup under own-only was misled.
LEMMA ReleaseAfterCall ==
    ASSUME IInv, CopyInv, PolicyInv, CFUnique, Predelete \/ DeleteAttempt \/ DeleteNotFound,
           pc' = "release", ch'.spec = ch.spec, ch'.status = ch.status
    PROVE  LetGo(ch)'
  <1> DEFINE id == ch.status.id
             z == ch.spec.zone
  <1>0. TypeOK /\ pc # "idle"
    BY DEF IInv, Predelete, DeleteAttempt, DeleteNotFound
  <1>1. CASE Predelete
    <2>1. OwnOnly(ch) /\ cf' = cf /\ pc = "predelete"
      BY <1>1 DEF Predelete, PolicyInv
    <2>2. CASE ~CFRejectsDuplicates
      BY <2>1, <2>2 DEF LetGo, OwnOnly
    <2>3. CASE CFRejectsDuplicates
      <3>1. PICK r \in FindByHostname(z, HostOf[cur]) : r # id
        BY <1>1 DEF Predelete, Goto, ShouldDeleteInCF
      <3>2. r # 0 => /\ r \in DOMAIN cf /\ cf[r].live
                     /\ cf[r].zone = z /\ cf[r].host = HostOf[cur]
        BY <1>0, FindType
      <3>3. ~InZone(id, z)
        <4> SUFFICES ASSUME InZone(id, z) PROVE FALSE
          OBVIOUS
        <4>1. id \in DOMAIN cf /\ cf[id].live /\ cf[id].zone = z /\ id # 0
          BY <1>0 DEF InZone, TypeOK
        <4>2. cf[id].host = HostOf[cur]
          BY <1>0, <4>1, CallStatus DEF GoodStatus, Refers
        <4>3. r # 0
          BY <1>0, <4>1, <4>2, FindNone, <3>1
        <4>4. r = id
          BY <2>3, <3>2, <4>1, <4>2, <4>3 DEF CFUnique, UniqueInv, OneRecordPerHost
        <4> QED
          BY <3>1, <4>4
      <3>4. ~InZone(id, z)'
        BY <2>1, <3>3 DEF InZone
      <3> QED
        BY <3>4 DEF LetGo
    <2> QED
      BY <2>2, <2>3
  <1>2. CASE DeleteAttempt
    <2>1. id \in DOMAIN cf /\ cf' = [cf EXCEPT ![id] = [cf[id] EXCEPT !.live = FALSE]]
      BY <1>0, <1>2 DEF DeleteAttempt, InZone, TypeOK
    <2>2. cf[id] \in Record
      BY <1>0, <2>1 DEF TypeOK
    <2>3. ~cf'[id].live
      BY <1>0, <2>1, <2>2 DEF TypeOK, Record
    <2> QED
      BY <2>3 DEF LetGo, InZone
  <1>3. CASE DeleteNotFound
    BY <1>3 DEF DeleteNotFound, LetGo, InZone
  <1> QED
    BY <1>1, <1>2, <1>3

LEMMA EndNext ==
    ASSUME IInv, CopyInv, PolicyInv, CFUnique, EndInv, [Next]_vars
    PROVE  EndInv'
  <1>0. TypeOK /\ RecordsKept(cf, cf')
    BY CFSteps DEF IInv
  <1>1. CASE /\ UNCHANGED <<pc, cur, ch, dryRun>>
             /\ fresh' => fresh /\ api'[cur] = api[cur]
    <2>1. ASSUME pc = "release" PROVE LetGo(ch)'
      <3>1. ch # None /\ Good(cf, ch, cur) /\ LetGo(ch)
        BY <1>0, <2>1, ObjectFields DEF TypeOK, CopyInv, CopyGood, EndInv
      <3>2. PICK o : o = ch
        OBVIOUS
      <3>3. LetGo(o)'
        BY <1>0, <1>1, <3>1, <3>2, LetGoKept
      <3> QED
        BY <1>1, <3>2, <3>3 DEF LetGo, ReleasedWithoutCF, OwnOnly, InZone
    <2> QED
      BY <1>1, <2>1 DEF EndInv
  <1>2. CASE CFCall /\ GoesOn /\ UNCHANGED <<api, fresh, dryRun>>
    <2>1. PICK s \in Status : ch' = WithStatus(ch, s) /\ CallResult(s) /\ cur' = cur
      BY <1>2 DEF GoesOn
    <2>2. ch'.spec = ch.spec /\ ch'.status = s
      BY <1>2, <2>1, CallCopy, CFCallBusy
    <2>3. ASSUME pc' = "release" PROVE LetGo(ch)'
      BY <2>1, <2>2, <2>3, ReleaseAfterCall DEF CallResult
    <2>4. ASSUME fresh', pc' \in {"predelete", "delete", "release"}
          PROVE  ch'.status = api[cur].status
      BY <1>2, <2>1, <2>2, <2>4
         DEF CallResult, EndInv, Predelete, DeleteAttempt, DeleteNotFound
    <2> QED
      BY <1>2, <2>1, <2>3, <2>4 DEF EndInv
  <1>3. ASSUME NEW c \in CRs, Reconcile(c), UNCHANGED <<api, dryRun, cf>>, pc' # "idle"
        PROVE  EndInv'
    <2>1. fresh' => cache[c] = api[c]
      BY <1>3, Begins DEF IInv, SyncInv
    <2> QED
      BY <1>3, <2>1, Begins DEF EndInv, LetGo, ReleasedWithoutCF
  <1>4. CASE pc' = "idle"
    BY <1>4 DEF EndInv
  <1> QED
    BY <1>1, <1>2, <1>3, <1>4, Moves

LEMMA LateNext ==
    ASSUME IInv, CopyInv, DeleteInv, [Next]_vars
    PROVE  LateInv'
  <1>0. TypeOK /\ RecordsKept(cf, cf')
    BY CFSteps DEF IInv
  <1> SUFFICES ASSUME NEW c \in CRs, NEW o, IsCopy(o, c)', o # None, o.term
               PROVE  Timely(o, c)'
    BY DEF LateInv
  <1>1. CASE o = api'[c]
    BY <1>1 DEF Timely
  <1>2. CASE Restart
    BY <1>1, <1>2 DEF Restart, IsCopy
  <1>3. CASE o # api'[c] /\ ~Restart
    <2>1. PICK p : /\ IsCopy(p, c) /\ p # None
                   /\ p.term /\ p.spec = o.spec /\ p.status = o.status
      BY <1>3, Flow DEF ComesFrom, Inherits, CountsCreate
    <2>2. Timely(p, c) /\ Good(cf, p, c)
      BY <2>1, CopiesAreGood DEF DeleteInv, LateInv
    <2>3. dryRun' = dryRun
      <3>1. ASSUME NEW d \in CRs, Reconcile(d) \/ User(d) \/ DriftEvent(d)
            PROVE  dryRun' = dryRun
        BY <3>1 DEF Reconcile, ReconcileGone, ReconcileRelease, ReconcileDelete,
                    ReconcileError, ReconcileAddFinalizer, ReconcileConflict,
                    ReconcileLookup, Begin, User, CreateCR, EditSpec, DeleteCR, PutByOther,
                    DriftEvent
      <3>2. CASE WorkerStep
        BY <3>2 DEF WorkerStep, LookupMissing, LookupFound, CreateAttempt, EditAttempt,
                    Predelete, DeleteAttempt, DeleteNotFound, CallFails, FailedAttempt,
                    GiveUp, Retry, Settle, Goto, AddFinalizer, Release, PersistStatus,
                    WriteFails
      <3>3. CASE Deliver \/ External \/ UNCHANGED vars
        BY <3>3 DEF Deliver, External, ExtCreate, ExtEdit, ExtDelete, SSLChanges, OnlyCF,
                    vars
      <3>4. ASSUME NEW z \in Zones, ZoneChanges(z) PROVE dryRun' = dryRun
        BY <3>4 DEF ZoneChanges
      <3> QED
        BY <1>3, <3>1, <3>2, <3>3, <3>4 DEF Next
    <2>4. LetGo(p) => Timely(o, c)'
      <3>1. LetGo(p) => LetGo(p)'
        BY <1>0, <2>1, <2>2, <2>3, LetGoKept
      <3>2. LetGo(p)' => LetGo(o)'
        BY <2>1 DEF LetGo, ReleasedWithoutCF, OwnOnly
      <3> QED
        BY <3>1, <3>2 DEF Timely
    <2>5. CASE api[c] # None /\ api[c].term /\ api[c].status = p.status
      <3>1. CASE Release /\ cur = c
        <4>1. fresh /\ pc = "release" /\ Put(c, None) /\ cache' = cache /\ pc' = "idle"
          BY <3>1 DEF Release, Done
        <4>2. cache[c] = api[c] /\ ~Pending(c) /\ ch.spec = api[c].spec
              /\ ch.status = api[c].status /\ LetGo(ch)
          BY <3>1, <4>1 DEF IInv, FreshInv, DeleteInv, EndInv
        <4>3. IsCopy(o, c)
          BY <4>1, CopiesPut
        <4>4. o = api[c]
          <5>1. CASE o = ch /\ cur = c /\ pc # "idle"
            <6>1. ~(\E i \in DOMAIN watch' : watch'[i].cr = c /\ watch'[i].obj = o)
                  /\ o # api'[c]
              BY <1>3, <4>1, <4>2, PutSync DEF IInv, Pending
            <6> QED
              BY <4>1, <4>2, <6>1 DEF IsCopy
          <5> QED
            BY <4>2, <4>3, <5>1 DEF IsCopy, Pending
        <4>5. LetGo(o)
          BY <4>2, <4>4, SameLetGo
        <4>6. LetGo(p)
          BY <2>1, <4>5, SameLetGo
        <4> QED
          BY <2>4, <4>6
      <3>2. CASE api'[c] # None /\ api'[c].term /\ api'[c].status = api[c].status
        BY <2>1, <2>5, <3>2 DEF Timely
      <3> QED
        BY <2>5, <3>1, <3>2, APISteps
    <2> QED
      BY <2>2, <2>4, <2>5 DEF Timely
  <1> QED
    BY <1>1, <1>2, <1>3

LEMMA CFUniqueNext ==
    ASSUME IInv, CFUnique, [Next]_vars
    PROVE  CFUnique'
  BY UniqueNext DEF CFUnique, RetriesAreSafe

LEMMA DeleteInvariance == Spec => []DeleteInv
  <1>1. Init => DeleteInv
    BY DEF Init, DeleteInv, PolicyInv, CFUnique, UniqueInv, OneRecordPerHost, NoTwinAhead,
           EndInv, LateInv, IsCopy
  <1>2. IInv /\ CopyInv /\ DeleteInv /\ [Next]_vars => DeleteInv'
    BY PolicyNext, CFUniqueNext, EndNext, LateNext DEF DeleteInv
  <1> QED
    BY <1>1, <1>2, Invariance, CopyInvariance, PTL DEF Spec

-----------------------------------------------------------------------------

\* CF refuses duplicates, or no policy has the worker look before it deletes.
OwnOnlyIsExact ==
    CFRejectsDuplicates \/ \A spec \in Specs : EffectiveDeletePolicy(spec) # "own-only"

\* A worker that is late, with a terminating copy from the cache, deletes nothing of a
\* CR that was made again in the meantime: a deletion that was let go has no record
\* left that this copy would delete.
THEOREM DeletesAreForTerminating ==
    ASSUME OwnOnlyIsExact PROVE Spec => DeletesOnlyForTerminating
  <1>1. IInv /\ CopyInv /\ DeleteInv /\ [Next]_vars =>
          [DeleteAttempt => /\ api[cur] # None /\ api[cur].term
                            /\ api[cur].status.id = ch.status.id]_vars
    <2> SUFFICES ASSUME IInv, DeleteInv, DeleteAttempt
                 PROVE  /\ api[cur] # None /\ api[cur].term
                        /\ api[cur].status.id = ch.status.id
      OBVIOUS
    <2>1. pc = "delete" /\ InZone(ch.status.id, ch.spec.zone) /\ ch.term
      BY DEF DeleteAttempt, IInv, PhaseInv
    <2>2. cur \in CRs /\ ch \in Object /\ ch # None /\ ch.spec \in Specs
      BY <2>1, ObjectFields DEF IInv, TypeOK
    <2>3. Timely(ch, cur)
      BY <2>1, <2>2 DEF DeleteInv, LateInv, IsCopy
    <2>4. ~LetGo(ch)
      BY <2>1, <2>2 DEF LetGo, DeleteInv, PolicyInv, OwnOnly, OwnOnlyIsExact
    <2> QED
      BY <2>3, <2>4 DEF Timely
  <1> QED
    BY <1>1, DeleteInvariance, CopyInvariance, Invariance, PTL
       DEF Spec, DeletesOnlyForTerminating

\* A CR of the policies manage and always that is let go in this step.
LetsGo(c) ==
    /\ api[c] # None /\ api[c].fin /\ api[c].status.id # 0
    /\ api'[c] = None /\ ~dryRun
    /\ EffectiveManagementPolicy(api[c].spec) # "observe"
    /\ EffectiveDeletePolicy(api[c].spec) = "always"

\* The record is gone from the zone that the CR names when it is let go.
GoneFromZone ==
    [][\A c \in CRs : LetsGo(c) => ~InZone(api[c].status.id, api[c].spec.zone)]_vars

LEMMA LetsGoLate ==
    ASSUME IInv, DeleteInv, [Next]_vars, NEW c \in CRs, LetsGo(c)
    PROVE  ~InZone(api[c].status.id, api[c].spec.zone)
  <1>1. Release /\ cur = c
    BY APISteps DEF LetsGo
  <1>2. LetGo(ch) /\ ch.spec = api[c].spec /\ ch.status = api[c].status
    BY <1>1 DEF Release, DeleteInv, EndInv, IInv, FreshInv
  <1> QED
    BY <1>2 DEF LetsGo, LetGo, ReleasedWithoutCF, OwnOnly

\* Under manage and always, a CR that was associated with a record is let go only when
\* its zone has no such record any more: after a restart, a lost reply, an edit during
\* the deletion or with a stale copy, too, and wherever zoneRefs move.
THEOREM ReleasedIsGone == Spec => GoneFromZone
  <1>1. IInv /\ DeleteInv /\ [Next]_vars =>
          [\A c \in CRs :
             LetsGo(c) => ~InZone(api[c].status.id, api[c].spec.zone)]_vars
    BY LetsGoLate
  <1> QED
    BY <1>1, DeleteInvariance, Invariance, PTL DEF Spec, GoneFromZone

\* No zoneRef moves.
ZoneIsFixed == \A spec, other \in Specs : spec.zone = other.zone

\* Where no zoneRef moves the record is in the zone that the CR names, so that it is
\* gone from Cloudflare.
THEOREM ReleasedIsDeleted == ASSUME ZoneIsFixed PROVE Spec => ReleaseMeansDeleted
  <1>1. IInv /\ CopyInv /\ DeleteInv /\ [Next]_vars =>
          [\A c \in CRs :
             (/\ api[c] # None /\ api[c].fin /\ api[c].status.id # 0
              /\ api'[c] = None /\ ~dryRun
              /\ EffectiveManagementPolicy(api[c].spec) # "observe"
              /\ EffectiveDeletePolicy(api[c].spec) = "always")
                => ~cf[api[c].status.id].live]_vars
    <2> SUFFICES ASSUME IInv, CopyInv, DeleteInv, [Next]_vars, NEW c \in CRs, LetsGo(c)
                 PROVE  ~cf[api[c].status.id].live
      BY DEF LetsGo
    <2>1. ~InZone(api[c].status.id, api[c].spec.zone)
      BY LetsGoLate
    <2>2. /\ api[c].status.id \in DOMAIN cf
          /\ cf[api[c].status.id].zone \in SpecZones
      BY DEF CopyInv, APIGood, Good, GoodStatus, Refers, LetsGo
    <2>3. api[c].spec \in Specs
      BY ObjectFields DEF IInv, TypeOK, LetsGo
    <2>4. cf[api[c].status.id].zone = api[c].spec.zone
      BY <2>2, <2>3 DEF SpecZones, ZoneIsFixed
    <2> QED
      BY <2>1, <2>2, <2>4 DEF InZone
  <1> QED
    BY <1>1, DeleteInvariance, CopyInvariance, Invariance, PTL
       DEF Spec, ReleaseMeansDeleted
=============================================================================
