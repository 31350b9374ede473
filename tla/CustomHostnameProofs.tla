------------------------ MODULE CustomHostnameProofs ------------------------
(***************************************************************************)
(* Theorems about CustomHostname, for any number of CRs, hostnames, zones, *)
(* specs and records, any retries, and any lag of the watch.               *)
(***************************************************************************)
EXTENDS CustomHostname, TLAPS

-----------------------------------------------------------------------------
(***************************************************************************)
(* The inductive invariant                                                 *)
(***************************************************************************)

\* Without an event under way the informer's copy is the API server's object.
SyncInv == \A c \in CRs : ~Pending(c) => cache[c] = api[c]

\* The last event under way for a CR carries the API server's object.
LastInv ==
    \A i \in DOMAIN watch :
       (\A j \in DOMAIN watch : watch[j].cr = watch[i].cr => j <= i)
         => watch[i].obj = api[watch[i].cr]

\* A copy the API server would accept differs from its object in status only.
FreshInv ==
    fresh => /\ ~Pending(cur)
             /\ cache[cur] = api[cur] /\ api[cur] # None
             /\ ch.spec = api[cur].spec /\ ch.fin = api[cur].fin /\ ch.term = api[cur].term

\* What the worker knows of its copy at each step.
PhaseInv ==
    /\ pc \in {"predelete", "delete", "release"} => ch.term
    /\ pc \in {"lookup", "create", "edit", "finalizer", "status"} => ~ch.term
    /\ pc \in {"lookup", "create", "edit"} => ch.fin

\* A version of a CR that carries the finalizer and is not being deleted.
Guarding(o) == o # None /\ o.fin /\ ~o.term

Guarded(c) == api[c] # None /\ api[c].fin

WatchGuards ==
    \A i \in DOMAIN watch : Guarding(watch[i].obj) => Guarded(watch[i].cr)

\* If a guarding version is still known to anyone, the finalizer is there: it
\* is only released by a worker that has seen the last version, a terminating
\* one, and then no older version is left.
FinalizerInv ==
    /\ \A c \in CRs : Guarding(cache[c]) => Guarded(c)
    /\ WatchGuards
    /\ pc # "idle" /\ Guarding(ch) => Guarded(cur)

IInv == TypeOK /\ SyncInv /\ LastInv /\ FreshInv /\ PhaseInv /\ FinalizerInv

-----------------------------------------------------------------------------
(***************************************************************************)
(* Types                                                                   *)
(***************************************************************************)

Event == [cr : CRs, obj : Object \cup {None}]

\* The statuses the code computes are statuses.
LEMMA StatusTypes ==
    ASSUME NEW s \in Status, NEW id \in Nat, NEW ssl \in {"none", "pending", "active"}
    PROVE  /\ SetError(s) \in Status
           /\ SetConflict(s) \in Status
           /\ SetWaiting(s) \in Status
           /\ SetDryRun(s) \in Status
           /\ Adopt(s, id) \in Status
           /\ Refresh(s, ssl) \in Status
           /\ Created(s, id, ssl) \in Status
           /\ RequeueOrReady(s) \in Status
           /\ NewStatus \in Status
  <1>1. SetError(s) \in Status
    BY DEF Status, Conds, SetError
  <1>2. SetConflict(s) \in Status
    BY DEF Status, Conds, SetConflict
  <1>3. SetWaiting(s) \in Status
    BY DEF Status, Conds, SetWaiting
  <1>4. SetDryRun(s) \in Status
    BY DEF Status, Conds, SetDryRun
  <1>5. Adopt(s, id) \in Status
    BY DEF Status, Conds, Adopt
  <1>6. Refresh(s, ssl) \in Status
    BY DEF Status, Conds, Refresh
  <1>7. Created(s, id, ssl) \in Status
    <2>1. s.creates + 1 \in Nat
      BY DEF Status
    <2> QED
      BY <2>1 DEF Status, Conds, Created
  <1>8. RequeueOrReady(s) \in Status
    BY DEF Status, Conds, RequeueOrReady
  <1>9. NewStatus \in Status
    BY DEF Status, Conds, NewStatus
  <1> QED
    BY <1>1, <1>2, <1>3, <1>4, <1>5, <1>6, <1>7, <1>8, <1>9

LEMMA WithStatusType ==
    ASSUME NEW o \in Object, NEW s \in Status
    PROVE  /\ WithStatus(o, s) \in Object
           /\ WithStatus(o, s).spec = o.spec
           /\ WithStatus(o, s).fin = o.fin
           /\ WithStatus(o, s).term = o.term
           /\ WithStatus(o, s).status = s
  BY DEF Object, WithStatus

LEMMA ObjectFields ==
    ASSUME NEW o \in Object
    PROVE  /\ o.status \in Status
           /\ o.spec \in Specs
           /\ o.fin \in BOOLEAN /\ o.term \in BOOLEAN
           /\ o # None
           /\ [o EXCEPT !.term = TRUE] \in Object
           /\ \A spec \in Specs : [o EXCEPT !.spec = spec] \in Object
           /\ \A s \in Status : [o EXCEPT !.fin = TRUE, !.status = s] \in Object
  BY NoneAssumption DEF Object

LEMMA PutType ==
    ASSUME TypeOK, NEW c \in CRs, NEW obj \in Object \cup {None}, Put(c, obj)
    PROVE  /\ api' \in [CRs -> Object \cup {None}]
           /\ watch' \in Seq(Event)
  <1>1. api' \in [CRs -> Object \cup {None}]
    BY DEF TypeOK, Put
  <1>2. [cr |-> c, obj |-> obj] \in Event
    BY DEF Event
  <1>3. watch' \in Seq(Event)
    BY <1>2 DEF TypeOK, Put, Event
  <1> QED
    BY <1>1, <1>3

LEMMA BeginType ==
    ASSUME TypeOK, NEW c \in CRs, NEW o \in Object, NEW next \in CFCalls \cup APIWrites,
           Begin(c, o, next)
    PROVE  TypeOK'
  <1>1. next # "idle"
    BY DEF CFCalls, APIWrites
  <1>2. (~Pending(c)) \in BOOLEAN
    BY DEF Pending
  <1>3. 0 \in 0..MaxRetries
    BY BoundAssumption
  <1> QED
    BY <1>1, <1>2, <1>3 DEF TypeOK, Begin

\* A worker step that stays with its CR.
LEMMA GotoType ==
    ASSUME TypeOK, pc # "idle", NEW s \in Status, NEW next \in CFCalls \cup APIWrites,
           Goto(next, s),
           cf' \in Seq(Record) /\ Len(cf') <= MaxRecords
    PROVE  TypeOK'
  <1>1. next # "idle"
    BY DEF CFCalls, APIWrites
  <1>2. ch' \in Object
    BY WithStatusType DEF TypeOK, Goto
  <1>3. 0 \in 0..MaxRetries
    BY BoundAssumption
  <1> QED
    BY <1>1, <1>2, <1>3 DEF TypeOK, Goto

LEMMA CFCreateType ==
    ASSUME TypeOK, NEW z \in Zones, NEW h \in Hosts, NEW cfg \in Cfgs,
           NEW ssl \in {"pending", "active"}, NEW by \in CRs \cup {None},
           CFCreate(z, h, cfg, ssl, by)
    PROVE  cf' \in Seq(Record) /\ Len(cf') <= MaxRecords
  <1> DEFINE rec == [zone |-> z, host |-> h, cfg |-> cfg, ssl |-> ssl,
                     by |-> by, live |-> TRUE]
  <1>1. rec \in Record
    BY DEF Record
  <1>2. cf' = Append(cf, rec) /\ Len(cf) < MaxRecords
    BY DEF CFCreate
  <1> HIDE DEF rec
  <1> QED
    BY <1>1, <1>2, BoundAssumption DEF TypeOK

\* Replacing one record.
LEMMA ReplaceType ==
    ASSUME TypeOK, NEW r \in DOMAIN cf, NEW rec \in Record, cf' = [cf EXCEPT ![r] = rec]
    PROVE  cf' \in Seq(Record) /\ Len(cf') <= MaxRecords
  BY DEF TypeOK

LEMMA RecordEdits ==
    ASSUME NEW rec \in Record, NEW cfg \in Cfgs, NEW ssl \in {"pending", "active"}
    PROVE  /\ [rec EXCEPT !.cfg = cfg, !.ssl = ssl] \in Record
           /\ [rec EXCEPT !.cfg = cfg] \in Record
           /\ [rec EXCEPT !.ssl = ssl] \in Record
           /\ [rec EXCEPT !.live = FALSE] \in Record
  BY DEF Record

LEMMA FindType ==
    ASSUME TypeOK, NEW z, NEW h, NEW r \in FindByHostname(z, h)
    PROVE  /\ r \in Nat
           /\ r # 0 => /\ r \in DOMAIN cf /\ cf[r] \in Record
                       /\ cf[r].live /\ cf[r].zone = z /\ cf[r].host = h
  BY DEF TypeOK, FindByHostname

LEMMA CachedType ==
    ASSUME TypeOK, NEW c \in CRs, cache[c] # None
    PROVE  cache[c] \in Object
  BY DEF TypeOK

\* Done and Abort leave the worker idle.
LEMMA IdleType ==
    ASSUME TypeOK, pc # "idle", Done \/ Abort
    PROVE  /\ queue' \subseteq CRs
           /\ pc' = "idle" /\ cur' = None /\ ch' = None /\ fresh' = FALSE /\ tries' = 0
  BY DEF TypeOK, Done, Abort

\* A call to CF that fails keeps the types, whatever happens to cf.
LEMMA FailedAttemptType ==
    ASSUME TypeOK, pc \in CFCalls, FailedAttempt \/ GiveUp,
           cf' \in Seq(Record) /\ Len(cf') <= MaxRecords
    PROVE  TypeOK'
  <1> USE DEF CFCalls
  <1>1. CASE Retry
    BY <1>1, BoundAssumption DEF TypeOK, Retry
  <1>2. CASE GiveUp
    <2>1. CASE pc \in {"lookup", "create", "edit"} /\ Goto("status", SetError(ch.status))
      <3>1. ch \in Object /\ SetError(ch.status) \in Status
        BY ObjectFields, StatusTypes DEF TypeOK
      <3>2. "status" \in CFCalls \cup APIWrites
        BY DEF APIWrites
      <3> QED
        BY <2>1, <3>1, <3>2, GotoType DEF TypeOK
    <2>2. CASE Abort /\ UNCHANGED <<api, cache, watch, zone, dryRun>>
      <3>1. pc # "idle"
        OBVIOUS
      <3>2. /\ queue' \subseteq CRs
            /\ pc' = "idle" /\ cur' = None /\ ch' = None /\ fresh' = FALSE /\ tries' = 0
        BY <2>2, <3>1, IdleType
      <3>3. 0 \in 0..MaxRetries
        BY BoundAssumption
      <3> QED
        BY <2>2, <3>2, <3>3 DEF TypeOK
    <2> QED
      BY <1>2, <2>1, <2>2 DEF GiveUp
  <1> QED
    BY <1>1, <1>2 DEF FailedAttempt

LEMMA SettleType ==
    ASSUME TypeOK, pc # "idle", NEW s \in Status, Settle(s), cf' \in Seq(Record) /\ Len(cf') <= MaxRecords
    PROVE  TypeOK'
  <1>1. Goto("status", RequeueOrReady(s)) /\ RequeueOrReady(s) \in Status
    BY StatusTypes DEF Settle
  <1>2. "status" \in CFCalls \cup APIWrites
    BY DEF APIWrites
  <1> QED
    BY <1>1, <1>2, GotoType

-----------------------------------------------------------------------------

LEMMA InitType == Init => TypeOK
  <1> SUFFICES ASSUME Init PROVE TypeOK
    OBVIOUS
  <1>1. watch \in Seq(Event) /\ cf \in Seq(Record) /\ Len(cf) <= MaxRecords
    BY BoundAssumption DEF Init
  <1>2. api \in [CRs -> Object \cup {None}] /\ cache \in [CRs -> Object \cup {None}]
    BY DEF Init
  <1>3. 0 \in 0..MaxRetries
    BY BoundAssumption
  <1>4. tries \in 0..MaxRetries
    BY <1>3 DEF Init
  <1>5. dryRun \in BOOLEAN
    BY ConfigAssumption DEF Init
  <1> QED
    BY <1>1, <1>2, <1>4, <1>5 DEF Init, TypeOK, Event

\* Steps that touch neither the API server nor the worker's copy of an object.
LEMMA ReconcileType ==
    ASSUME TypeOK, NEW c \in CRs, Reconcile(c)
    PROVE  TypeOK'
  <1> USE DEF CFCalls, APIWrites
  <1>1. CASE ReconcileGone(c)
    BY <1>1 DEF ReconcileGone, TypeOK, worker
  <1>2. CASE ReconcileRelease(c)
    BY <1>2, CachedType, BeginType DEF ReconcileRelease, Terminating
  <1>3. CASE ReconcileDelete(c)
    BY <1>3, CachedType, BeginType DEF ReconcileDelete, Terminating
  <1>4. CASE ReconcileError(c)
    <2>1. cache[c] \in Object
      BY <1>4, CachedType DEF ReconcileError, Alive
    <2>2. WithStatus(cache[c], SetError(cache[c].status)) \in Object
      BY <2>1, ObjectFields, StatusTypes, WithStatusType
    <2> QED
      BY <1>4, <2>2, BeginType DEF ReconcileError
  <1>5. CASE ReconcileAddFinalizer(c)
    BY <1>5, CachedType, BeginType DEF ReconcileAddFinalizer, Alive
  <1>6. CASE ReconcileConflict(c)
    <2>1. cache[c] \in Object
      BY <1>6, CachedType DEF ReconcileConflict, Managed, Alive
    <2>2. WithStatus(cache[c], SetConflict(cache[c].status)) \in Object
      BY <2>1, ObjectFields, StatusTypes, WithStatusType
    <2> QED
      BY <1>6, <2>2, BeginType DEF ReconcileConflict
  <1>7. CASE ReconcileLookup(c)
    BY <1>7, CachedType, BeginType DEF ReconcileLookup, Managed, Alive
  <1> QED
    BY <1>1, <1>2, <1>3, <1>4, <1>5, <1>6, <1>7 DEF Reconcile

\* Calls to Cloudflare.
LEMMA CFCallType ==
    ASSUME TypeOK,
           LookupMissing \/ LookupFound \/ CreateAttempt \/ EditAttempt
           \/ Predelete \/ DeleteAttempt \/ DeleteNotFound \/ CallFails
    PROVE  TypeOK'
  <1> DEFINE cfTyped == cf' \in Seq(Record) /\ Len(cf') <= MaxRecords
  <1>0. cf \in Seq(Record) /\ Len(cf) <= MaxRecords
    BY DEF TypeOK
  <1>00. pc \in CFCalls => /\ pc # "idle" /\ cur \in CRs /\ ch \in Object
                           /\ ch.status \in Status /\ ch.spec \in Specs
    BY ObjectFields DEF TypeOK, CFCalls
  <1>1. CASE LookupMissing
    <2>1. /\ SetWaiting(ch.status) \in Status /\ SetDryRun(ch.status) \in Status
          /\ ch.status \in Status /\ pc # "idle"
      BY <1>1, <1>00, StatusTypes DEF LookupMissing, CFCalls
    <2>2. {"status", "create"} \subseteq CFCalls \cup APIWrites
      BY DEF CFCalls, APIWrites
    <2> QED
      BY <1>1, <1>0, <2>1, <2>2, GotoType DEF LookupMissing
  <1>2. CASE LookupFound
    <2>1. PICK r \in FindByHostname(ch.spec.zone, HostOf[cur]) \ {0} :
            LET s == Adopt(ch.status, r)
            IN  Goto("edit", s) \/ Settle(Refresh(s, cf[r].ssl))
      BY <1>2 DEF LookupFound
    <2> DEFINE t == Adopt(ch.status, r)
    <2>2. r \in Nat /\ cf[r] \in Record
      BY FindType
    <2>3. pc # "idle" /\ cur \in CRs /\ t \in Status
      BY <1>2, <1>00, <2>2, StatusTypes DEF LookupFound, CFCalls
    <2>4. Refresh(t, cf[r].ssl) \in Status
      <3>1. cf[r].ssl \in {"none", "pending", "active"}
        BY <2>2 DEF Record
      <3> QED
        BY <2>3, <3>1, StatusTypes
    <2>6. cfTyped
      BY <1>2, <1>0 DEF LookupFound
    <2> HIDE DEF t
    <2>7. CASE Goto("edit", t)
      <3>1. "edit" \in CFCalls \cup APIWrites
        BY DEF CFCalls
      <3> QED
        BY <1>0, <2>3, <2>6, <2>7, <3>1, GotoType
    <2>8. CASE Settle(Refresh(t, cf[r].ssl))
      BY <2>3, <2>4, <2>6, <2>8, SettleType
    <2> QED
      BY <2>1, <2>7, <2>8 DEF t
  <1>3. CASE CreateAttempt
    <2>1. PICK ssl \in {"pending", "active"} :
            /\ CFCreate(ch.spec.zone, HostOf[cur], ch.spec.cfg, ssl, cur)
            /\ \/ Settle(Created(ch.status, Len(cf) + 1, ssl))
               \/ LostReplies /\ FailedAttempt
      BY <1>3 DEF CreateAttempt
    <2>2. pc \in CFCalls
      BY <1>3 DEF CreateAttempt, CFCalls
    <2>3. ch.spec.zone \in Zones /\ ch.spec.cfg \in Cfgs /\ HostOf[cur] \in Hosts
      BY <1>00, <2>2, ConfigAssumption DEF AnySpec
    <2>4. cfTyped
      BY <1>00, <2>1, <2>2, <2>3, CFCreateType
    <2>5. Created(ch.status, Len(cf) + 1, ssl) \in Status
      <3>1. Len(cf) + 1 \in Nat
        BY <1>0
      <3> QED
        BY <1>00, <2>2, <3>1, StatusTypes
    <2>7. CASE Settle(Created(ch.status, Len(cf) + 1, ssl))
      BY <1>00, <2>2, <2>4, <2>5, <2>7, SettleType
    <2>8. CASE FailedAttempt
      BY <2>2, <2>4, <2>8, FailedAttemptType
    <2> QED
      BY <2>1, <2>7, <2>8
  <1>4. CASE EditAttempt
    <2>1. PICK ssl \in {"pending", "active"} :
            /\ cf' = [cf EXCEPT ![ch.status.id].cfg = ch.spec.cfg,
                                ![ch.status.id].ssl = ssl]
            /\ \/ Settle(Refresh(ch.status, ssl))
               \/ LostReplies /\ FailedAttempt
      BY <1>4 DEF EditAttempt
    <2>2. pc \in CFCalls
      BY <1>4 DEF EditAttempt, CFCalls
    <2>3. ch.spec.cfg \in Cfgs
      BY <1>00, <2>2, ConfigAssumption DEF AnySpec
    <2>4. cfTyped
      <3> DEFINE i == ch.status.id
                 rec == [cf[i] EXCEPT !.cfg = ch.spec.cfg, !.ssl = ssl]
      <3>1. i \in DOMAIN cf /\ cf[i] \in Record
        BY <1>4, <1>0 DEF EditAttempt, InZone
      <3>2. rec \in Record
        BY <2>3, <3>1, RecordEdits
      <3>3. cf' = [cf EXCEPT ![i] = rec]
        BY <1>0, <2>1, <3>1
      <3> HIDE DEF i, rec
      <3> QED
        BY <3>1, <3>2, <3>3, ReplaceType
    <2>5. Refresh(ch.status, ssl) \in Status
      BY <1>00, <2>2, StatusTypes
    <2>6. CASE Settle(Refresh(ch.status, ssl))
      BY <1>00, <2>2, <2>4, <2>5, <2>6, SettleType
    <2>7. CASE FailedAttempt
      BY <2>2, <2>4, <2>7, FailedAttemptType
    <2> QED
      BY <2>1, <2>6, <2>7
  <1>5. CASE Predelete
    <2>1. ch.status \in Status /\ pc # "idle"
      BY <1>5, <1>00 DEF Predelete, CFCalls
    <2>2. {"delete", "release"} \subseteq CFCalls \cup APIWrites
      BY DEF CFCalls, APIWrites
    <2> QED
      BY <1>5, <1>0, <2>1, <2>2, GotoType DEF Predelete
  <1>6. CASE DeleteAttempt
    <2>1. pc \in CFCalls /\ pc # "idle" /\ ch.status \in Status
      BY <1>6, <1>00 DEF DeleteAttempt, CFCalls
    <2>2. cfTyped
      <3> DEFINE i == ch.status.id
                 rec == [cf[i] EXCEPT !.live = FALSE]
      <3>1. i \in DOMAIN cf /\ cf[i] \in Record
        BY <1>6, <1>0 DEF DeleteAttempt, InZone
      <3>2. rec \in Record
        BY <3>1 DEF Record
      <3>3. cf' = [cf EXCEPT ![i] = rec]
        BY <1>0, <1>6, <3>1 DEF DeleteAttempt
      <3> HIDE DEF i, rec
      <3> QED
        BY <3>1, <3>2, <3>3, ReplaceType
    <2>3. CASE Goto("release", ch.status)
      <3>1. "release" \in CFCalls \cup APIWrites
        BY DEF APIWrites
      <3> QED
        BY <1>0, <2>1, <2>2, <2>3, <3>1, GotoType
    <2>4. CASE FailedAttempt
      BY <2>1, <2>2, <2>4, FailedAttemptType
    <2> QED
      BY <1>6, <2>3, <2>4 DEF DeleteAttempt
  <1>7. CASE DeleteNotFound
    <2>1. pc \in CFCalls /\ pc # "idle" /\ ch.status \in Status /\ cfTyped
      BY <1>7, <1>00, <1>0 DEF DeleteNotFound, CFCalls
    <2>2. CASE Goto("release", ch.status)
      <3>1. "release" \in CFCalls \cup APIWrites
        BY DEF APIWrites
      <3> QED
        BY <1>0, <2>1, <2>2, <3>1, GotoType
    <2>3. CASE Retry
      BY <2>1, <2>3, FailedAttemptType DEF FailedAttempt
    <2> QED
      BY <1>7, <2>2, <2>3 DEF DeleteNotFound
  <1>8. CASE CallFails
    BY <1>0, <1>8, FailedAttemptType DEF CallFails
  <1> QED
    BY <1>1, <1>2, <1>3, <1>4, <1>5, <1>6, <1>7, <1>8

\* The writes that end a reconcile.
LEMMA APIWriteType ==
    ASSUME TypeOK, FreshInv, AddFinalizer \/ Release \/ PersistStatus \/ WriteFails
    PROVE  TypeOK'
  <1>0. /\ pc # "idle" /\ (Done \/ Abort)
        /\ cur \in CRs /\ ch \in Object
        /\ UNCHANGED <<cache, zone, cf, dryRun>>
    BY DEF TypeOK, AddFinalizer, Release, PersistStatus, WriteFails, APIWrites
  <1>1. /\ queue' \subseteq CRs
        /\ pc' = "idle" /\ cur' = None /\ ch' = None /\ fresh' = FALSE /\ tries' = 0
    BY <1>0, IdleType
  <1>2. 0 \in 0..MaxRetries
    BY BoundAssumption
  <1>3. /\ api' \in [CRs -> Object \cup {None}]
        /\ watch' \in Seq(Event)
    <2>1. \A c \in CRs : api[c] # None => api[c] \in Object
      BY DEF TypeOK
    <2>2. CASE AddFinalizer
      <3>1. api[cur] \in Object
        BY <1>0, <2>1, <2>2 DEF AddFinalizer, FreshInv
      <3> QED
        BY <1>0, <2>2, <3>1, ObjectFields, PutType DEF AddFinalizer
    <2>3. CASE Release
      BY <1>0, <2>3, PutType DEF Release
    <2>4. CASE PersistStatus
      <3>1. api[cur] \in Object
        BY <1>0, <2>1, <2>4 DEF PersistStatus, FreshInv
      <3>2. WithStatus(api[cur], ch.status) \in Object
        BY <1>0, <3>1, ObjectFields, WithStatusType
      <3>3. CASE Put(cur, WithStatus(api[cur], ch.status))
        BY <1>0, <3>2, <3>3, PutType
      <3>4. CASE UNCHANGED <<api, watch>>
        BY <3>4 DEF TypeOK, Event
      <3> QED
        BY <2>4, <3>3, <3>4 DEF PersistStatus
    <2>5. CASE WriteFails
      BY <2>5 DEF WriteFails, TypeOK, Event
    <2> QED
      BY <2>2, <2>3, <2>4, <2>5
  <1> QED
    BY <1>0, <1>1, <1>2, <1>3 DEF TypeOK, Event

LEMMA PutByOtherType ==
    ASSUME TypeOK, NEW c \in CRs, NEW obj \in Object \cup {None}, PutByOther(c, obj)
    PROVE  TypeOK'
  <1>1. /\ api' \in [CRs -> Object \cup {None}]
        /\ watch' \in Seq(Event)
    BY PutType DEF PutByOther
  <1> QED
    BY <1>1 DEF PutByOther, TypeOK, Event

NewObject(spec) == [spec |-> spec, fin |-> FALSE, term |-> FALSE, status |-> NewStatus]

\* What each step of a user writes.
LEMMA UserPut ==
    ASSUME TypeOK, NEW c \in CRs, User(c)
    PROVE  \E obj \in Object \cup {None} :
              /\ PutByOther(c, obj)
              /\ \/ /\ api[c] = None
                    /\ obj # None /\ ~obj.fin /\ ~obj.term
                 \/ /\ api[c] # None /\ obj # None
                    /\ obj.fin = api[c].fin /\ obj.status = api[c].status
                    /\ api[c].term => obj.term
                 \/ /\ api[c] # None /\ obj = None
                    /\ ~api[c].fin /\ ~api[c].term
  <1>0. api[c] # None => api[c] \in Object
    BY DEF TypeOK
  <1>1. CASE CreateCR(c)
    <2>1. PICK spec \in Specs : PutByOther(c, NewObject(spec))
      BY <1>1 DEF CreateCR, NewObject
    <2>2. NewStatus \in Status
      BY DEF NewStatus, Status, Conds
    <2>3. NewObject(spec) \in Object /\ ~NewObject(spec).fin /\ ~NewObject(spec).term
      BY <2>2 DEF NewObject, Object
    <2>4. NewObject(spec) # None
      BY <2>3, NoneAssumption
    <2> QED
      BY <1>1, <2>1, <2>3, <2>4 DEF CreateCR
  <1>2. CASE EditSpec(c)
    <2>1. PICK spec \in Specs : PutByOther(c, [api[c] EXCEPT !.spec = spec])
      BY <1>2 DEF EditSpec
    <2> DEFINE obj == [api[c] EXCEPT !.spec = spec]
    <2>2. api[c] # None /\ api[c] \in Object
      BY <1>0, <1>2 DEF EditSpec
    <2>3. obj \in Object /\ obj # None
      BY <2>2, ObjectFields, NoneAssumption
    <2>4. obj.fin = api[c].fin /\ obj.status = api[c].status /\ obj.term = api[c].term
      BY <2>2 DEF Object
    <2> QED
      BY <2>1, <2>2, <2>3, <2>4
  <1>3. CASE DeleteCR(c)
    <2>1. api[c] # None /\ api[c] \in Object /\ ~api[c].term
      BY <1>0, <1>3 DEF DeleteCR
    <2>2. CASE api[c].fin
      <3> DEFINE obj == [api[c] EXCEPT !.term = TRUE]
      <3>1. PutByOther(c, obj)
        BY <1>3, <2>2 DEF DeleteCR
      <3>2. obj \in Object /\ obj # None
        BY <2>1, ObjectFields, NoneAssumption
      <3>3. obj.fin = api[c].fin /\ obj.status = api[c].status
        BY <2>1 DEF Object
      <3> QED
        BY <2>1, <3>1, <3>2, <3>3
    <2>3. CASE ~api[c].fin
      BY <1>3, <2>1, <2>3 DEF DeleteCR
    <2> QED
      BY <2>2, <2>3
  <1> QED
    BY <1>1, <1>2, <1>3 DEF User

LEMMA UserType ==
    ASSUME TypeOK, NEW c \in CRs, User(c)
    PROVE  TypeOK'
  BY UserPut, PutByOtherType

\* What others do to CF is seen by nobody at once.
LEMMA ExternalType ==
    ASSUME TypeOK, External
    PROVE  TypeOK'
  <1>1. /\ OnlyCF
        /\ cf' \in Seq(Record) /\ Len(cf') <= MaxRecords
    <2>1. CASE ExtCreate
      BY <2>1, CFCreateType DEF ExtCreate
    <2>2. ASSUME NEW r \in DOMAIN cf, ExtEdit(r) \/ ExtDelete(r) \/ SSLChanges(r)
          PROVE  OnlyCF /\ cf' \in Seq(Record) /\ Len(cf') <= MaxRecords
      <3>1. cf[r] \in Record
        BY DEF TypeOK
      <3>2. PICK rec \in Record : cf' = [cf EXCEPT ![r] = rec]
        <4>1. CASE ExtEdit(r)
          <5>1. PICK cfg \in Cfgs : cf' = [cf EXCEPT ![r].cfg = cfg]
            BY <4>1 DEF ExtEdit
          <5>2. [cf[r] EXCEPT !.cfg = cfg] \in Record
            BY <3>1 DEF Record
          <5> QED
            BY <5>1, <5>2
        <4>2. CASE ExtDelete(r)
          <5>1. [cf[r] EXCEPT !.live = FALSE] \in Record
            BY <3>1 DEF Record
          <5> QED
            BY <4>2, <5>1 DEF ExtDelete
        <4>3. CASE SSLChanges(r)
          <5>1. cf' = [cf EXCEPT ![r].ssl = IF cf[r].ssl = "active"
                                            THEN "pending" ELSE "active"]
            BY <4>3 DEF SSLChanges
          <5>2. [cf[r] EXCEPT !.ssl = IF cf[r].ssl = "active"
                                      THEN "pending" ELSE "active"] \in Record
            BY <3>1 DEF Record
          <5> QED
            BY <5>1, <5>2
        <4> QED
          BY <2>2, <4>1, <4>2, <4>3
      <3> QED
        BY <2>2, <3>2, ReplaceType DEF ExtEdit, ExtDelete, SSLChanges
    <2> QED
      BY <2>1, <2>2 DEF External
  <1> QED
    BY <1>1 DEF OnlyCF, TypeOK, worker

\* One step of the specification keeps the types.
LEMMA TypeNext ==
    ASSUME TypeOK, FreshInv, [Next]_vars
    PROVE  TypeOK'
  <1>1. ASSUME NEW c \in CRs, DriftEvent(c) PROVE TypeOK'
    BY <1>1 DEF DriftEvent, TypeOK, worker
  <1>2. CASE Deliver
    <2>1. watch # <<>> /\ watch \in Seq(Event)
      BY <1>2 DEF Deliver, TypeOK, Event
    <2>2. Head(watch) \in Event /\ Tail(watch) \in Seq(Event)
      BY <2>1
    <2>3. cache' \in [CRs -> Object \cup {None}] /\ queue' \subseteq CRs
      BY <1>2, <2>2 DEF Deliver, Event, TypeOK
    <2> QED
      BY <1>2, <2>2, <2>3 DEF Deliver, TypeOK, worker, Event
  <1>3. ASSUME NEW z \in Zones, ZoneChanges(z) PROVE TypeOK'
    BY <1>3 DEF ZoneChanges, TypeOK, worker
  <1>4. CASE Restart
    <2>1. watch' \in Seq(Event)
      BY <1>4 DEF Restart
    <2>2. 0 \in 0..MaxRetries
      BY BoundAssumption
    <2>3. dryRun' \in BOOLEAN
      BY <1>4, ConfigAssumption DEF Restart
    <2>4. queue' \subseteq CRs
      BY <1>4 DEF Restart
    <2> QED
      BY <1>4, <2>1, <2>2, <2>3, <2>4 DEF Restart, TypeOK, Event
  <1>5. CASE UNCHANGED vars
    BY <1>5 DEF vars, worker, TypeOK
  <1> QED
    BY <1>1, <1>2, <1>3, <1>4, <1>5, ReconcileType, UserType, CFCallType, APIWriteType,
       ExternalType DEF Next, WorkerStep

-----------------------------------------------------------------------------
(***************************************************************************)
(* The watch and the worker's copy                                         *)
(***************************************************************************)

\* A write to c appends an event for c and leaves the others as they are.
LEMMA PutSync ==
    ASSUME TypeOK, SyncInv, LastInv, NEW c \in CRs, NEW obj \in Object \cup {None},
           Put(c, obj), cache' = cache
    PROVE  /\ SyncInv' /\ LastInv'
           /\ \A d \in CRs : Pending(d)' <=> d = c \/ Pending(d)
           /\ api'[c] = obj
           /\ \A d \in CRs \ {c} : api'[d] = api[d]
           /\ \A i \in DOMAIN watch' : \/ i \in DOMAIN watch /\ watch'[i] = watch[i]
                                       \/ watch'[i] = [cr |-> c, obj |-> obj]
  <1> DEFINE e == [cr |-> c, obj |-> obj]
             n == Len(watch)
  <1>1. watch \in Seq(Event) /\ n \in Nat /\ DOMAIN watch = 1..n
    BY DEF TypeOK, Event
  <1>2. e \in Event /\ e.cr = c /\ e.obj = obj
    BY DEF Event
  <1>3. watch' = Append(watch, e) /\ api' = [api EXCEPT ![c] = obj]
    BY DEF Put
  <1> HIDE DEF e
  <1>4. /\ DOMAIN watch' = 1..(n + 1)
        /\ \A i \in 1..n : watch'[i] = watch[i]
        /\ watch'[n + 1] = e
    BY <1>1, <1>2, <1>3
  <1>5. api'[c] = obj /\ \A d \in CRs \ {c} : api'[d] = api[d]
    BY <1>3 DEF TypeOK
  <1>6. \A d \in CRs : Pending(d)' <=> d = c \/ Pending(d)
    <2>1. 1..(n + 1) = 1..n \cup {n + 1}
      BY <1>1
    <2> QED
      BY <1>1, <1>2, <1>4, <2>1 DEF Pending
  <1>7. SyncInv'
    BY <1>5, <1>6 DEF SyncInv
  <1>8. LastInv'
    <2> SUFFICES ASSUME NEW i \in DOMAIN watch',
                        \A j \in DOMAIN watch' : watch'[j].cr = watch'[i].cr => j <= i
                 PROVE  watch'[i].obj = api'[watch'[i].cr]
      BY DEF LastInv
    <2>1. CASE i = n + 1
      BY <1>2, <1>4, <1>5, <2>1
    <2>2. CASE i \in 1..n
      <3>0. watch[i] \in Event
        BY <1>1, <2>2
      <3>1. watch'[i] = watch[i] /\ watch[i].cr \in CRs
        BY <1>1, <1>4, <2>2, <3>0 DEF Event
      <3>2. n + 1 \in DOMAIN watch' /\ ~(n + 1 <= i)
        BY <1>1, <1>4, <2>2
      <3>3. watch[i].cr # c
        BY <1>2, <1>4, <3>1, <3>2
      <3>4. \A j \in DOMAIN watch : watch[j].cr = watch[i].cr => j <= i
        BY <1>1, <1>4, <3>1
      <3> QED
        BY <1>1, <1>5, <2>2, <3>1, <3>3, <3>4 DEF LastInv
    <2> QED
      BY <1>1, <1>4, <2>1, <2>2
  <1> QED
    BY <1>4, <1>1, <1>5, <1>6, <1>7, <1>8 DEF e

\* Receiving an event keeps the informer in step with what is under way.
LEMMA DeliverSync ==
    ASSUME TypeOK, SyncInv, LastInv, Deliver
    PROVE  /\ SyncInv' /\ LastInv'
           /\ \A d \in CRs : ~Pending(d) => ~Pending(d)' /\ cache'[d] = cache[d]
           /\ \A i \in DOMAIN watch' : \E j \in DOMAIN watch : watch'[i] = watch[j]
           /\ \A d \in CRs : \/ cache'[d] = cache[d]
                             \/ \E j \in DOMAIN watch : /\ watch[j].cr = d
                                                        /\ cache'[d] = watch[j].obj
  <1> DEFINE e == Head(watch)
             n == Len(watch)
  <1>1. /\ watch \in Seq(Event) /\ watch # <<>> /\ n \in Nat \ {0}
        /\ DOMAIN watch = 1..n
    BY DEF TypeOK, Event, Deliver
  <1>2. e = watch[1] /\ e \in Event /\ 1 \in DOMAIN watch
    BY <1>1
  <1>3. watch' = Tail(watch) /\ cache' = [cache EXCEPT ![e.cr] = e.obj] /\ api' = api
    BY DEF Deliver
  <1> HIDE DEF e
  <1>4. /\ DOMAIN watch' = 1..(n - 1)
        /\ \A i \in 1..(n - 1) : watch'[i] = watch[i + 1] /\ i + 1 \in DOMAIN watch
    BY <1>1, <1>3
  <1>5. e.cr \in CRs /\ cache'[e.cr] = e.obj
        /\ \A d \in CRs \ {e.cr} : cache'[d] = cache[d]
    BY <1>2, <1>3 DEF Event, TypeOK
  <1>6. \A d \in CRs : ~Pending(d) => ~Pending(d)' /\ d # e.cr
    BY <1>2, <1>4 DEF Pending
  <1>7. SyncInv'
    <2> SUFFICES ASSUME NEW d \in CRs, ~Pending(d)'
                 PROVE  cache'[d] = api[d]
      BY <1>3 DEF SyncInv
    <2>1. \A i \in DOMAIN watch : i # 1 => watch[i].cr # d
      <3> SUFFICES ASSUME NEW i \in DOMAIN watch, i # 1
                   PROVE  watch[i].cr # d
        OBVIOUS
      <3>1. i - 1 \in 1..(n - 1) /\ (i - 1) + 1 = i
        BY <1>1
      <3>2. watch'[i - 1] = watch[i]
        BY <1>4, <3>1
      <3> QED
        BY <1>4, <3>1, <3>2 DEF Pending
    <2>2. CASE d = e.cr
      <3>1. \A j \in DOMAIN watch : watch[j].cr = watch[1].cr => j <= 1
        BY <1>1, <1>2, <2>1, <2>2
      <3>2. watch[1].obj = api[watch[1].cr]
        BY <1>2, <3>1 DEF LastInv
      <3> QED
        BY <1>2, <1>5, <2>2, <3>2
    <2>3. CASE d # e.cr
      <3>1. ~Pending(d)
        BY <1>2, <2>1, <2>3 DEF Pending
      <3> QED
        BY <1>5, <2>3, <3>1 DEF SyncInv
    <2> QED
      BY <2>2, <2>3
  <1>8. LastInv'
    <2> SUFFICES ASSUME NEW i \in DOMAIN watch',
                        \A j \in DOMAIN watch' : watch'[j].cr = watch'[i].cr => j <= i
                 PROVE  watch'[i].obj = api[watch'[i].cr]
      BY <1>3 DEF LastInv
    <2>1. i \in 1..(n - 1) /\ i + 1 \in DOMAIN watch /\ watch'[i] = watch[i + 1]
      BY <1>4
    <2>2. ASSUME NEW j \in DOMAIN watch, watch[j].cr = watch[i + 1].cr
          PROVE  j <= i + 1
      <3>1. CASE j = 1
        BY <1>1, <2>1, <3>1
      <3>2. CASE j # 1
        <4>1. j - 1 \in 1..(n - 1) /\ (j - 1) + 1 = j
          BY <1>1, <3>2
        <4>2. watch'[j - 1] = watch[j] /\ j - 1 \in DOMAIN watch'
          BY <1>4, <4>1
        <4>3. j - 1 <= i
          BY <2>1, <2>2, <4>2
        <4> QED
          BY <1>1, <2>1, <4>3
      <3> QED
        BY <3>1, <3>2
    <2> QED
      BY <2>1, <2>2 DEF LastInv
  <1> QED
    BY <1>2, <1>4, <1>5, <1>6, <1>7, <1>8

\* Steps that leave the API server and the informer alone.
LEMMA NoSync ==
    ASSUME SyncInv, LastInv, UNCHANGED <<api, cache, watch>>
    PROVE  /\ SyncInv' /\ LastInv'
           /\ \A c \in CRs : Pending(c)' <=> Pending(c)
           /\ \A c \in CRs : Guarded(c)' <=> Guarded(c)
  BY DEF SyncInv, LastInv, Pending, Guarded

-----------------------------------------------------------------------------
(***************************************************************************)
(* The inductive invariant is inductive                                    *)
(***************************************************************************)

LEMMA InitIInv == Init => IInv
  <1> SUFFICES ASSUME Init PROVE IInv
    OBVIOUS
  <1>1. TypeOK
    BY InitType
  <1>2. SyncInv /\ LastInv /\ FreshInv /\ PhaseInv
    BY DEF Init, SyncInv, LastInv, FreshInv, PhaseInv
  <1>3. FinalizerInv
    BY DEF Init, FinalizerInv, WatchGuards, Guarding
  <1> QED
    BY <1>1, <1>2, <1>3 DEF IInv

\* Starting a reconcile: the copy is the cached object, but for its status.
LEMMA BeginIInv ==
    ASSUME IInv, TypeOK', NEW c \in CRs, NEW o \in Object, NEW next, Begin(c, o, next),
           cache[c] # None,
           o.spec = cache[c].spec, o.fin = cache[c].fin, o.term = cache[c].term,
           \/ next \in {"predelete", "delete", "release"} /\ o.term
           \/ next \in {"finalizer", "status"} /\ ~o.term
           \/ next = "lookup" /\ ~o.term /\ o.fin
    PROVE  IInv'
  <1>1. UNCHANGED <<api, cache, watch>> /\ pc' = next /\ cur' = c /\ ch' = o
        /\ fresh' = ~Pending(c)
    BY DEF Begin
  <1>2. SyncInv' /\ LastInv' /\ (\A d \in CRs : Pending(d)' <=> Pending(d))
        /\ (\A d \in CRs : Guarded(d)' <=> Guarded(d))
    BY <1>1, NoSync DEF IInv
  <1>3. FreshInv'
    BY <1>1, <1>2 DEF IInv, FreshInv, SyncInv
  <1>4. PhaseInv'
    BY <1>1 DEF PhaseInv
  <1>5. FinalizerInv'
    BY <1>1, <1>2, NoneAssumption DEF IInv, FinalizerInv, WatchGuards, Guarding, Guarded
  <1> QED
    BY <1>2, <1>3, <1>4, <1>5 DEF IInv

LEMMA ReconcileIInv ==
    ASSUME IInv, NEW c \in CRs, Reconcile(c)
    PROVE  IInv'
  <1>0. TypeOK /\ TypeOK'
    BY ReconcileType DEF IInv
  <1>1. CASE ReconcileGone(c)
    <2>1. UNCHANGED <<api, cache, watch, pc, cur, ch, fresh>>
      BY <1>1 DEF ReconcileGone, worker
    <2> QED
      BY <1>0, <2>1, NoSync DEF IInv, FreshInv, PhaseInv, FinalizerInv, WatchGuards, Guarded, Pending
  <1>2. CASE ReconcileRelease(c)
    BY <1>0, <1>2, CachedType, BeginIInv DEF ReconcileRelease, Terminating
  <1>3. CASE ReconcileDelete(c)
    BY <1>0, <1>3, CachedType, BeginIInv DEF ReconcileDelete, Terminating
  <1>4. CASE ReconcileError(c)
    <2>1. cache[c] \in Object /\ cache[c] # None /\ ~cache[c].term
      BY <1>0, <1>4, CachedType DEF ReconcileError, Alive
    <2>2. SetError(cache[c].status) \in Status
      BY <2>1, ObjectFields, StatusTypes
    <2> QED
      BY <1>0, <1>4, <2>1, <2>2, WithStatusType, BeginIInv DEF ReconcileError
  <1>5. CASE ReconcileAddFinalizer(c)
    BY <1>0, <1>5, CachedType, BeginIInv DEF ReconcileAddFinalizer, Alive
  <1>6. CASE ReconcileConflict(c)
    <2>1. cache[c] \in Object /\ cache[c] # None /\ ~cache[c].term
      BY <1>0, <1>6, CachedType DEF ReconcileConflict, Managed, Alive
    <2>2. SetConflict(cache[c].status) \in Status
      BY <2>1, ObjectFields, StatusTypes
    <2> QED
      BY <1>0, <1>6, <2>1, <2>2, WithStatusType, BeginIInv DEF ReconcileConflict
  <1>7. CASE ReconcileLookup(c)
    BY <1>0, <1>7, CachedType, BeginIInv
       DEF ReconcileLookup, Managed, Alive, NeedsFinalizer
  <1> QED
    BY <1>1, <1>2, <1>3, <1>4, <1>5, <1>6, <1>7 DEF Reconcile

\* A call to CF leaves everything but the worker's phase and status alone, or
\* ends the reconcile.
LEMMA CFCallShape ==
    ASSUME TypeOK, PhaseInv,
           LookupMissing \/ LookupFound \/ CreateAttempt \/ EditAttempt
           \/ Predelete \/ DeleteAttempt \/ DeleteNotFound \/ CallFails
    PROVE  /\ UNCHANGED <<api, cache, watch>>
           /\ pc # "idle"
           /\ \/ pc' = "idle" /\ ~fresh'
              \/ /\ pc' # "idle" /\ cur' = cur /\ fresh' = fresh
                 /\ ch'.spec = ch.spec /\ ch'.fin = ch.fin /\ ch'.term = ch.term
                 /\ PhaseInv'
  <1> USE DEF CFCalls
  <1>0. pc \in CFCalls /\ ch \in Object
    BY DEF TypeOK, LookupMissing, LookupFound, CreateAttempt, EditAttempt, Predelete,
           DeleteAttempt, DeleteNotFound, CallFails
  <1>1. ASSUME NEW next, NEW s, Goto(next, s),
               \/ pc \in {"lookup", "create", "edit"}
                  /\ next \in {"create", "edit", "status"}
               \/ pc \in {"predelete", "delete"} /\ next \in {"delete", "release"}
        PROVE  /\ UNCHANGED <<api, cache, watch>>
               /\ pc' # "idle" /\ cur' = cur /\ fresh' = fresh
               /\ ch'.spec = ch.spec /\ ch'.fin = ch.fin /\ ch'.term = ch.term
               /\ PhaseInv'
    <2>1. UNCHANGED <<api, cache, watch, cur, fresh>> /\ pc' = next
          /\ ch' = WithStatus(ch, s)
      BY <1>1 DEF Goto
    <2>2. ch'.spec = ch.spec /\ ch'.fin = ch.fin /\ ch'.term = ch.term
      BY <1>0, <2>1 DEF WithStatus, Object
    <2> QED
      BY <1>1, <2>1, <2>2 DEF PhaseInv
  <1>2. ASSUME Retry \/ GiveUp
        PROVE  /\ UNCHANGED <<api, cache, watch>>
               /\ \/ pc' = "idle" /\ ~fresh'
                  \/ /\ pc' # "idle" /\ cur' = cur /\ fresh' = fresh
                     /\ ch'.spec = ch.spec /\ ch'.fin = ch.fin /\ ch'.term = ch.term
                     /\ PhaseInv'
    <2>1. CASE Retry
      BY <1>0, <2>1 DEF Retry, PhaseInv
    <2>2. CASE pc \in {"lookup", "create", "edit"} /\ Goto("status", SetError(ch.status))
      BY <1>1, <2>2
    <2>3. CASE Abort /\ UNCHANGED <<api, cache, watch>>
      BY <2>3 DEF Abort
    <2> QED
      BY <1>2, <2>1, <2>2, <2>3 DEF GiveUp
  <1>3. ASSUME NEW s, Settle(s), pc \in {"lookup", "create", "edit"}
        PROVE  Goto("status", RequeueOrReady(s))
    BY <1>3 DEF Settle
  <1>4. CASE LookupMissing
    BY <1>1, <1>4 DEF LookupMissing
  <1>5. CASE LookupFound
    BY <1>1, <1>3, <1>5 DEF LookupFound
  <1>6. CASE CreateAttempt
    BY <1>1, <1>2, <1>3, <1>6 DEF CreateAttempt, FailedAttempt
  <1>7. CASE EditAttempt
    BY <1>1, <1>2, <1>3, <1>7 DEF EditAttempt, FailedAttempt
  <1>8. CASE Predelete
    BY <1>1, <1>8 DEF Predelete
  <1>9. CASE DeleteAttempt
    BY <1>1, <1>2, <1>9 DEF DeleteAttempt, FailedAttempt
  <1>10. CASE DeleteNotFound
    BY <1>1, <1>2, <1>10 DEF DeleteNotFound
  <1>11. CASE CallFails
    BY <1>0, <1>2, <1>11 DEF CallFails, FailedAttempt
  <1> QED
    BY <1>4, <1>5, <1>6, <1>7, <1>8, <1>9, <1>10, <1>11

LEMMA CFCallIInv ==
    ASSUME IInv,
           LookupMissing \/ LookupFound \/ CreateAttempt \/ EditAttempt
           \/ Predelete \/ DeleteAttempt \/ DeleteNotFound \/ CallFails
    PROVE  IInv'
  <1>0. TypeOK /\ TypeOK'
    BY CFCallType DEF IInv
  <1>1. UNCHANGED <<api, cache, watch>> /\ pc # "idle"
    BY CFCallShape DEF IInv
  <1>2. SyncInv' /\ LastInv' /\ (\A c \in CRs : Pending(c)' <=> Pending(c))
        /\ (\A c \in CRs : Guarded(c)' <=> Guarded(c))
    BY <1>1, NoSync DEF IInv
  <1>3. CASE pc' = "idle" /\ ~fresh'
    <2>1. FreshInv' /\ PhaseInv'
      BY <1>3 DEF FreshInv, PhaseInv
    <2>2. FinalizerInv'
      BY <1>1, <1>2, <1>3 DEF IInv, FinalizerInv, WatchGuards, Guarded
    <2> QED
      BY <1>0, <1>2, <2>1, <2>2 DEF IInv
  <1>4. CASE /\ pc' # "idle" /\ cur' = cur /\ fresh' = fresh
             /\ ch'.spec = ch.spec /\ ch'.fin = ch.fin /\ ch'.term = ch.term
             /\ PhaseInv'
    <2>0. ch # None
      BY <1>0, <1>1, NoneAssumption DEF TypeOK
    <2>1. FreshInv'
      BY <1>1, <1>4 DEF IInv, FreshInv, Pending
    <2>2. FinalizerInv'
      BY <1>1, <1>2, <1>4, <2>0 DEF IInv, FinalizerInv, WatchGuards, Guarding, Guarded
    <2> QED
      BY <1>0, <1>2, <1>4, <2>1, <2>2 DEF IInv
  <1> QED
    BY <1>3, <1>4, CFCallShape DEF IInv

\* A write to c that keeps the finalizer, or puts it there, when an older
\* version may still pass for one that carries it.
LEMMA PutFinalizer ==
    ASSUME IInv, NEW c \in CRs, NEW obj \in Object \cup {None}, Put(c, obj), cache' = cache,
           \/ obj # None /\ obj.fin
           \/ /\ ~Guarding(obj)
              /\ ~Guarding(cache[c])
              /\ \A i \in DOMAIN watch : watch[i].cr = c => ~Guarding(watch[i].obj)
    PROVE  /\ \A d \in CRs : Guarding(cache'[d]) => Guarded(d)'
           /\ WatchGuards'
  <1>1. /\ api'[c] = obj /\ \A d \in CRs \ {c} : api'[d] = api[d]
        /\ \A i \in DOMAIN watch' : \/ i \in DOMAIN watch /\ watch'[i] = watch[i]
                                    \/ watch'[i] = [cr |-> c, obj |-> obj]
    BY PutSync DEF IInv
  <1>2. \A i \in DOMAIN watch : watch[i].cr \in CRs
    <2>1. watch \in Seq(Event)
      BY DEF IInv, TypeOK, Event
    <2>2. \A i \in DOMAIN watch : watch[i] \in Event
      BY <2>1
    <2> QED
      BY <2>2 DEF Event
  <1>3. /\ \A d \in CRs : Guarding(cache[d]) => Guarded(d)
        /\ \A i \in DOMAIN watch : Guarding(watch[i].obj) => Guarded(watch[i].cr)
    BY DEF IInv, FinalizerInv, WatchGuards
  <1>4. /\ \A d \in CRs \ {c} : Guarded(d) <=> api'[d] # None /\ api'[d].fin
        /\ obj # None /\ obj.fin => api'[c] # None /\ api'[c].fin
    BY <1>1 DEF Guarded
  <1>5. ASSUME NEW d \in CRs, Guarding(cache'[d]) PROVE Guarded(d)'
    BY <1>3, <1>4, <1>5 DEF Guarded
  <1>6. ASSUME NEW i \in DOMAIN watch', Guarding(watch'[i].obj)
        PROVE  api'[watch'[i].cr] # None /\ api'[watch'[i].cr].fin
    <2>1. CASE i \in DOMAIN watch /\ watch'[i] = watch[i]
      BY <1>2, <1>3, <1>4, <1>6, <2>1
    <2>2. CASE watch'[i] = [cr |-> c, obj |-> obj]
      <3>1. watch'[i].cr = c /\ watch'[i].obj = obj
        BY <2>2
      <3>2. obj # None /\ obj.fin
        BY <1>6, <3>1 DEF Guarding
      <3> QED
        BY <1>4, <3>1, <3>2
    <2> QED
      BY <1>1, <1>6, <2>1, <2>2
  <1>7. WatchGuards'
    BY <1>6 DEF WatchGuards, Guarding, Guarded
  <1> QED
    BY <1>5, <1>7

LEMMA APIWriteIInv ==
    ASSUME IInv, AddFinalizer \/ Release \/ PersistStatus \/ WriteFails
    PROVE  IInv'
  <1>0. TypeOK /\ TypeOK'
    BY APIWriteType DEF IInv
  <1>1. /\ pc \in APIWrites /\ cur \in CRs /\ ch \in Object /\ ch # None
        /\ pc' = "idle" /\ ~fresh' /\ cache' = cache
    BY <1>0, NoneAssumption
       DEF TypeOK, AddFinalizer, Release, PersistStatus, WriteFails, Done, Abort, APIWrites
  <1>2. FreshInv' /\ PhaseInv'
    BY <1>1 DEF FreshInv, PhaseInv
  <1>3. CASE AddFinalizer
    <2> DEFINE obj == [ch EXCEPT !.fin = TRUE, !.status = api[cur].status]
    <2>1. api[cur] \in Object
      BY <1>0, <1>1, <1>3 DEF AddFinalizer, IInv, FreshInv, TypeOK
    <2>2. obj \in Object /\ obj # None
      BY <1>1, <2>1, ObjectFields, NoneAssumption
    <2>3. obj.fin
      BY <1>1 DEF Object
    <2>4. Put(cur, obj)
      BY <1>3 DEF AddFinalizer
    <2> HIDE DEF obj
    <2>5. SyncInv' /\ LastInv'
      BY <1>0, <1>1, <2>2, <2>4, PutSync DEF IInv
    <2>6. FinalizerInv'
      BY <1>1, <2>2, <2>3, <2>4, PutFinalizer DEF FinalizerInv
    <2> QED
      BY <1>0, <1>2, <2>5, <2>6 DEF IInv
  <1>4. CASE Release
    <2>1. Put(cur, None) /\ fresh /\ pc = "release"
      BY <1>4 DEF Release
    <2>2. ~Pending(cur) /\ cache[cur] = api[cur] /\ api[cur] # None /\ api[cur].term
      BY <2>1 DEF IInv, FreshInv, PhaseInv
    <2>3. ~Guarding(None) /\ ~Guarding(cache[cur])
      BY <2>2 DEF Guarding
    <2>4. \A i \in DOMAIN watch : watch[i].cr # cur
      BY <2>2 DEF Pending
    <2>5. SyncInv' /\ LastInv'
      BY <1>0, <1>1, <2>1, PutSync DEF IInv
    <2>6. FinalizerInv'
      BY <1>1, <2>1, <2>3, <2>4, PutFinalizer DEF FinalizerInv
    <2> QED
      BY <1>0, <1>2, <2>5, <2>6 DEF IInv
  <1>5. CASE PersistStatus
    <2>1. fresh /\ pc = "status"
      BY <1>5 DEF PersistStatus
    <2>2. /\ ~Pending(cur) /\ cache[cur] = api[cur] /\ api[cur] # None
          /\ api[cur] \in Object
      BY <1>0, <1>1, <2>1 DEF IInv, FreshInv, TypeOK
    <2>3. CASE Put(cur, WithStatus(api[cur], ch.status))
      <3> DEFINE obj == WithStatus(api[cur], ch.status)
      <3>1. obj \in Object /\ obj # None /\ obj.fin = api[cur].fin /\ obj.term = api[cur].term
        BY <1>1, <2>2, ObjectFields, WithStatusType, NoneAssumption
      <3>2. obj.fin \/ (~Guarding(obj) /\ ~Guarding(cache[cur]))
        BY <2>2, <3>1 DEF Guarding
      <3>3. \A i \in DOMAIN watch : watch[i].cr # cur
        BY <2>2 DEF Pending
      <3> HIDE DEF obj
      <3>4. Put(cur, obj)
        BY <2>3 DEF obj
      <3>5. SyncInv' /\ LastInv'
        BY <1>0, <1>1, <3>1, <3>4, PutSync DEF IInv
      <3>6. FinalizerInv'
        BY <1>1, <3>1, <3>2, <3>3, <3>4, PutFinalizer DEF FinalizerInv
      <3> QED
        BY <1>0, <1>2, <3>5, <3>6 DEF IInv
    <2>4. CASE UNCHANGED <<api, watch>>
      <3>1. SyncInv' /\ LastInv' /\ (\A c \in CRs : Guarded(c)' <=> Guarded(c))
        BY <1>1, <2>4, NoSync DEF IInv
      <3>2. FinalizerInv'
        BY <1>1, <2>4 DEF IInv, FinalizerInv, WatchGuards, Guarded
      <3> QED
        BY <1>0, <1>2, <3>1, <3>2 DEF IInv
    <2> QED
      BY <1>5, <2>3, <2>4 DEF PersistStatus
  <1>6. CASE WriteFails
    <2>1. UNCHANGED <<api, cache, watch>>
      BY <1>6 DEF WriteFails
    <2>2. SyncInv' /\ LastInv'
      BY <2>1, NoSync DEF IInv
    <2>3. FinalizerInv'
      BY <1>1, <2>1 DEF IInv, FinalizerInv, WatchGuards, Guarded
    <2> QED
      BY <1>0, <1>2, <2>2, <2>3 DEF IInv
  <1> QED
    BY <1>3, <1>4, <1>5, <1>6

LEMMA UserIInv ==
    ASSUME IInv, NEW c \in CRs, User(c)
    PROVE  IInv'
  <1>0. TypeOK /\ TypeOK'
    BY UserType DEF IInv
  <1>1. PICK obj \in Object \cup {None} :
              /\ PutByOther(c, obj)
              /\ \/ /\ api[c] = None
                    /\ obj # None /\ ~obj.fin /\ ~obj.term
                 \/ /\ api[c] # None /\ obj # None
                    /\ obj.fin = api[c].fin /\ obj.status = api[c].status
                    /\ api[c].term => obj.term
                 \/ /\ api[c] # None /\ obj = None
                    /\ ~api[c].fin /\ ~api[c].term
    BY <1>0, UserPut
  <1>2. Put(c, obj) /\ UNCHANGED <<cache, pc, cur, ch>> /\ fresh' = (fresh /\ cur # c)
    BY <1>1 DEF PutByOther
  <1>3. /\ SyncInv' /\ LastInv'
        /\ \A d \in CRs : Pending(d)' <=> d = c \/ Pending(d)
        /\ api'[c] = obj /\ \A d \in CRs \ {c} : api'[d] = api[d]
    BY <1>0, <1>2, PutSync DEF IInv
  <1>4. fresh => cur \in CRs
    BY <1>0 DEF TypeOK
  <1>5. FreshInv'
    BY <1>2, <1>3, <1>4 DEF IInv, FreshInv
  <1>6. PhaseInv'
    BY <1>2 DEF IInv, PhaseInv
  <1>7. ~Guarded(c) => /\ ~Guarding(cache[c])
                       /\ \A i \in DOMAIN watch : watch[i].cr = c => ~Guarding(watch[i].obj)
                       /\ pc # "idle" /\ cur = c => ~Guarding(ch)
    BY DEF IInv, FinalizerInv, WatchGuards
  <1>8. Guarded(c) => obj # None /\ obj.fin
    BY <1>1 DEF Guarded
  <1>9. ~Guarded(c) => ~Guarding(obj)
    BY <1>1 DEF Guarded, Guarding
  <1>10. FinalizerInv'
    <2>1. pc' # "idle" /\ Guarding(ch') => Guarded(cur)'
      <3> SUFFICES ASSUME pc # "idle", Guarding(ch) PROVE Guarded(cur)'
        BY <1>2 DEF Guarding
      <3>1. cur \in CRs /\ Guarded(cur)
        BY <1>0 DEF IInv, FinalizerInv, TypeOK
      <3> QED
        BY <1>2, <1>3, <1>7, <1>8, <3>1 DEF Guarded
    <2>2. /\ \A d \in CRs : Guarding(cache'[d]) => Guarded(d)'
          /\ WatchGuards'
      BY <1>2, <1>7, <1>8, <1>9, PutFinalizer
    <2> QED
      BY <2>1, <2>2 DEF FinalizerInv
  <1> QED
    BY <1>0, <1>3, <1>5, <1>6, <1>10 DEF IInv

\* The remaining steps: the watch, others, and restarts.
LEMMA DeliverIInv ==
    ASSUME IInv, TypeOK', Deliver
    PROVE  IInv'
  <1>1. /\ SyncInv' /\ LastInv'
        /\ \A d \in CRs : ~Pending(d) => ~Pending(d)' /\ cache'[d] = cache[d]
        /\ \A i \in DOMAIN watch' : \E j \in DOMAIN watch : watch'[i] = watch[j]
        /\ \A d \in CRs : \/ cache'[d] = cache[d]
                          \/ \E j \in DOMAIN watch : /\ watch[j].cr = d
                                                     /\ cache'[d] = watch[j].obj
    BY DeliverSync DEF IInv
  <1>2. UNCHANGED <<api, pc, cur, ch, fresh>>
    BY DEF Deliver, worker
  <1>3. fresh => cur \in CRs
    BY DEF IInv, TypeOK
  <1>4. FreshInv'
    BY <1>1, <1>2, <1>3 DEF IInv, FreshInv
  <1>5. PhaseInv'
    BY <1>2 DEF IInv, PhaseInv
  <1>6. FinalizerInv'
    BY <1>1, <1>2 DEF IInv, FinalizerInv, WatchGuards, Guarded, Guarding
  <1> QED
    BY <1>1, <1>4, <1>5, <1>6 DEF IInv

LEMMA QuietIInv ==
    ASSUME IInv, TypeOK', UNCHANGED <<api, cache, watch, pc, cur, ch, fresh>>
    PROVE  IInv'
  <1>1. SyncInv' /\ LastInv' /\ (\A c \in CRs : Guarded(c)' <=> Guarded(c))
    BY NoSync DEF IInv
  <1>2. FreshInv' /\ PhaseInv'
    BY DEF IInv, FreshInv, PhaseInv, Pending
  <1>3. FinalizerInv'
    BY <1>1 DEF IInv, FinalizerInv, WatchGuards, Guarded
  <1> QED
    BY <1>1, <1>2, <1>3 DEF IInv

LEMMA RestartIInv ==
    ASSUME IInv, TypeOK', Restart
    PROVE  IInv'
  <1>1. cache' = api /\ api' = api /\ watch' = <<>> /\ pc' = "idle" /\ ~fresh'
    BY DEF Restart
  <1>2. SyncInv' /\ LastInv' /\ FreshInv' /\ PhaseInv'
    BY <1>1 DEF SyncInv, LastInv, FreshInv, PhaseInv
  <1>3. FinalizerInv'
    BY <1>1 DEF FinalizerInv, WatchGuards, Guarding, Guarded
  <1> QED
    BY <1>2, <1>3 DEF IInv

LEMMA IInvNext ==
    ASSUME IInv, [Next]_vars
    PROVE  IInv'
  <1>0. TypeOK'
    BY TypeNext DEF IInv
  <1>1. ASSUME NEW c \in CRs, DriftEvent(c) PROVE IInv'
    BY <1>0, <1>1, QuietIInv DEF DriftEvent, worker
  <1>2. CASE External
    BY <1>0, <1>2, QuietIInv
       DEF External, ExtCreate, ExtEdit, ExtDelete, SSLChanges, OnlyCF, worker
  <1>3. ASSUME NEW z \in Zones, ZoneChanges(z) PROVE IInv'
    BY <1>0, <1>3, QuietIInv DEF ZoneChanges, worker
  <1>4. CASE UNCHANGED vars
    BY <1>0, <1>4, QuietIInv DEF vars, worker
  <1> QED
    BY <1>0, <1>1, <1>2, <1>3, <1>4, ReconcileIInv, UserIInv, CFCallIInv, APIWriteIInv,
       DeliverIInv, RestartIInv DEF Next, WorkerStep

LEMMA Invariance == Spec => []IInv
  <1>1. IInv /\ [Next]_vars => IInv'
    BY IInvNext
  <1> QED
    BY <1>1, InitIInv, PTL DEF Spec

-----------------------------------------------------------------------------
(***************************************************************************)
(* Theorems                                                                *)
(***************************************************************************)

\* Every variable keeps its type; in particular no API write of the worker
\* ever reads an object that is not there.
THEOREM TypeCorrect == Spec => []TypeOK
  <1>1. IInv => TypeOK
    BY DEF IInv
  <1> QED
    BY <1>1, Invariance, PTL

\* A record is only ever created in CF for a CR that still carries the
\* finalizer at the API server (handleCreate runs after the finalizer's
\* requeue, on a copy that may be outdated).
THEOREM CreatesAreGuarded == Spec => []CreateUnderFinalizer
  <1>1. IInv => CreateUnderFinalizer
    <2> SUFFICES ASSUME IInv, pc = "create" PROVE api[cur] # None /\ api[cur].fin
      BY DEF CreateUnderFinalizer
    <2>1. ch # None /\ ch.fin /\ ~ch.term
      BY NoneAssumption DEF IInv, TypeOK, PhaseInv
    <2> QED
      BY <2>1 DEF IInv, FinalizerInv, WatchGuards, Guarding, Guarded
  <1> QED
    BY <1>1, Invariance, PTL

\* What an API write of the worker does to its CR, and that it touches no other.
LEMMA WorkerWrites ==
    ASSUME IInv, WorkerStep, NEW c \in CRs, api'[c] # api[c]
    PROVE  /\ cur = c /\ api[c] # None
           /\ \/ pc = "release" /\ api'[c] = None /\ api[c].term
              \/ /\ pc # "release" /\ api'[c] # None /\ ~api[c].term
                 /\ api'[c].spec = api[c].spec /\ api'[c].term = api[c].term
  <1>0. TypeOK /\ FreshInv /\ PhaseInv
    BY DEF IInv
  <1>1. AddFinalizer \/ Release \/ PersistStatus
    BY <1>0, CFCallShape DEF WorkerStep, WriteFails
  <1>2. /\ cur \in CRs /\ ch \in Object /\ fresh
        /\ api[cur] # None /\ api[cur] \in Object
        /\ ch.spec = api[cur].spec /\ ch.term = api[cur].term
    BY <1>0, <1>1 DEF AddFinalizer, Release, PersistStatus, TypeOK, FreshInv
  <1>3. CASE AddFinalizer
    <2> DEFINE obj == [ch EXCEPT !.fin = TRUE, !.status = api[cur].status]
    <2>1. obj \in Object /\ obj # None /\ obj.spec = ch.spec /\ obj.term = ch.term
      <3>1. api[cur].status \in Status
        BY <1>2, ObjectFields
      <3> QED
        BY <1>2, <3>1, NoneAssumption DEF Object
    <2>2. api' = [api EXCEPT ![cur] = obj] /\ pc = "finalizer"
      BY <1>3 DEF AddFinalizer, Put
    <2> HIDE DEF obj
    <2>3. cur = c /\ api'[c] = obj
      BY <1>0, <2>2 DEF TypeOK
    <2> QED
      BY <1>0, <1>2, <2>1, <2>2, <2>3 DEF PhaseInv
  <1>4. CASE Release
    <2>1. api' = [api EXCEPT ![cur] = None] /\ pc = "release"
      BY <1>4 DEF Release, Put
    <2>2. cur = c /\ api'[c] = None
      BY <1>0, <2>1 DEF TypeOK
    <2> QED
      BY <1>0, <1>2, <2>1, <2>2 DEF PhaseInv
  <1>5. CASE PersistStatus
    <2> DEFINE obj == WithStatus(api[cur], ch.status)
    <2>1. obj \in Object /\ obj # None /\ obj.spec = ch.spec /\ obj.term = ch.term
      BY <1>2, ObjectFields, WithStatusType, NoneAssumption
    <2>2. api' = [api EXCEPT ![cur] = obj] /\ pc = "status"
      BY <1>5 DEF PersistStatus, Put
    <2> HIDE DEF obj
    <2>3. cur = c /\ api'[c] = obj
      BY <1>0, <2>2 DEF TypeOK
    <2> QED
      BY <1>0, <1>2, <2>1, <2>2, <2>3 DEF PhaseInv
  <1> QED
    BY <1>1, <1>3, <1>4, <1>5

\* No write of the worker undoes a user's write that came after its read, and
\* it lets go only of objects being deleted (Update and Status().Update under
\* optimistic concurrency).
THEOREM NoUpdateIsLost == Spec => NoLostUpdate
  <1>1. IInv /\ [Next]_vars =>
          [WorkerStep => \A c \in CRs :
             api'[c] # api[c] =>
               IF api'[c] = None THEN api[c].term
               ELSE api'[c].spec = api[c].spec /\ api'[c].term = api[c].term]_vars
    BY WorkerWrites
  <1> QED
    BY <1>1, Invariance, PTL DEF Spec, NoLostUpdate

\* An object with the finalizer or a deletion request goes by the worker's release
\* only, and after the deletion request its status stays.
LEMMA APISteps ==
    ASSUME IInv, [Next]_vars, NEW c \in CRs, api[c] # None, api[c].fin \/ api[c].term
    PROVE  \/ Release /\ cur = c /\ api'[c] = None
           \/ /\ api'[c] # None
              /\ api[c].term => api'[c].term /\ api'[c].status = api[c].status
  <1>1. CASE WorkerStep
    <2>1. CASE pc = "release" /\ api' # api
      <3>1. Release
        BY <1>1, <2>1, CFCallShape
           DEF WorkerStep, IInv, AddFinalizer, PersistStatus, WriteFails
      <3> QED
        BY <1>1, <3>1, WorkerWrites
    <2> QED
      BY <1>1, <2>1, WorkerWrites
  <1>2. ASSUME NEW d \in CRs, User(d)
        PROVE  /\ api'[c] # None
               /\ api[c].term => api'[c].term /\ api'[c].status = api[c].status
    <2>1. PICK obj \in Object \cup {None} :
            /\ PutByOther(d, obj)
            /\ \/ /\ api[d] = None
                  /\ obj # None /\ ~obj.fin /\ ~obj.term
               \/ /\ api[d] # None /\ obj # None
                  /\ obj.fin = api[d].fin /\ obj.status = api[d].status
                  /\ api[d].term => obj.term
               \/ /\ api[d] # None /\ obj = None
                  /\ ~api[d].fin /\ ~api[d].term
      BY <1>2, UserPut DEF IInv
    <2>2. api' = [api EXCEPT ![d] = obj]
      BY <2>1 DEF PutByOther, Put
    <2>3. api'[c] = IF c = d THEN obj ELSE api[c]
      BY <2>2 DEF IInv, TypeOK
    <2> QED
      BY <2>1, <2>3
  <1>3. ASSUME NEW d \in CRs, Reconcile(d) PROVE api' = api
    BY <1>3 DEF Reconcile, ReconcileGone, ReconcileRelease, ReconcileDelete, ReconcileError,
                ReconcileAddFinalizer, ReconcileConflict, ReconcileLookup, Begin
  <1>4. ASSUME NEW d \in CRs, DriftEvent(d) PROVE api' = api
    BY <1>4 DEF DriftEvent
  <1>5. ASSUME NEW z \in Zones, ZoneChanges(z) PROVE api' = api
    BY <1>5 DEF ZoneChanges
  <1>6. CASE Deliver \/ External \/ Restart \/ UNCHANGED vars
    BY <1>6 DEF Deliver, External, ExtCreate, ExtEdit, ExtDelete, SSLChanges, OnlyCF,
                Restart, vars
  <1> QED
    BY <1>1, <1>2, <1>3, <1>4, <1>5, <1>6 DEF Next

\* The status of a terminating CR, with the id that handleDelete deletes by,
\* stays as it was at the deletion request until the finalizer's release.
THEOREM TerminatingStatusIsFrozen == Spec => TerminatingStatusFrozen
  <1>1. IInv /\ [Next]_vars =>
          [\A c \in CRs :
             api[c] # None /\ api[c].term =>
               \/ api'[c] = None /\ pc = "release" /\ cur = c
               \/ api'[c] # None /\ api'[c].term /\ api'[c].status = api[c].status]_vars
    BY APISteps DEF Release
  <1> QED
    BY <1>1, Invariance, PTL DEF Spec, TerminatingStatusFrozen
=============================================================================
