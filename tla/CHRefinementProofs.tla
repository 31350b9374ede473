------------------------- MODULE CHRefinementProofs -------------------------
(***************************************************************************)
(* The CustomHostname controller implements CHLifecycle, for any number of *)
(* CRs, hostnames and records, any policies, retries, faults and restarts. *)
(***************************************************************************)
EXTENDS CHRefinement, CustomHostnameRecordProofs, SequenceTheorems

-----------------------------------------------------------------------------
(***************************************************************************)
(* The mapping under changes of the API server                             *)
(***************************************************************************)

LEMMA MapPut ==
    ASSUME TypeOK, NEW c \in CRs, NEW obj \in Object \cup {None},
           api' = [api EXCEPT ![c] = obj], dryRun' = dryRun
    PROVE  /\ Phase' = [Phase EXCEPT ![c] = PhaseOf(obj)]
           /\ Id' = [Id EXCEPT ![c] = IdOf(obj)]
           /\ Kept' = [Kept EXCEPT ![c] = obj # None /\ Keeps(obj)]
  <1>1. \A d \in CRs : api'[d] = IF d = c THEN obj ELSE api[d]
    BY DEF TypeOK
  <1>2. Phase' = [Phase EXCEPT ![c] = PhaseOf(obj)]
    <2>1. Phase' = [d \in CRs |-> PhaseOf(api'[d])]
      BY DEF Phase
    <2>2. Phase' = [d \in CRs |-> IF d = c THEN PhaseOf(obj) ELSE PhaseOf(api[d])]
      BY <1>1, <2>1
    <2> QED
      BY <2>2 DEF Phase
  <1>3. Id' = [Id EXCEPT ![c] = IdOf(obj)]
    <2>1. Id' = [d \in CRs |-> IdOf(api'[d])]
      BY DEF Id
    <2>2. Id' = [d \in CRs |-> IF d = c THEN IdOf(obj) ELSE IdOf(api[d])]
      BY <1>1, <2>1
    <2> QED
      BY <2>2 DEF Id
  <1>4. Kept' = [Kept EXCEPT ![c] = obj # None /\ Keeps(obj)]
    BY <1>1 DEF Kept, Keeps
  <1> QED
    BY <1>2, <1>3, <1>4

LEMMA MapSame ==
    ASSUME UNCHANGED <<api, dryRun>>
    PROVE  UNCHANGED <<Phase, Id, Kept>>
  BY DEF Phase, Id, Kept, Keeps

LEMMA MapAt ==
    ASSUME NEW c \in CRs
    PROVE  Phase[c] = PhaseOf(api[c]) /\ Id[c] = IdOf(api[c])
           /\ Kept[c] = (api[c] # None /\ Keeps(api[c]))
  BY DEF Phase, Id, Kept

LEMMA KeptType == Kept \in [CRs -> BOOLEAN]
  BY DEF Kept

\* What decides whether a record is kept is the spec, and not the rest of the object.
LEMMA SameKeeps ==
    ASSUME NEW o, NEW p, o.spec = p.spec
    PROVE  Keeps(o) <=> Keeps(p)
  BY DEF Keeps

-----------------------------------------------------------------------------
(***************************************************************************)
(* The mapping under changes of CF                                         *)
(***************************************************************************)

RecordTriple == [host : Hosts, by : CRs \cup {None}, live : BOOLEAN]

ShownOf(recs) == [r \in DOMAIN recs |-> Shown(recs[r])]

LEMMA ShownType ==
    ASSUME NEW recs \in Seq(Record)
    PROVE  /\ ShownOf(recs) \in Seq(RecordTriple)
           /\ Len(ShownOf(recs)) = Len(recs)
           /\ \A r \in DOMAIN recs : ShownOf(recs)[r] = Shown(recs[r])
  <1>1. Len(recs) \in Nat /\ DOMAIN recs = 1..Len(recs)
    OBVIOUS
  <1>2. ASSUME NEW rec \in Record PROVE Shown(rec) \in RecordTriple
    BY DEF Record, Shown, RecordTriple
  <1>3. \A r \in DOMAIN recs : Shown(recs[r]) \in RecordTriple
    BY <1>1, <1>2
  <1>4. ShownOf(recs) \in [1..Len(recs) -> RecordTriple]
    BY <1>1, <1>3 DEF ShownOf
  <1>5. ShownOf(recs) \in Seq(RecordTriple)
    BY <1>1, <1>4, SeqDef
  <1>6. Len(ShownOf(recs)) = Len(recs)
    BY <1>1, <1>4, <1>5
  <1> QED
    BY <1>5, <1>6 DEF ShownOf

LEMMA RecordsSame ==
    ASSUME DOMAIN cf' = DOMAIN cf, \A r \in DOMAIN cf : Shown(cf'[r]) = Shown(cf[r])
    PROVE  ShownRecords' = ShownRecords
  BY DEF ShownRecords

LEMMA RecordsAppend ==
    ASSUME TypeOK, TypeOK', NEW z, NEW h, NEW cfg, NEW ssl, NEW by,
           CFCreate(z, h, cfg, ssl, by)
    PROVE  ShownRecords' = Append(ShownRecords, [host |-> h, by |-> by, live |-> TRUE])
  <1> DEFINE rec == [zone |-> z, host |-> h, cfg |-> cfg, ssl |-> ssl, by |-> by,
                     live |-> TRUE]
             e == [host |-> h, by |-> by, live |-> TRUE]
             n == Len(cf)
  <1>1. cf \in Seq(Record) /\ n \in Nat /\ DOMAIN cf = 1..n /\ cf' = Append(cf, rec)
        /\ cf' \in Seq(Record)
    BY DEF TypeOK, CFCreate
  <1>2. Shown(rec) = e
    BY DEF Shown
  <1> HIDE DEF rec, e
  <1>3. Len(cf') = n + 1 /\ cf'[n + 1] = rec /\ \A r \in 1..n : cf'[r] = cf[r]
    BY <1>1
  <1>4. ShownRecords = ShownOf(cf) /\ ShownRecords' = ShownOf(cf')
    BY DEF ShownRecords, ShownOf
  <1>5. /\ ShownRecords \in Seq(RecordTriple) /\ Len(ShownRecords) = n
        /\ \A r \in 1..n : ShownRecords[r] = Shown(cf[r])
    BY <1>1, <1>4, ShownType
  <1>6. /\ ShownRecords' \in Seq(RecordTriple) /\ Len(ShownRecords') = n + 1
        /\ \A r \in DOMAIN cf' : ShownRecords'[r] = Shown(cf'[r])
    BY <1>1, <1>3, <1>4, ShownType
  <1>7. DOMAIN cf' = 1..(n + 1)
    BY <1>1, <1>3
  <1>8. ShownRecords'[n + 1] = e /\ \A r \in 1..n : ShownRecords'[r] = ShownRecords[r]
    BY <1>1, <1>2, <1>3, <1>5, <1>6, <1>7
  <1>9. e \in RecordTriple
    BY <1>1, <1>6, <1>8, ElementOfSeq
  <1>10. /\ Append(ShownRecords, e) \in Seq(RecordTriple)
        /\ Len(Append(ShownRecords, e)) = n + 1
        /\ \A r \in 1..n : Append(ShownRecords, e)[r] = ShownRecords[r]
        /\ Append(ShownRecords, e)[n + 1] = e
    BY <1>5, <1>9, AppendProperties
  <1>11. \A r \in 1..(n + 1) : ShownRecords'[r] = Append(ShownRecords, e)[r]
    BY <1>1, <1>8, <1>10
  <1> QED
    BY <1>6, <1>10, <1>11, SeqEqual DEF e

\* What is shown of a record that is deleted.
LEMMA ShownDead ==
    ASSUME NEW rec \in Record
    PROVE  Shown([rec EXCEPT !.live = FALSE]) = [Shown(rec) EXCEPT !.live = FALSE]
  <1> DEFINE dead == [rec EXCEPT !.live = FALSE]
             shown == Shown(rec)
             t == [shown EXCEPT !.live = FALSE]
             u == Shown(dead)
  <1>1. dead.host = rec.host /\ dead.by = rec.by /\ dead.live = FALSE /\ rec.host \in Hosts
        /\ rec.by \in CRs \cup {None} /\ rec.live \in BOOLEAN
    BY DEF Record
  <1>2. shown \in RecordTriple /\ shown.host = rec.host /\ shown.by = rec.by
    BY <1>1 DEF Shown, RecordTriple
  <1> HIDE DEF dead, shown
  <1>3. t \in RecordTriple /\ t.host = rec.host /\ t.by = rec.by /\ t.live = FALSE
    BY <1>2 DEF RecordTriple
  <1>4. u \in RecordTriple /\ u.host = rec.host /\ u.by = rec.by /\ u.live = FALSE
    BY <1>1 DEF Shown, RecordTriple
  <1> HIDE DEF t, u
  <1>5. t = u
    BY <1>3, <1>4 DEF RecordTriple
  <1> QED
    BY <1>5 DEF t, u, dead, shown

LEMMA RecordsDie ==
    ASSUME TypeOK, NEW i \in DOMAIN cf, cf' = [cf EXCEPT ![i].live = FALSE]
    PROVE  ShownRecords' = [ShownRecords EXCEPT ![i].live = FALSE]
  <1>1. cf[i] \in Record /\ DOMAIN cf' = DOMAIN cf
    BY DEF TypeOK
  <1>2. \A r \in DOMAIN cf : cf'[r] = IF r = i THEN [cf[i] EXCEPT !.live = FALSE] ELSE cf[r]
    BY DEF TypeOK
  <1>3. Shown([cf[i] EXCEPT !.live = FALSE]) = [Shown(cf[i]) EXCEPT !.live = FALSE]
    BY <1>1, ShownDead
  <1>4. \A r \in DOMAIN cf :
           Shown(cf'[r]) = IF r = i THEN [Shown(cf[i]) EXCEPT !.live = FALSE]
                           ELSE Shown(cf[r])
    BY <1>2, <1>3
  <1>5. ShownRecords' = [r \in DOMAIN cf |-> Shown(cf'[r])]
    BY <1>1 DEF ShownRecords
  <1>6. ShownRecords' = [r \in DOMAIN cf |->
                           IF r = i THEN [Shown(cf[i]) EXCEPT !.live = FALSE]
                           ELSE Shown(cf[r])]
    BY <1>4, <1>5
  <1>7. [ShownRecords EXCEPT ![i].live = FALSE]
          = [r \in DOMAIN cf |-> IF r = i THEN [Shown(cf[i]) EXCEPT !.live = FALSE]
                                 ELSE Shown(cf[r])]
    BY DEF ShownRecords
  <1> QED
    BY <1>6, <1>7

-----------------------------------------------------------------------------
(***************************************************************************)
(* The id of a CR is set and never taken back                              *)
(***************************************************************************)

IdInv == fresh => ch.status.id = api[cur].status.id \/ ch.status.id # 0

LEMMA ReconcileKeepsId ==
    ASSUME IInv, NEW c \in CRs, Reconcile(c), pc' # "idle"
    PROVE  cur' = c /\ fresh' = ~Pending(c) /\ ch'.status.id = cache[c].status.id
  <1>1. CASE ReconcileGone(c)
    BY <1>1 DEF ReconcileGone, Takes, worker
  <1>2. CASE ReconcileRelease(c) \/ ReconcileDelete(c) \/ ReconcileAddFinalizer(c)
             \/ ReconcileLookup(c)
    BY <1>2 DEF ReconcileRelease, ReconcileDelete, ReconcileAddFinalizer, ReconcileLookup,
                Begin
  <1>3. CASE ReconcileError(c) \/ ReconcileConflict(c)
    <2> DEFINE s == cache[c].status
    <2>1. /\ cur' = c /\ fresh' = ~Pending(c) /\ cache[c] # None
          /\ \/ ch' = WithStatus(cache[c], SetError(s))
             \/ ch' = WithStatus(cache[c], SetConflict(s))
      BY <1>3 DEF ReconcileError, ReconcileConflict, Managed, Alive, Begin
    <2>2. cache[c] \in Object /\ s \in Status
      BY <2>1, CachedType, ObjectFields DEF IInv
    <2>3. /\ SetError(s) \in Status /\ SetConflict(s) \in Status
          /\ SetError(s).id = s.id /\ SetConflict(s).id = s.id
      BY <2>2, StatusTypes, SameIds
    <2> QED
      BY <2>1, <2>2, <2>3, WithStatusType
  <1> QED
    BY <1>1, <1>2, <1>3 DEF Reconcile

LEMMA IdNext ==
    ASSUME IInv, IdInv, [Next]_vars
    PROVE  IdInv'
  <1>1. CASE pc' = "idle"
    BY <1>1, IInvNext DEF IInv, TypeOK, IdInv
  <1>2. CASE UNCHANGED <<pc, cur, ch, dryRun>> /\ (fresh' => fresh /\ api'[cur] = api[cur])
    BY <1>2 DEF IdInv
  <1>3. CASE CFCall /\ GoesOn /\ UNCHANGED <<api, fresh>>
    <2>1. PICK s \in Status : /\ ch' = WithStatus(ch, s) /\ cur' = cur
                              /\ s.id = ch.status.id \/ s.id # 0
      BY <1>3 DEF GoesOn
    <2>2. ch'.status = s
      BY <1>3, <2>1, CallCopy, CFCallBusy
    <2> QED
      BY <1>3, <2>1, <2>2 DEF IdInv
  <1>4. ASSUME NEW c \in CRs, Reconcile(c), UNCHANGED api, pc' # "idle" PROVE IdInv'
    BY <1>4, ReconcileKeepsId DEF IdInv, IInv, SyncInv
  <1> QED
    BY <1>1, <1>2, <1>3, <1>4, Moves

LEMMA IdInvariance == Spec => []IdInv
  <1>1. Init => IdInv
    BY DEF Init, IdInv
  <1> QED
    BY <1>1, IdNext, Invariance, PTL DEF Spec

-----------------------------------------------------------------------------
(***************************************************************************)
(* Steps of users                                                          *)
(***************************************************************************)

LEMMA PutByOtherMaps ==
    ASSUME TypeOK, NEW c \in CRs, NEW obj \in Object \cup {None}, PutByOther(c, obj)
    PROVE  /\ Phase' = [Phase EXCEPT ![c] = PhaseOf(obj)]
           /\ Id' = [Id EXCEPT ![c] = IdOf(obj)]
           /\ Kept' = [Kept EXCEPT ![c] = obj # None /\ Keeps(obj)]
           /\ UNCHANGED ShownRecords
  <1>1. api' = [api EXCEPT ![c] = obj] /\ dryRun' = dryRun /\ cf' = cf
    BY DEF PutByOther, Put
  <1>2. UNCHANGED ShownRecords
    BY <1>1 DEF ShownRecords
  <1> QED
    BY <1>1, <1>2, MapPut

LEMMA MapTypes ==
    /\ Phase = [c \in CRs |-> Phase[c]] /\ Id = [c \in CRs |-> Id[c]]
    /\ Kept = [c \in CRs |-> Kept[c]]
  BY DEF Phase, Id, Kept

LEMMA CreateCRMaps ==
    ASSUME TypeOK, NEW c \in CRs, CreateCR(c)
    PROVE  Lifecycle!Claim(c)
  <1>1. PICK spec \in Specs : PutByOther(c, NewObject(spec))
    BY DEF CreateCR, NewObject
  <1> DEFINE obj == NewObject(spec)
  <1>2. obj \in Object /\ obj # None
    <2>1. NewStatus \in Status
      BY DEF NewStatus, Status, Conds
    <2>2. obj \in Object
      BY <2>1 DEF NewObject, Object
    <2> QED
      BY <2>2, NoneAssumption
  <1>3. PhaseOf(obj) = "claimed" /\ IdOf(obj) = 0
    BY <1>2 DEF PhaseOf, IdOf, NewObject, NewStatus
  <1>4. Phase[c] = "absent" /\ Id[c] = 0
    BY MapAt DEF CreateCR, PhaseOf, IdOf
  <1> HIDE DEF obj
  <1>5. /\ Phase' = [Phase EXCEPT ![c] = "claimed"] /\ Id' = [Id EXCEPT ![c] = 0]
        /\ Kept' = [Kept EXCEPT ![c] = obj # None /\ Keeps(obj)]
        /\ UNCHANGED ShownRecords
    BY <1>1, <1>2, <1>3, PutByOtherMaps DEF obj
  <1>6. Id' = Id
    BY <1>4, <1>5, MapTypes
  <1>7. (obj # None /\ Keeps(obj)) \in BOOLEAN
    BY DEF Keeps
  <1> QED
    BY <1>4, <1>5, <1>6, <1>7 DEF Lifecycle!Claim, Lifecycle!Settable

LEMMA EditSpecMaps ==
    ASSUME TypeOK, NEW c \in CRs, EditSpec(c)
    PROVE  Lifecycle!PoliciesChange
  <1>1. PICK spec \in Specs : PutByOther(c, [api[c] EXCEPT !.spec = spec])
    BY DEF EditSpec
  <1>2. PICK obj : obj = [api[c] EXCEPT !.spec = spec]
    OBVIOUS
  <1>3. api[c] \in Object /\ api[c] # None
    BY DEF EditSpec, TypeOK
  <1>4. obj \in Object /\ obj # None /\ obj.status = api[c].status /\ obj.fin = api[c].fin
        /\ obj.term = api[c].term
    BY <1>2, <1>3, NoneAssumption DEF Object
  <1>5. PhaseOf(obj) = Phase[c] /\ IdOf(obj) = Id[c]
    BY <1>3, <1>4, MapAt DEF PhaseOf, IdOf
  <1>6. UNCHANGED <<Phase, Id, ShownRecords>>
    BY <1>1, <1>2, <1>4, <1>5, PutByOtherMaps, MapTypes
  <1>7. Kept' \in [CRs -> BOOLEAN]
    BY DEF Kept
  <1> QED
    BY <1>6, <1>7 DEF Lifecycle!PoliciesChange

LEMMA DeleteCRMaps ==
    ASSUME TypeOK, CopyInv, NEW c \in CRs, DeleteCR(c)
    PROVE  Lifecycle!Doom(c) \/ Lifecycle!Withdraw(c)
  <1>1. api[c] \in Object /\ api[c] # None /\ ~api[c].term
    BY DEF DeleteCR, TypeOK
  <1>2. CASE api[c].fin
    <2>1. PICK obj : obj = [api[c] EXCEPT !.term = TRUE]
      OBVIOUS
    <2>2. PutByOther(c, obj)
      BY <1>2, <2>1 DEF DeleteCR
    <2>3. obj \in Object /\ obj # None /\ obj.status = api[c].status /\ obj.fin = api[c].fin
          /\ obj.term /\ obj.spec = api[c].spec
      BY <1>1, <2>1, NoneAssumption DEF Object
    <2>4. PhaseOf(obj) = "doomed" /\ IdOf(obj) = Id[c] /\ Phase[c] = "held"
          /\ (obj # None /\ Keeps(obj)) = Kept[c]
      BY <1>1, <1>2, <2>3, MapAt, SameKeeps DEF PhaseOf, IdOf
    <2>5. /\ Phase' = [Phase EXCEPT ![c] = "doomed"] /\ Id' = [Id EXCEPT ![c] = Id[c]]
          /\ Kept' = [Kept EXCEPT ![c] = Kept[c]] /\ UNCHANGED ShownRecords
      BY <2>2, <2>3, <2>4, PutByOtherMaps
    <2>6. Id' = Id /\ Kept' = Kept
      BY <2>5, MapTypes
    <2> QED
      BY <2>4, <2>5, <2>6 DEF Lifecycle!Doom
  <1>3. CASE ~api[c].fin
    <2>1. PutByOther(c, None)
      BY <1>3 DEF DeleteCR
    <2>2. Id[c] = 0 /\ Phase[c] = "claimed" /\ IdOf(None) = 0 /\ PhaseOf(None) = "absent"
      BY <1>1, <1>3, MapAt DEF IdOf, PhaseOf, CopyInv, APIGood, Good
    <2>3. /\ Phase' = [Phase EXCEPT ![c] = "absent"] /\ Id' = [Id EXCEPT ![c] = 0]
          /\ Kept' = [Kept EXCEPT ![c] = None # None /\ Keeps(None)]
          /\ UNCHANGED ShownRecords
      BY <2>1, <2>2, PutByOtherMaps
    <2>4. Id' = Id
      BY <2>2, <2>3, MapTypes
    <2>5. (None # None /\ Keeps(None)) \in BOOLEAN
      BY DEF Keeps
    <2> QED
      BY <2>2, <2>3, <2>4, <2>5 DEF Lifecycle!Withdraw, Lifecycle!Settable
  <1> QED
    BY <1>2, <1>3

-----------------------------------------------------------------------------
(***************************************************************************)
(* Steps of the worker that write to the API server                        *)
(***************************************************************************)

LEMMA WriteMaps ==
    ASSUME TypeOK, cur \in CRs, NEW obj \in Object \cup {None}, Put(cur, obj),
           UNCHANGED <<cf, dryRun>>
    PROVE  /\ Phase' = [Phase EXCEPT ![cur] = PhaseOf(obj)]
           /\ Id' = [Id EXCEPT ![cur] = IdOf(obj)]
           /\ Kept' = [Kept EXCEPT ![cur] = obj # None /\ Keeps(obj)]
           /\ UNCHANGED ShownRecords
  <1>1. api' = [api EXCEPT ![cur] = obj]
    BY DEF Put
  <1>2. UNCHANGED ShownRecords
    BY DEF ShownRecords
  <1> QED
    BY <1>1, <1>2, MapPut

LEMMA AddFinalizerMaps ==
    ASSUME IInv, AddFinalizer
    PROVE  Lifecycle!Hold(cur) \/ UNCHANGED Lifecycle!lvars
  <1>1. /\ TypeOK /\ cur \in CRs /\ ch \in Object /\ ~ch.term
        /\ api[cur] \in Object /\ api[cur] # None
        /\ ch.spec = api[cur].spec /\ ch.fin = api[cur].fin /\ ch.term = api[cur].term
    BY DEF AddFinalizer, IInv, TypeOK, FreshInv, PhaseInv
  <1>2. PICK obj : obj = [ch EXCEPT !.fin = TRUE, !.status = api[cur].status]
    OBVIOUS
  <1>3. obj \in Object
    BY <1>1, <1>2, ObjectFields
  <1>4. obj # None /\ obj.status = api[cur].status /\ obj.spec = api[cur].spec
        /\ obj.fin /\ ~obj.term
    BY <1>1, <1>2, <1>3, NoneAssumption DEF Object
  <1>5. Put(cur, obj) /\ UNCHANGED <<cf, dryRun>>
    BY <1>2 DEF AddFinalizer
  <1>6. PhaseOf(obj) = "held" /\ IdOf(obj) = Id[cur] /\ (obj # None /\ Keeps(obj)) = Kept[cur]
        /\ Phase[cur] \in {"claimed", "held"}
    BY <1>1, <1>4, MapAt, SameKeeps DEF PhaseOf, IdOf
  <1>7. /\ Phase' = [Phase EXCEPT ![cur] = "held"] /\ Id' = [Id EXCEPT ![cur] = Id[cur]]
        /\ Kept' = [Kept EXCEPT ![cur] = Kept[cur]] /\ UNCHANGED ShownRecords
    BY <1>1, <1>3, <1>5, <1>6, WriteMaps
  <1>8. Id' = Id /\ Kept' = Kept
    BY <1>7, MapTypes
  <1>9. Phase[cur] = "held" => Phase' = Phase
    BY <1>7, MapTypes
  <1> QED
    BY <1>6, <1>7, <1>8, <1>9 DEF Lifecycle!Hold, Lifecycle!lvars

LEMMA PersistStatusMaps ==
    ASSUME IInv, CopyInv, IdInv, PersistStatus
    PROVE  Lifecycle!Associate(cur) \/ UNCHANGED Lifecycle!lvars
  <1>1. /\ TypeOK /\ cur \in CRs /\ ch \in Object /\ ~ch.term /\ pc # "idle"
        /\ api[cur] \in Object /\ api[cur] # None /\ ch.status \in Status
        /\ ch.spec = api[cur].spec /\ ch.fin = api[cur].fin /\ ch.term = api[cur].term
    BY ObjectFields DEF PersistStatus, IInv, TypeOK, FreshInv, PhaseInv
  <1>2. CASE UNCHANGED api
    <2>1. UNCHANGED <<Phase, Id, Kept, ShownRecords>>
      BY <1>2, MapSame DEF PersistStatus, ShownRecords
    <2> QED
      BY <2>1 DEF Lifecycle!lvars
  <1>3. CASE Put(cur, WithStatus(api[cur], ch.status))
    <2>1. PICK obj : obj = WithStatus(api[cur], ch.status)
      OBVIOUS
    <2>2. obj \in Object /\ obj.status = ch.status /\ obj.spec = api[cur].spec
          /\ obj.fin = api[cur].fin /\ obj.term = api[cur].term
      BY <1>1, <2>1, WithStatusType
    <2>3. obj # None
      BY <2>2, NoneAssumption
    <2>4. Put(cur, obj) /\ UNCHANGED <<cf, dryRun>>
      BY <1>3, <2>1 DEF PersistStatus
    <2>5. PhaseOf(obj) = Phase[cur] /\ IdOf(obj) = ch.status.id
          /\ (obj # None /\ Keeps(obj)) = Kept[cur] /\ Id[cur] = api[cur].status.id
      BY <1>1, <2>2, <2>3, MapAt, SameKeeps DEF PhaseOf, IdOf
    <2>6. /\ Phase' = [Phase EXCEPT ![cur] = Phase[cur]]
          /\ Id' = [Id EXCEPT ![cur] = ch.status.id]
          /\ Kept' = [Kept EXCEPT ![cur] = Kept[cur]] /\ UNCHANGED ShownRecords
      BY <1>1, <2>2, <2>4, <2>5, WriteMaps
    <2>7. Phase' = Phase /\ Kept' = Kept
      BY <2>6, MapTypes
    <2>8. CASE ch.status.id = api[cur].status.id
      <3>1. Id' = Id
        BY <2>5, <2>6, <2>8, MapTypes
      <3> QED
        BY <2>6, <2>7, <3>1 DEF Lifecycle!lvars
    <2>9. CASE ch.status.id # api[cur].status.id
      <3>1. ch.status.id # 0
        BY <2>9 DEF PersistStatus, IdInv
      <3>2. /\ ch.status.id \in DOMAIN cf /\ cf[ch.status.id].host = HostOf[cur]
            /\ ch.fin
        BY <1>1, <3>1, CallStatus DEF GoodStatus, Refers
      <3>3. Phase[cur] = "held"
        BY <1>1, <3>2, MapAt DEF PhaseOf
      <3>4. ch.status.id \in Lifecycle!RecordsOf(cur)
        BY <3>2 DEF Lifecycle!RecordsOf, ShownRecords, Shown
      <3> QED
        BY <2>6, <2>7, <3>3, <3>4 DEF Lifecycle!Associate
    <2> QED
      BY <2>8, <2>9
  <1> QED
    BY <1>2, <1>3 DEF PersistStatus

LEMMA ReleaseMaps ==
    ASSUME ZoneIsFixed, OwnOnlyIsExact, IInv, CopyInv, DeleteInv, Release
    PROVE  Lifecycle!Release(cur)
  <1>1. /\ TypeOK /\ cur \in CRs /\ api[cur] \in Object /\ api[cur] # None /\ ch.term
        /\ ch.spec = api[cur].spec /\ ch.term = api[cur].term
        /\ ch.status = api[cur].status /\ LetGo(ch)
    BY DEF Release, IInv, TypeOK, FreshInv, PhaseInv, DeleteInv, EndInv
  <1>2. Phase[cur] = "doomed" /\ Id[cur] = api[cur].status.id /\ Kept[cur] = Keeps(api[cur])
    BY <1>1, MapAt DEF PhaseOf, IdOf, Keeps
  <1>3. ch.spec \in Specs
    BY <1>1, ObjectFields
  <1>4. Lifecycle!Cleared(cur) \/ Kept[cur]
    <2>1. CASE Keeps(api[cur])
      BY <1>2, <2>1
    <2>2. CASE ~Keeps(api[cur]) /\ Id[cur] # 0
      <3> DEFINE id == api[cur].status.id
      <3>1. ~InZone(id, api[cur].spec.zone)
        BY <1>1, <1>2, <1>3, <2>2
           DEF Keeps, LetGo, ReleasedWithoutCF, OwnOnly, OwnOnlyIsExact
      <3>2. id \in DOMAIN cf /\ cf[id].zone \in SpecZones
        BY <1>1, <1>2, <2>2 DEF CopyInv, APIGood, Good, GoodStatus, Refers
      <3>3. cf[id].zone = api[cur].spec.zone
        BY <1>1, <3>2, ObjectFields DEF SpecZones, ZoneIsFixed
      <3>4. ~cf[id].live
        BY <3>1, <3>2, <3>3 DEF InZone
      <3>5. ~ShownRecords[id].live
        BY <3>2, <3>4 DEF ShownRecords, Shown
      <3> QED
        BY <1>2, <3>5 DEF Lifecycle!Cleared
    <2>3. CASE Id[cur] = 0
      BY <2>3 DEF Lifecycle!Cleared
    <2> QED
      BY <2>1, <2>2, <2>3
  <1>5. Put(cur, None) /\ UNCHANGED <<cf, dryRun>>
    BY DEF Release
  <1>6. /\ Phase' = [Phase EXCEPT ![cur] = "absent"] /\ Id' = [Id EXCEPT ![cur] = 0]
        /\ Kept' = [Kept EXCEPT ![cur] = None # None /\ Keeps(None)]
        /\ UNCHANGED ShownRecords
    <2>1. PhaseOf(None) = "absent" /\ IdOf(None) = 0
      BY DEF PhaseOf, IdOf
    <2> QED
      BY <1>1, <1>5, <2>1, WriteMaps
  <1>7. (None # None /\ Keeps(None)) \in BOOLEAN
    BY DEF Keeps
  <1> QED
    BY <1>2, <1>4, <1>6, <1>7 DEF Lifecycle!Release, Lifecycle!Settable

-----------------------------------------------------------------------------
(***************************************************************************)
(* Steps that write to CF                                                  *)
(***************************************************************************)

LEMMA CFCallFrame ==
    ASSUME IInv, CFCall
    PROVE  /\ UNCHANGED <<Phase, Id, Kept>>
           /\ cur \in CRs /\ ch \in Object
  <1>1. UNCHANGED api
    BY CFCallShape DEF IInv, CFCall
  <1>2. UNCHANGED dryRun
    BY DEF CFCall, LookupMissing, LookupFound, CreateAttempt, EditAttempt, Predelete,
           DeleteAttempt, DeleteNotFound, CallFails, FailedAttempt, GiveUp, Retry,
           Settle, Goto
  <1> QED
    BY <1>1, <1>2, MapSame, CFCallBusy DEF IInv, TypeOK

LEMMA CreateMaps ==
    ASSUME IInv, IInv', CreateAttempt
    PROVE  Lifecycle!Provision(cur)
  <1>1. /\ UNCHANGED <<Phase, Id, Kept>>
        /\ cur \in CRs /\ ch \in Object /\ Guarding(ch)
    BY CFCallFrame, NoneAssumption DEF CFCall, CreateAttempt, IInv, PhaseInv, Guarding
  <1>2. api[cur] # None /\ api[cur].fin
    BY <1>1 DEF IInv, FinalizerInv, Guarded, CreateAttempt
  <1>3. Phase[cur] \in {"held", "doomed"}
    BY <1>1, <1>2, MapAt DEF PhaseOf
  <1>4. PICK ssl : CFCreate(ch.spec.zone, HostOf[cur], ch.spec.cfg, ssl, cur)
    BY DEF CreateAttempt
  <1>5. ShownRecords' = Append(ShownRecords, [host |-> HostOf[cur], by |-> cur, live |-> TRUE])
    BY <1>4, RecordsAppend DEF IInv
  <1> QED
    BY <1>1, <1>3, <1>5 DEF Lifecycle!Provision

LEMMA DeleteMaps ==
    ASSUME OwnOnlyIsExact, IInv, DeleteInv, DeleteAttempt
    PROVE  Lifecycle!Remove(cur)
  <1>1. /\ UNCHANGED <<Phase, Id, Kept>>
        /\ cur \in CRs /\ ch \in Object /\ ch # None /\ ch.spec \in Specs /\ ch.term
        /\ pc = "delete" /\ InZone(ch.status.id, ch.spec.zone)
    BY CFCallFrame, ObjectFields DEF CFCall, DeleteAttempt, IInv, PhaseInv
  <1>2. Timely(ch, cur)
    BY <1>1 DEF DeleteInv, LateInv, IsCopy
  <1>3. ~LetGo(ch)
    BY <1>1 DEF LetGo, DeleteInv, PolicyInv, OwnOnly, OwnOnlyIsExact
  <1>4. /\ api[cur] # None /\ api[cur].term /\ api[cur].status = ch.status
        /\ ch.status.id # 0
    BY <1>2, <1>3 DEF Timely, LetGo, ReleasedWithoutCF
  <1>5. Phase[cur] = "doomed" /\ Id[cur] = ch.status.id /\ Id[cur] # 0
    BY <1>1, <1>4, MapAt DEF PhaseOf, IdOf
  <1>6. ShownRecords' = [ShownRecords EXCEPT ![Id[cur]].live = FALSE]
    BY <1>1, <1>5, RecordsDie DEF DeleteAttempt, InZone, IInv
  <1> QED
    BY <1>1, <1>5, <1>6 DEF Lifecycle!Remove

\* Edits change nothing that is shown.
LEMMA ReplaceSame ==
    ASSUME TypeOK, NEW i \in DOMAIN cf, NEW rec, cf' = [cf EXCEPT ![i] = rec],
           Shown(rec) = Shown(cf[i])
    PROVE  UNCHANGED ShownRecords
  <1>1. /\ DOMAIN cf' = DOMAIN cf
        /\ \A r \in DOMAIN cf : cf'[r] = IF r = i THEN rec ELSE cf[r]
    BY DEF TypeOK
  <1>2. \A r \in DOMAIN cf : Shown(cf'[r]) = Shown(cf[r])
    BY <1>1
  <1> QED
    BY <1>1, <1>2, RecordsSame

LEMMA EditsShowNothing ==
    ASSUME NEW rec \in Record, NEW cfg, NEW ssl
    PROVE  /\ Shown([rec EXCEPT !.cfg = cfg]) = Shown(rec)
           /\ Shown([rec EXCEPT !.ssl = ssl]) = Shown(rec)
  <1>1. ASSUME NEW t, t.host = rec.host, t.by = rec.by, t.live = rec.live
        PROVE  Shown(t) = Shown(rec)
    BY <1>1 DEF Shown
  <1>2. /\ [rec EXCEPT !.cfg = cfg].host = rec.host
        /\ [rec EXCEPT !.cfg = cfg].by = rec.by
        /\ [rec EXCEPT !.cfg = cfg].live = rec.live
    BY DEF Record
  <1>3. /\ [rec EXCEPT !.ssl = ssl].host = rec.host
        /\ [rec EXCEPT !.ssl = ssl].by = rec.by
        /\ [rec EXCEPT !.ssl = ssl].live = rec.live
    BY DEF Record
  <1> QED
    BY <1>1, <1>2, <1>3

LEMMA EditMaps ==
    ASSUME IInv, EditAttempt
    PROVE  UNCHANGED Lifecycle!lvars
  <1>1. UNCHANGED <<Phase, Id, Kept>> /\ TypeOK
    BY CFCallFrame DEF CFCall, IInv
  <1>2. PICK i : i = ch.status.id
    OBVIOUS
  <1>3. PICK ssl : cf' = [cf EXCEPT ![i].cfg = ch.spec.cfg, ![i].ssl = ssl]
    BY <1>2 DEF EditAttempt
  <1>4. PICK cfg : cfg = ch.spec.cfg
    OBVIOUS
  <1>5. i \in DOMAIN cf /\ cf[i] \in Record
    BY <1>1, <1>2 DEF EditAttempt, InZone, TypeOK
  <1>6. cf' = [cf EXCEPT ![i] = [cf[i] EXCEPT !.cfg = cfg, !.ssl = ssl]]
    BY <1>1, <1>3, <1>4, <1>5 DEF TypeOK
  <1>7. Shown([cf[i] EXCEPT !.cfg = cfg, !.ssl = ssl]) = Shown(cf[i])
    <2> DEFINE rec == [cf[i] EXCEPT !.cfg = cfg, !.ssl = ssl]
    <2>1. rec.host = cf[i].host /\ rec.by = cf[i].by /\ rec.live = cf[i].live
      BY <1>5 DEF Record
    <2> HIDE DEF rec
    <2>2. Shown(rec) = Shown(cf[i])
      BY <2>1 DEF Shown
    <2> QED
      BY <2>2 DEF rec
  <1>8. UNCHANGED ShownRecords
    BY <1>1, <1>5, <1>6, <1>7, ReplaceSame
  <1> QED
    BY <1>1, <1>8 DEF Lifecycle!lvars

LEMMA ExternalMaps ==
    ASSUME IInv, IInv', External
    PROVE  Lifecycle!OtherCreates \/ Lifecycle!OtherDeletes \/ UNCHANGED Lifecycle!lvars
  <1>0. UNCHANGED <<Phase, Id, Kept>> /\ TypeOK /\ TypeOK'
    BY MapSame DEF External, ExtCreate, ExtEdit, ExtDelete, SSLChanges, OnlyCF, IInv
  <1>1. CASE ExtCreate
    <2>1. PICK z \in Zones, h \in Hosts, cfg \in Cfgs : CFCreate(z, h, cfg, "pending", None)
      BY <1>1 DEF ExtCreate
    <2>2. ShownRecords' = Append(ShownRecords, [host |-> h, by |-> None, live |-> TRUE])
      BY <1>0, <2>1, RecordsAppend
    <2> QED
      BY <1>0, <1>1, <2>2 DEF ExtCreate, Lifecycle!OtherCreates
  <1>2. ASSUME NEW r \in DOMAIN cf, ExtDelete(r) PROVE Lifecycle!OtherDeletes
    <2>1. ShownRecords' = [ShownRecords EXCEPT ![r].live = FALSE]
      BY <1>0, <1>2, RecordsDie DEF ExtDelete
    <2>2. r \in DOMAIN ShownRecords
      BY DEF ShownRecords
    <2> QED
      BY <1>0, <1>2, <2>1, <2>2 DEF ExtDelete, Lifecycle!OtherDeletes
  <1>3. ASSUME NEW r \in DOMAIN cf, ExtEdit(r) \/ SSLChanges(r)
        PROVE  UNCHANGED Lifecycle!lvars
    <2>1. cf[r] \in Record
      BY <1>0 DEF TypeOK
    <2>2. PICK rec : cf' = [cf EXCEPT ![r] = rec] /\ Shown(rec) = Shown(cf[r])
      <3>1. CASE ExtEdit(r)
        <4>1. PICK cfg \in Cfgs : cf' = [cf EXCEPT ![r] = [cf[r] EXCEPT !.cfg = cfg]]
          BY <3>1 DEF ExtEdit
        <4> QED
          BY <2>1, <4>1, EditsShowNothing
      <3>2. CASE SSLChanges(r)
        <4>1. PICK ssl : cf' = [cf EXCEPT ![r] = [cf[r] EXCEPT !.ssl = ssl]]
          BY <3>2 DEF SSLChanges
        <4> QED
          BY <2>1, <4>1, EditsShowNothing
      <3> QED
        BY <1>3, <3>1, <3>2
    <2>3. UNCHANGED ShownRecords
      BY <1>0, <2>2, ReplaceSame
    <2> QED
      BY <1>0, <2>3 DEF Lifecycle!lvars
  <1> QED
    BY <1>1, <1>2, <1>3 DEF External

-----------------------------------------------------------------------------
(***************************************************************************)
(* All steps                                                               *)
(***************************************************************************)

LEMMA NothingShown ==
    ASSUME UNCHANGED <<api, cf, dryRun>>
    PROVE  UNCHANGED Lifecycle!lvars
  BY MapSame DEF Lifecycle!lvars, ShownRecords

LEMMA RestartMaps == Restart => Lifecycle!PoliciesChange
  <1> SUFFICES ASSUME Restart PROVE Lifecycle!PoliciesChange
    OBVIOUS
  <1>1. UNCHANGED <<Phase, Id, ShownRecords>>
    BY DEF Restart, Phase, Id, ShownRecords
  <1>2. Kept' \in [CRs -> BOOLEAN]
    BY DEF Kept
  <1> QED
    BY <1>1, <1>2 DEF Lifecycle!PoliciesChange

LEMMA WorkerStepMaps ==
    ASSUME ZoneIsFixed, OwnOnlyIsExact, IInv, IInv', CopyInv, DeleteInv, IdInv, WorkerStep
    PROVE  [Lifecycle!LNext]_(Lifecycle!lvars)
  <1>1. CASE CreateAttempt
    BY <1>1, CreateMaps, CFCallFrame DEF CFCall, Lifecycle!LNext
  <1>2. CASE DeleteAttempt
    BY <1>2, DeleteMaps, CFCallFrame DEF CFCall, Lifecycle!LNext
  <1>3. CASE EditAttempt
    BY <1>3, EditMaps
  <1>4. CASE AddFinalizer \/ Release \/ PersistStatus
    <2>1. cur \in CRs
      BY <1>4 DEF AddFinalizer, Release, PersistStatus, IInv, TypeOK
    <2> QED
      BY <1>4, <2>1, AddFinalizerMaps, ReleaseMaps, PersistStatusMaps DEF Lifecycle!LNext
  <1>5. CASE LookupMissing \/ LookupFound \/ Predelete \/ DeleteNotFound \/ CallFails
    <2>1. UNCHANGED <<Phase, Id, Kept>>
      BY <1>5, CFCallFrame DEF CFCall
    <2>2. UNCHANGED ShownRecords
      BY <1>5 DEF LookupMissing, LookupFound, Predelete, DeleteNotFound, CallFails,
                  ShownRecords
    <2> QED
      BY <2>1, <2>2 DEF Lifecycle!lvars
  <1>6. CASE WriteFails
    BY <1>6, NothingShown DEF WriteFails
  <1> QED
    BY <1>1, <1>2, <1>3, <1>4, <1>5, <1>6 DEF WorkerStep

LEMMA LifecycleStep ==
    ASSUME ZoneIsFixed, OwnOnlyIsExact, IInv, CopyInv, DeleteInv, IdInv, [Next]_vars
    PROVE  [Lifecycle!LNext]_(Lifecycle!lvars)
  <1>0. TypeOK /\ IInv'
    BY IInvNext DEF IInv
  <1>1. ASSUME NEW c \in CRs, User(c) PROVE Lifecycle!LNext
    BY <1>0, <1>1, CreateCRMaps, EditSpecMaps, DeleteCRMaps DEF User, Lifecycle!LNext
  <1>2. ASSUME NEW c \in CRs, Reconcile(c) \/ DriftEvent(c) PROVE UNCHANGED Lifecycle!lvars
    <2>1. UNCHANGED <<api, cf, dryRun>>
      BY <1>2 DEF Reconcile, ReconcileGone, ReconcileRelease, ReconcileDelete,
                  ReconcileError, ReconcileAddFinalizer, ReconcileConflict,
                  ReconcileLookup, Begin, DriftEvent
    <2> QED
      BY <2>1, NothingShown
  <1>3. CASE WorkerStep
    BY <1>0, <1>3, WorkerStepMaps
  <1>4. CASE External
    BY <1>0, <1>4, ExternalMaps DEF Lifecycle!LNext
  <1>5. CASE Deliver \/ UNCHANGED vars
    <2>1. UNCHANGED <<api, cf, dryRun>>
      BY <1>5 DEF Deliver, vars
    <2> QED
      BY <2>1, NothingShown
  <1>6. ASSUME NEW z \in Zones, ZoneChanges(z) PROVE UNCHANGED Lifecycle!lvars
    BY <1>6, NothingShown DEF ZoneChanges
  <1>7. CASE Restart
    BY <1>7, RestartMaps DEF Lifecycle!LNext
  <1> QED
    BY <1>1, <1>2, <1>3, <1>4, <1>5, <1>6, <1>7 DEF Next

LEMMA LifecycleInit == Init => Lifecycle!LInit
  <1> SUFFICES ASSUME Init PROVE Lifecycle!LInit
    OBVIOUS
  <1>1. Phase = [c \in CRs |-> "absent"]
    BY DEF Init, Phase, PhaseOf
  <1>2. Id = [c \in CRs |-> 0]
    BY DEF Init, Id, IdOf
  <1>3. Kept \in [CRs -> BOOLEAN]
    BY KeptType
  <1>4. ShownRecords = <<>>
    <2>1. TypeOK /\ cf = <<>>
      BY InitType DEF Init
    <2>2. ShownRecords = ShownOf(cf)
      BY DEF ShownRecords, ShownOf
    <2>3. cf \in Seq(Record) /\ Len(cf) = 0
      BY <2>1 DEF TypeOK
    <2>4. ShownRecords \in Seq(RecordTriple) /\ Len(ShownRecords) = 0
      BY <2>2, <2>3, ShownType
    <2> QED
      BY <2>4, EmptySeq
  <1> QED
    BY <1>1, <1>2, <1>3, <1>4 DEF Lifecycle!LInit

-----------------------------------------------------------------------------
(***************************************************************************)
(* The theorem                                                             *)
(***************************************************************************)

\* All that the API server and Cloudflare are made to hold is allowed by CHLifecycle,
\* whatever the worker, the informer, the retries of cfRetry and restarts do: a record
\* is made for a CR under the finalizer, an id is recorded before the deletion is
\* requested, a record is removed for the doomed CR it belongs to, and the finalizer
\* goes when the record is gone or a policy keeps it.
THEOREM ControllerImplementsLifecycle ==
    ASSUME ZoneIsFixed, OwnOnlyIsExact PROVE Spec => ImplementsLifecycle
  <1>1. IInv /\ CopyInv /\ DeleteInv /\ IdInv /\ [Next]_vars
          => [Lifecycle!LNext]_(Lifecycle!lvars)
    BY LifecycleStep
  <1> QED
    BY <1>1, LifecycleInit, Invariance, CopyInvariance, DeleteInvariance, IdInvariance, PTL
       DEF Spec, ImplementsLifecycle, Lifecycle!LSpec
=============================================================================
