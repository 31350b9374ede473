--------------------- MODULE CustomHostnameStatusProofs ---------------------
(***************************************************************************)
(* Theorems about the statuses of CustomHostname: what a CR records of its *)
(* record in CF, and what its condition tells.                             *)
(***************************************************************************)
EXTENDS CustomHostnameProofs

-----------------------------------------------------------------------------
(***************************************************************************)
(* The inductive invariant                                                 *)
(***************************************************************************)

\* What StatusConsistent says of one status.
Honest(s) ==
    /\ s.cond = "Ready" => s.ssl = "active" /\ s.id # 0
    /\ s.cond = "SSLPending" => s.ssl = "pending" /\ s.id # 0
    /\ s.cond = "Error" => s.errs
    /\ s.errs => s.cond \in {"Error", "HostnameConflict", "DryRun"}

SpecZones == {spec.zone : spec \in Specs}

\* The id of a status of c is one of recs, with the hostname of c, in a zone that
\* a spec may name.
Refers(recs, s, c) ==
    s.id # 0 => /\ s.id \in DOMAIN recs /\ recs[s.id].host = HostOf[c]
                /\ recs[s.id].zone \in SpecZones

GoodStatus(recs, s, c) == Refers(recs, s, c) /\ Honest(s)

\* An object gets an id only under the finalizer.
Good(recs, o, c) ==
    o # None => GoodStatus(recs, o.status, c) /\ (o.status.id # 0 => o.fin)

APIGood == \A c \in CRs : Good(cf, api[c], c)

CacheGood == \A c \in CRs : Good(cf, cache[c], c)

WatchGood == \A i \in DOMAIN watch : Good(cf, watch[i].obj, watch[i].cr)

CopyGood == pc # "idle" => Good(cf, ch, cur)

\* The two properties hold of the API server's objects because they hold of every
\* copy of an object there is: any of them may be what the next status is
\* computed from.
CopyInv == APIGood /\ CacheGood /\ WatchGood /\ CopyGood

-----------------------------------------------------------------------------
(***************************************************************************)
(* Records of CF keep their hostnames and zones, and stay dead             *)
(***************************************************************************)

SameRecord(old, new) ==
    /\ new.host = old.host /\ new.zone = old.zone /\ new.by = old.by
    /\ new.live => old.live

RecordsKept(recs, new) ==
    /\ DOMAIN recs \subseteq DOMAIN new
    /\ \A r \in DOMAIN recs : SameRecord(recs[r], new[r])

LEMMA GoodKept ==
    ASSUME NEW recs, NEW new, RecordsKept(recs, new), NEW o, NEW c, Good(recs, o, c)
    PROVE  Good(new, o, c)
  BY DEF RecordsKept, SameRecord, Good, GoodStatus, Refers

LEMMA SameHosts == RecordsKept(cf, cf)
  BY DEF RecordsKept, SameRecord

\* A new record leaves the others alone.
LEMMA CFCreateHosts ==
    ASSUME TypeOK, NEW z, NEW h, NEW cfg, NEW ssl, NEW by, CFCreate(z, h, cfg, ssl, by)
    PROVE  /\ RecordsKept(cf, cf')
           /\ DOMAIN cf' = DOMAIN cf \cup {Len(cf) + 1}
           /\ Len(cf) + 1 \notin DOMAIN cf /\ Len(cf) + 1 # 0
           /\ cf'[Len(cf) + 1] = [zone |-> z, host |-> h, cfg |-> cfg, ssl |-> ssl,
                                  by |-> by, live |-> TRUE]
  <1> DEFINE rec == [zone |-> z, host |-> h, cfg |-> cfg, ssl |-> ssl,
                     by |-> by, live |-> TRUE]
  <1>1. cf' = Append(cf, rec)
    BY DEF CFCreate
  <1>2. cf \in Seq(Record)
    BY DEF TypeOK
  <1> HIDE DEF rec
  <1>3. Len(cf) \in Nat /\ DOMAIN cf = 1..Len(cf)
    BY <1>2
  <1>4. DOMAIN cf' = 1..(Len(cf) + 1)
    BY <1>1, <1>2, <1>3
  <1>5. \A r \in 1..Len(cf) : cf'[r] = cf[r]
    BY <1>1, <1>2
  <1>6. cf'[Len(cf) + 1] = rec
    BY <1>1, <1>2
  <1>7. RecordsKept(cf, cf')
    BY <1>3, <1>4, <1>5 DEF RecordsKept, SameRecord
  <1>8. DOMAIN cf' = DOMAIN cf \cup {Len(cf) + 1} /\ Len(cf) + 1 \notin DOMAIN cf
    BY <1>3, <1>4
  <1> QED
    BY <1>3, <1>6, <1>7, <1>8 DEF rec

LEMMA ReplaceHosts ==
    ASSUME TypeOK, NEW i, NEW rec, i \in DOMAIN cf => SameRecord(cf[i], rec),
           cf' = [cf EXCEPT ![i] = rec]
    PROVE  RecordsKept(cf, cf')
  BY DEF TypeOK, RecordsKept, SameRecord

LEMMA EditHosts ==
    ASSUME TypeOK, NEW i \in DOMAIN cf, NEW cfg, NEW ssl
    PROVE  /\ SameRecord(cf[i], [cf[i] EXCEPT !.cfg = cfg, !.ssl = ssl])
           /\ SameRecord(cf[i], [cf[i] EXCEPT !.cfg = cfg])
           /\ SameRecord(cf[i], [cf[i] EXCEPT !.ssl = ssl])
           /\ SameRecord(cf[i], [cf[i] EXCEPT !.live = FALSE])
  <1>1. cf[i] \in Record
    BY DEF TypeOK
  <1> QED
    BY <1>1 DEF Record, SameRecord

-----------------------------------------------------------------------------
(***************************************************************************)
(* The statuses the code computes                                          *)
(***************************************************************************)

LEMMA SameIds ==
    ASSUME NEW s \in Status
    PROVE  /\ SetError(s).id = s.id
           /\ SetConflict(s).id = s.id
           /\ SetWaiting(s).id = s.id
           /\ SetDryRun(s).id = s.id
           /\ RequeueOrReady(s).id = s.id
  BY DEF Status, SetError, SetConflict, SetWaiting, SetDryRun, RequeueOrReady

\* Those that leave the id alone.
LEMMA SameIdGood ==
    ASSUME NEW recs, NEW c, NEW s \in Status, GoodStatus(recs, s, c)
    PROVE  /\ GoodStatus(recs, SetError(s), c)
           /\ GoodStatus(recs, SetConflict(s), c)
           /\ GoodStatus(recs, SetWaiting(s), c)
           /\ GoodStatus(recs, SetDryRun(s), c)
  <1>1. GoodStatus(recs, SetError(s), c)
    BY DEF GoodStatus, Refers, Honest, Status, SetError
  <1>2. GoodStatus(recs, SetConflict(s), c)
    BY DEF GoodStatus, Refers, Honest, Status, SetConflict
  <1>3. GoodStatus(recs, SetWaiting(s), c)
    BY DEF GoodStatus, Refers, Honest, Status, SetWaiting
  <1>4. GoodStatus(recs, SetDryRun(s), c)
    BY DEF GoodStatus, Refers, Honest, Status, SetDryRun
  <1> QED
    BY <1>1, <1>2, <1>3, <1>4

LEMMA AdoptGood ==
    ASSUME NEW recs, NEW c, NEW s \in Status, GoodStatus(recs, s, c),
           NEW r \in Nat \ {0}, r \in DOMAIN recs, recs[r].host = HostOf[c],
           recs[r].zone \in SpecZones
    PROVE  GoodStatus(recs, Adopt(s, r), c) /\ Adopt(s, r).id = r
  BY DEF GoodStatus, Refers, Honest, Status, Adopt

\* Ready and SSLPending are derived from the status of the certificate.
LEMMA ReadyGood ==
    ASSUME NEW recs, NEW c, NEW s \in Status, Refers(recs, s, c), s.id # 0, s.ssl # "none"
    PROVE  GoodStatus(recs, RequeueOrReady(s), c)
  BY DEF GoodStatus, Refers, Honest, Status, RequeueOrReady

LEMMA NewGood ==
    ASSUME NEW recs, NEW c
    PROVE  GoodStatus(recs, NewStatus, c) /\ NewStatus.id = 0
  BY DEF GoodStatus, Refers, Honest, NewStatus

-----------------------------------------------------------------------------
(***************************************************************************)
(* Steps of the API server, the informer and users                         *)
(***************************************************************************)

LEMMA PutGood ==
    ASSUME TypeOK, APIGood, WatchGood, NEW c \in CRs, NEW obj, Good(cf, obj, c),
           Put(c, obj), cf' = cf
    PROVE  APIGood' /\ WatchGood'
  <1>1. api' = [api EXCEPT ![c] = obj] /\ watch' = Append(watch, [cr |-> c, obj |-> obj])
    BY DEF Put
  <1>2. APIGood'
    BY <1>1 DEF APIGood, TypeOK
  <1>3. watch \in Seq(Event)
    BY DEF TypeOK, Event
  <1> DEFINE e == [cr |-> c, obj |-> obj]
  <1>4. e.cr = c /\ e.obj = obj
    OBVIOUS
  <1> HIDE DEF e
  <1>5. watch' = Append(watch, e)
    BY <1>1 DEF e
  <1>6. /\ Len(watch) \in Nat /\ DOMAIN watch = 1..Len(watch)
        /\ DOMAIN watch' = 1..(Len(watch) + 1)
    BY <1>3, <1>5
  <1>7. \A i \in 1..Len(watch) : watch'[i] = watch[i]
    BY <1>3, <1>5
  <1>8. watch'[Len(watch) + 1] = e
    BY <1>3, <1>5
  <1>9. ASSUME NEW i \in DOMAIN watch' PROVE Good(cf, watch'[i].obj, watch'[i].cr)
    <2>1. CASE i \in 1..Len(watch)
      BY <1>6, <1>7, <2>1 DEF WatchGood
    <2>2. CASE i = Len(watch) + 1
      BY <1>4, <1>8, <2>2
    <2> QED
      BY <1>6, <2>1, <2>2
  <1>10. WatchGood'
    BY <1>9 DEF WatchGood
  <1> QED
    BY <1>2, <1>10

LEMMA ByOtherGood ==
    ASSUME TypeOK, CopyInv, NEW c \in CRs, NEW obj, Good(cf, obj, c), PutByOther(c, obj)
    PROVE  CopyInv'
  <1>1. APIGood' /\ WatchGood'
    BY PutGood DEF CopyInv, PutByOther
  <1>2. CacheGood' /\ CopyGood'
    BY DEF CopyInv, CacheGood, CopyGood, PutByOther
  <1> QED
    BY <1>1, <1>2 DEF CopyInv

LEMMA UserGood ==
    ASSUME TypeOK, CopyInv, NEW c \in CRs, User(c)
    PROVE  CopyInv'
  <1>0. Good(cf, api[c], c) /\ (api[c] # None => api[c] \in Object)
    BY DEF CopyInv, APIGood, TypeOK
  <1>1. CASE CreateCR(c)
    <2>1. PICK spec \in Specs : PutByOther(c, NewObject(spec))
      BY <1>1 DEF CreateCR, NewObject
    <2>2. Good(cf, NewObject(spec), c)
      BY NewGood DEF Good, NewObject
    <2> QED
      BY <2>1, <2>2, ByOtherGood
  <1>2. CASE EditSpec(c)
    <2>1. PICK spec \in Specs : PutByOther(c, [api[c] EXCEPT !.spec = spec])
      BY <1>2 DEF EditSpec
    <2> DEFINE obj == [api[c] EXCEPT !.spec = spec]
    <2>2. api[c] # None /\ obj.status = api[c].status
      BY <1>0, <1>2 DEF EditSpec, Object
    <2>3. Good(cf, obj, c)
      BY <1>0, <2>2 DEF Good
    <2> QED
      BY <2>1, <2>3, ByOtherGood
  <1>3. CASE DeleteCR(c)
    <2> DEFINE obj == IF api[c].fin THEN [api[c] EXCEPT !.term = TRUE] ELSE None
    <2>1. api[c] # None /\ PutByOther(c, obj)
      BY <1>3 DEF DeleteCR
    <2>2. obj # None => obj.status = api[c].status
      BY <1>0, <2>1 DEF Object
    <2>3. Good(cf, obj, c)
      BY <1>0, <2>1, <2>2 DEF Good
    <2> QED
      BY <2>1, <2>3, ByOtherGood
  <1> QED
    BY <1>1, <1>2, <1>3 DEF User

LEMMA DeliverGood == TypeOK /\ CopyInv /\ Deliver => CopyInv'
  <1> SUFFICES ASSUME TypeOK, CopyInv, Deliver PROVE CopyInv'
    OBVIOUS
  <1>1. watch \in Seq(Event) /\ watch # <<>>
    BY DEF TypeOK, Deliver, Event
  <1>2. /\ Head(watch) = watch[1] /\ 1 \in DOMAIN watch /\ Head(watch) \in Event
        /\ \A i \in DOMAIN Tail(watch) : i + 1 \in DOMAIN watch /\ Tail(watch)[i] = watch[i + 1]
    BY <1>1
  <1>3. WatchGood'
    <2>1. \A i \in DOMAIN Tail(watch) : Good(cf, Tail(watch)[i].obj, Tail(watch)[i].cr)
      BY <1>2 DEF CopyInv, WatchGood
    <2> QED
      BY <2>1 DEF Deliver, WatchGood
  <1>4. Good(cf, Head(watch).obj, Head(watch).cr) /\ Head(watch).cr \in CRs
    BY <1>2 DEF CopyInv, WatchGood, Event
  <1>5. CacheGood'
    BY <1>4 DEF CopyInv, CacheGood, Deliver, TypeOK
  <1>6. APIGood' /\ CopyGood'
    BY DEF CopyInv, APIGood, CopyGood, Deliver, worker
  <1> QED
    BY <1>3, <1>5, <1>6 DEF CopyInv

\* Records change, and no object does.
LEMMA HostsGood ==
    ASSUME CopyInv, RecordsKept(cf, cf'), UNCHANGED <<api, cache, watch>>
    PROVE  APIGood' /\ CacheGood' /\ WatchGood'
  BY GoodKept DEF CopyInv, APIGood, CacheGood, WatchGood

-----------------------------------------------------------------------------
(***************************************************************************)
(* Steps of the worker                                                     *)
(***************************************************************************)

LEMMA BeginGood ==
    ASSUME CopyInv, NEW c \in CRs, NEW o, NEW next, Begin(c, o, next), Good(cf, o, c)
    PROVE  CopyInv'
  <1>1. APIGood' /\ CacheGood' /\ WatchGood'
    BY SameHosts, HostsGood DEF Begin
  <1>2. CopyGood'
    BY DEF CopyGood, Begin
  <1> QED
    BY <1>1, <1>2 DEF CopyInv

LEMMA ReconcileGood ==
    ASSUME TypeOK, CopyInv, NEW c \in CRs, Reconcile(c)
    PROVE  CopyInv'
  <1>0. Good(cf, cache[c], c)
    BY DEF CopyInv, CacheGood
  <1>1. CASE ReconcileGone(c)
    BY <1>1, SameHosts, HostsGood DEF ReconcileGone, CopyInv, CopyGood, worker
  <1>2. ASSUME cache[c] # None
        PROVE  /\ Good(cf, WithStatus(cache[c], SetError(cache[c].status)), c)
               /\ Good(cf, WithStatus(cache[c], SetConflict(cache[c].status)), c)
    <2>1. cache[c] \in Object
      BY <1>2, CachedType
    <2>2. /\ cache[c].status \in Status /\ GoodStatus(cf, cache[c].status, c)
          /\ cache[c].status.id # 0 => cache[c].fin
      BY <1>0, <1>2, <2>1, ObjectFields DEF Good
    <2>3. /\ SetError(cache[c].status) \in Status
          /\ SetConflict(cache[c].status) \in Status
      BY <2>2, StatusTypes
    <2> QED
      BY <2>1, <2>2, <2>3, WithStatusType, SameIds, SameIdGood DEF Good
  <1>3. CASE ReconcileError(c)
    BY <1>2, <1>3, BeginGood DEF ReconcileError, Alive
  <1>4. CASE ReconcileConflict(c)
    BY <1>2, <1>4, BeginGood DEF ReconcileConflict, Managed, Alive
  <1>5. CASE ReconcileRelease(c) \/ ReconcileDelete(c) \/ ReconcileAddFinalizer(c)
             \/ ReconcileLookup(c)
    BY <1>0, <1>5, BeginGood
       DEF ReconcileRelease, ReconcileDelete, ReconcileAddFinalizer, ReconcileLookup
  <1> QED
    BY <1>1, <1>3, <1>4, <1>5 DEF Reconcile

LEMMA GotoGood ==
    ASSUME TypeOK, CopyInv, pc # "idle", NEW s \in Status, NEW next, Goto(next, s),
           RecordsKept(cf, cf'), GoodStatus(cf', s, cur), s.id # 0 => ch.fin
    PROVE  CopyInv'
  <1>1. APIGood' /\ CacheGood' /\ WatchGood'
    BY HostsGood DEF Goto
  <1>2. ch' = WithStatus(ch, s) /\ cur' = cur
    BY DEF Goto
  <1>3. ch \in Object
    BY DEF TypeOK
  <1>4. ch'.status = s /\ ch'.fin = ch.fin
    BY <1>2, <1>3, WithStatusType
  <1>5. CopyGood'
    BY <1>2, <1>4 DEF CopyGood, Good
  <1> QED
    BY <1>1, <1>5 DEF CopyInv

\* What is known of the copy during a call.
LEMMA CallStatus ==
    ASSUME TypeOK, CopyInv, pc # "idle"
    PROVE  /\ cur \in CRs /\ ch \in Object
           /\ ch.status \in Status /\ GoodStatus(cf, ch.status, cur)
           /\ ch.status.id # 0 => ch.fin
           /\ \A new : RecordsKept(cf, new) => GoodStatus(new, ch.status, cur)
  <1>1. cur \in CRs /\ ch \in Object
    BY DEF TypeOK
  <1>2. ch.status \in Status /\ ch # None
    BY <1>1, ObjectFields
  <1>3. GoodStatus(cf, ch.status, cur) /\ (ch.status.id # 0 => ch.fin)
    BY <1>2 DEF CopyInv, CopyGood, Good
  <1> QED
    BY <1>1, <1>2, <1>3 DEF RecordsKept, SameRecord, GoodStatus, Refers

LEMMA FailedGood ==
    ASSUME TypeOK, CopyInv, pc # "idle", FailedAttempt \/ GiveUp, RecordsKept(cf, cf')
    PROVE  CopyInv'
  <1>0. /\ ch.status \in Status /\ GoodStatus(cf', ch.status, cur)
        /\ ch.status.id # 0 => ch.fin
    BY CallStatus
  <1>1. CASE Retry
    <2>1. APIGood' /\ CacheGood' /\ WatchGood'
      BY <1>1, HostsGood DEF Retry
    <2>2. CopyGood'
      BY <1>1, GoodKept DEF Retry, CopyInv, CopyGood
    <2> QED
      BY <2>1, <2>2 DEF CopyInv
  <1>2. CASE Goto("status", SetError(ch.status))
    <2>1. /\ SetError(ch.status) \in Status /\ GoodStatus(cf', SetError(ch.status), cur)
          /\ SetError(ch.status).id = ch.status.id
      BY <1>0, StatusTypes, SameIds, SameIdGood
    <2> QED
      BY <1>0, <1>2, <2>1, GotoGood
  <1>3. CASE Abort /\ UNCHANGED <<api, cache, watch, zone, dryRun>>
    <2>1. APIGood' /\ CacheGood' /\ WatchGood'
      BY <1>3, HostsGood
    <2>2. CopyGood'
      BY <1>3 DEF Abort, CopyGood
    <2> QED
      BY <2>1, <2>2 DEF CopyInv
  <1> QED
    BY <1>1, <1>2, <1>3 DEF FailedAttempt, GiveUp

LEMMA SettleGood ==
    ASSUME TypeOK, CopyInv, pc # "idle", ch.fin, NEW s \in Status, Settle(s),
           RecordsKept(cf, cf'), Refers(cf', s, cur), s.id # 0, s.ssl # "none"
    PROVE  CopyInv'
  <1>1. Goto("status", RequeueOrReady(s)) /\ RequeueOrReady(s) \in Status
    BY StatusTypes DEF Settle
  <1>2. GoodStatus(cf', RequeueOrReady(s), cur)
    BY ReadyGood
  <1> QED
    BY <1>1, <1>2, GotoGood

LEMMA LookupGood ==
    ASSUME TypeOK, PhaseInv, CopyInv, LookupMissing \/ LookupFound
    PROVE  CopyInv'
  <1>0. pc # "idle" /\ ch.fin /\ cf' = cf /\ RecordsKept(cf, cf')
    BY SameHosts DEF LookupMissing, LookupFound, PhaseInv
  <1>1. ch.status \in Status /\ GoodStatus(cf, ch.status, cur)
    BY <1>0, CallStatus
  <1>2. CASE LookupMissing
    <2>1. /\ SetWaiting(ch.status) \in Status /\ GoodStatus(cf', SetWaiting(ch.status), cur)
          /\ SetDryRun(ch.status) \in Status /\ GoodStatus(cf', SetDryRun(ch.status), cur)
          /\ GoodStatus(cf', ch.status, cur)
      BY <1>0, <1>1, StatusTypes, SameIdGood
    <2>2. \/ Goto("status", SetWaiting(ch.status)) \/ Goto("status", SetDryRun(ch.status))
          \/ Goto("create", ch.status)
      BY <1>2 DEF LookupMissing
    <2> QED
      BY <1>0, <1>1, <2>1, <2>2, GotoGood
  <1>3. CASE LookupFound
    <2>1. PICK r \in FindByHostname(ch.spec.zone, HostOf[cur]) \ {0} :
            \/ Goto("edit", Adopt(ch.status, r))
            \/ Settle(Refresh(Adopt(ch.status, r), cf[r].ssl))
      BY <1>3 DEF LookupFound
    <2>2. /\ r \in Nat \ {0} /\ r \in DOMAIN cf /\ cf[r] \in Record
          /\ cf[r].host = HostOf[cur] /\ cf[r].zone \in SpecZones
      <3>1. ch.spec \in Specs
        BY <1>0, CallStatus, ObjectFields
      <3> QED
        BY <3>1, FindType DEF SpecZones
    <2> DEFINE s == Adopt(ch.status, r)
    <2>3. GoodStatus(cf, s, cur) /\ s.id = r
      BY <1>1, <2>2, AdoptGood
    <2>4. s \in Status
      BY <1>1, <2>2, StatusTypes
    <2> HIDE DEF s
    <2>5. CASE Goto("edit", s)
      BY <1>0, <2>3, <2>4, <2>5, GotoGood
    <2>6. CASE Settle(Refresh(s, cf[r].ssl))
      <3>1. cf[r].ssl \in {"pending", "active"}
        BY <2>2 DEF Record
      <3>2. Refresh(s, cf[r].ssl) \in Status
        BY <2>4, <3>1, StatusTypes
      <3>3. Refresh(s, cf[r].ssl).id = r /\ Refresh(s, cf[r].ssl).ssl # "none"
        BY <2>3, <2>4, <3>1 DEF Refresh, Status
      <3>4. Refers(cf', Refresh(s, cf[r].ssl), cur)
        BY <1>0, <2>2, <3>3 DEF Refers
      <3> QED
        BY <1>0, <2>2, <2>6, <3>2, <3>3, <3>4, SettleGood
    <2> QED
      BY <2>1, <2>5, <2>6 DEF s
  <1> QED
    BY <1>2, <1>3

LEMMA CreateGood ==
    ASSUME TypeOK, PhaseInv, CopyInv, CreateAttempt
    PROVE  CopyInv'
  <1>0. pc # "idle" /\ ch.fin /\ ch.spec \in Specs
    BY ObjectFields DEF CreateAttempt, PhaseInv, TypeOK
  <1>1. PICK ssl \in {"pending", "active"} :
          /\ CFCreate(ch.spec.zone, HostOf[cur], ch.spec.cfg, ssl, cur)
          /\ \/ Settle(Created(ch.status, Len(cf) + 1, ssl))
             \/ LostReplies /\ FailedAttempt
    BY DEF CreateAttempt
  <1>2. /\ RecordsKept(cf, cf') /\ Len(cf) + 1 \in DOMAIN cf' /\ Len(cf) + 1 # 0
        /\ cf'[Len(cf) + 1].host = HostOf[cur]
        /\ cf'[Len(cf) + 1].zone \in SpecZones
    <2>1. /\ RecordsKept(cf, cf') /\ Len(cf) + 1 \in DOMAIN cf' /\ Len(cf) + 1 # 0
          /\ cf'[Len(cf) + 1] = [zone |-> ch.spec.zone, host |-> HostOf[cur],
                                 cfg |-> ch.spec.cfg, ssl |-> ssl, by |-> cur,
                                 live |-> TRUE]
      BY <1>1, CFCreateHosts
    <2>2. ch.spec.zone \in SpecZones
      BY <1>0 DEF SpecZones
    <2> QED
      BY <2>1, <2>2
  <1>3. CASE Settle(Created(ch.status, Len(cf) + 1, ssl))
    <2> DEFINE s == Created(ch.status, Len(cf) + 1, ssl)
    <2>1. ch.status \in Status /\ Len(cf) + 1 \in Nat
      BY <1>0, CallStatus DEF TypeOK
    <2>2. s \in Status
      BY <2>1, StatusTypes
    <2>3. s.id = Len(cf) + 1 /\ s.ssl # "none"
      BY <2>1 DEF Created, Status
    <2> HIDE DEF s
    <2>4. Refers(cf', s, cur)
      BY <1>2, <2>3 DEF Refers
    <2>5. Settle(s)
      BY <1>3 DEF s
    <2> QED
      BY <1>0, <1>2, <2>2, <2>3, <2>4, <2>5, SettleGood
  <1>4. CASE FailedAttempt
    BY <1>0, <1>2, <1>4, FailedGood
  <1> QED
    BY <1>1, <1>3, <1>4

LEMMA EditGood ==
    ASSUME TypeOK, PhaseInv, CopyInv, EditAttempt
    PROVE  CopyInv'
  <1> DEFINE i == ch.status.id
  <1>0. pc # "idle" /\ ch.fin /\ i \in DOMAIN cf
    BY DEF EditAttempt, InZone, PhaseInv
  <1>1. PICK ssl \in {"pending", "active"} :
          /\ cf' = [cf EXCEPT ![i].cfg = ch.spec.cfg, ![i].ssl = ssl]
          /\ \/ Settle(Refresh(ch.status, ssl))
             \/ LostReplies /\ FailedAttempt
    BY DEF EditAttempt
  <1>2. RecordsKept(cf, cf')
    <2> DEFINE rec == [cf[i] EXCEPT !.cfg = ch.spec.cfg, !.ssl = ssl]
    <2>1. cf' = [cf EXCEPT ![i] = rec]
      BY <1>0, <1>1 DEF TypeOK
    <2>2. SameRecord(cf[i], rec)
      BY <1>0, EditHosts
    <2> HIDE DEF rec
    <2> QED
      BY <2>1, <2>2, ReplaceHosts
  <1>3. CASE Settle(Refresh(ch.status, ssl))
    <2>1. ch.status \in Status /\ GoodStatus(cf', ch.status, cur)
      BY <1>0, <1>2, CallStatus
    <2>2. /\ Refresh(ch.status, ssl) \in Status /\ Refresh(ch.status, ssl).id = i
          /\ Refresh(ch.status, ssl).ssl # "none"
      BY <2>1, StatusTypes DEF Refresh, Status
    <2>3. i # 0
      BY <1>0 DEF TypeOK
    <2>4. Refers(cf', Refresh(ch.status, ssl), cur)
      BY <2>1, <2>2 DEF Refers, GoodStatus
    <2> QED
      BY <1>0, <1>2, <1>3, <2>2, <2>3, <2>4, SettleGood
  <1>4. CASE FailedAttempt
    BY <1>0, <1>2, <1>4, FailedGood
  <1> QED
    BY <1>1, <1>3, <1>4

LEMMA DeleteGood ==
    ASSUME TypeOK, CopyInv, Predelete \/ DeleteAttempt \/ DeleteNotFound \/ CallFails
    PROVE  CopyInv'
  <1>0. pc # "idle"
    BY DEF Predelete, DeleteAttempt, DeleteNotFound, CallFails, CFCalls
  <1>1. RecordsKept(cf, cf')
    <2>1. CASE Predelete \/ DeleteNotFound \/ CallFails
      BY <2>1, SameHosts DEF Predelete, DeleteNotFound, CallFails
    <2>2. CASE DeleteAttempt
      <3> DEFINE i == ch.status.id
                 rec == [cf[i] EXCEPT !.live = FALSE]
      <3>1. i \in DOMAIN cf
        BY <2>2 DEF DeleteAttempt, InZone
      <3>2. cf' = [cf EXCEPT ![i] = rec]
        BY <2>2, <3>1 DEF DeleteAttempt, TypeOK
      <3>3. SameRecord(cf[i], rec)
        BY <3>1, EditHosts
      <3> HIDE DEF rec, i
      <3> QED
        BY <3>2, <3>3, ReplaceHosts
    <2> QED
      BY <2>1, <2>2
  <1>2. /\ ch.status \in Status /\ GoodStatus(cf', ch.status, cur)
        /\ ch.status.id # 0 => ch.fin
    BY <1>0, <1>1, CallStatus
  <1>3. \/ \E next : Goto(next, ch.status)
        \/ FailedAttempt \/ GiveUp
    BY DEF Predelete, DeleteAttempt, DeleteNotFound, CallFails, FailedAttempt
  <1> QED
    BY <1>0, <1>1, <1>2, <1>3, GotoGood, FailedGood

LEMMA APIWriteGood ==
    ASSUME TypeOK, FreshInv, CopyInv, AddFinalizer \/ Release \/ PersistStatus \/ WriteFails
    PROVE  CopyInv'
  <1>0. /\ pc # "idle" /\ cf' = cf /\ cache' = cache /\ pc' = "idle"
        /\ cur \in CRs /\ ch \in Object
    BY DEF TypeOK, AddFinalizer, Release, PersistStatus, WriteFails, APIWrites, Done, Abort
  <1>1. CacheGood' /\ CopyGood'
    BY <1>0 DEF CopyInv, CacheGood, CopyGood
  <1>2. APIGood' /\ WatchGood'
    <2>1. CASE AddFinalizer
      <3> DEFINE obj == [ch EXCEPT !.fin = TRUE, !.status = api[cur].status]
      <3>1. api[cur] # None /\ Put(cur, obj)
        BY <2>1 DEF AddFinalizer, FreshInv
      <3>2. obj.status = api[cur].status
        BY <1>0 DEF Object
      <3>3. Good(cf, obj, cur)
        BY <1>0, <3>1, <3>2 DEF CopyInv, APIGood, Good
      <3> QED
        BY <1>0, <3>1, <3>3, PutGood DEF CopyInv
    <2>2. CASE Release
      <3>1. Good(cf, None, cur)
        BY DEF Good
      <3> QED
        BY <1>0, <2>2, <3>1, PutGood DEF CopyInv, Release
    <2>3. CASE PersistStatus
      <3>1. CASE Put(cur, WithStatus(api[cur], ch.status))
        <4>1. api[cur] \in Object
          BY <1>0, <2>3 DEF PersistStatus, FreshInv, TypeOK
        <4>2. /\ WithStatus(api[cur], ch.status).status = ch.status
              /\ WithStatus(api[cur], ch.status).fin = ch.fin
          BY <1>0, <2>3, <4>1, ObjectFields, WithStatusType DEF PersistStatus, FreshInv
        <4>3. Good(cf, WithStatus(api[cur], ch.status), cur)
          BY <1>0, <4>2, CallStatus DEF Good
        <4> QED
          BY <1>0, <3>1, <4>3, PutGood DEF CopyInv
      <3>2. CASE UNCHANGED <<api, watch>>
        BY <1>0, <3>2 DEF CopyInv, APIGood, WatchGood
      <3> QED
        BY <2>3, <3>1, <3>2 DEF PersistStatus
    <2>4. CASE WriteFails
      BY <1>0, <2>4 DEF WriteFails, CopyInv, APIGood, WatchGood
    <2> QED
      BY <2>1, <2>2, <2>3, <2>4
  <1> QED
    BY <1>1, <1>2 DEF CopyInv

-----------------------------------------------------------------------------
(***************************************************************************)
(* All steps                                                               *)
(***************************************************************************)

\* Other clients of CF may make, edit and delete records, not rename them.
LEMMA ExternalHosts == TypeOK /\ External => RecordsKept(cf, cf')
  <1> SUFFICES ASSUME TypeOK, External PROVE RecordsKept(cf, cf')
    OBVIOUS
  <1>1. CASE ExtCreate
    BY <1>1, CFCreateHosts DEF ExtCreate
  <1>2. ASSUME NEW r \in DOMAIN cf, ExtEdit(r) \/ ExtDelete(r) \/ SSLChanges(r)
        PROVE  RecordsKept(cf, cf')
    <2>1. PICK rec : cf' = [cf EXCEPT ![r] = rec] /\ SameRecord(cf[r], rec)
      <3>1. CASE ExtEdit(r)
        <4>1. PICK cfg \in Cfgs : cf' = [cf EXCEPT ![r] = [cf[r] EXCEPT !.cfg = cfg]]
          BY <3>1 DEF ExtEdit
        <4> QED
          BY <4>1, EditHosts
      <3>2. CASE ExtDelete(r)
        <4>1. cf' = [cf EXCEPT ![r] = [cf[r] EXCEPT !.live = FALSE]]
          BY <3>2 DEF ExtDelete
        <4> QED
          BY <4>1, EditHosts
      <3>3. CASE SSLChanges(r)
        <4>1. PICK ssl : cf' = [cf EXCEPT ![r] = [cf[r] EXCEPT !.ssl = ssl]]
          BY <3>3 DEF SSLChanges
        <4> QED
          BY <4>1, EditHosts
      <3> QED
        BY <1>2, <3>1, <3>2, <3>3
    <2> QED
      BY <2>1, ReplaceHosts
  <1> QED
    BY <1>1, <1>2 DEF External

LEMMA QuietGood ==
    ASSUME CopyInv, RecordsKept(cf, cf'), UNCHANGED <<api, cache, watch, worker>>
    PROVE  CopyInv'
  <1>1. APIGood' /\ CacheGood' /\ WatchGood'
    BY HostsGood
  <1>2. CopyGood'
    BY GoodKept DEF CopyInv, CopyGood, worker
  <1> QED
    BY <1>1, <1>2 DEF CopyInv

LEMMA RestartGood == CopyInv /\ Restart => CopyInv'
  BY DEF CopyInv, Restart, APIGood, CacheGood, WatchGood, CopyGood

LEMMA CopyInvNext == IInv /\ CopyInv /\ [Next]_vars => CopyInv'
  <1> SUFFICES ASSUME IInv, CopyInv, [Next]_vars PROVE CopyInv'
    OBVIOUS
  <1>0. TypeOK /\ FreshInv /\ PhaseInv
    BY DEF IInv
  <1>1. ASSUME NEW c \in CRs, Reconcile(c) \/ User(c) PROVE CopyInv'
    BY <1>0, <1>1, ReconcileGood, UserGood
  <1>2. ASSUME NEW c \in CRs, DriftEvent(c) PROVE CopyInv'
    BY <1>2, SameHosts, QuietGood DEF DriftEvent
  <1>3. CASE WorkerStep
    BY <1>0, <1>3, LookupGood, CreateGood, EditGood, DeleteGood, APIWriteGood DEF WorkerStep
  <1>4. CASE Deliver
    BY <1>0, <1>4, DeliverGood
  <1>5. CASE External
    <2>1. UNCHANGED <<api, cache, watch, worker>>
      BY <1>5 DEF External, ExtCreate, ExtEdit, ExtDelete, SSLChanges, OnlyCF
    <2> QED
      BY <1>0, <1>5, <2>1, ExternalHosts, QuietGood
  <1>6. ASSUME NEW z \in Zones, ZoneChanges(z) PROVE CopyInv'
    BY <1>6, SameHosts, QuietGood DEF ZoneChanges
  <1>7. CASE Restart
    BY <1>7, RestartGood
  <1>8. CASE UNCHANGED vars
    BY <1>8, SameHosts, QuietGood DEF vars
  <1> QED
    BY <1>1, <1>2, <1>3, <1>4, <1>5, <1>6, <1>7, <1>8 DEF Next

LEMMA CopyInvariance == Spec => []CopyInv
  <1>1. Init => CopyInv
    BY DEF Init, CopyInv, APIGood, CacheGood, WatchGood, CopyGood, Good
  <1> QED
    BY <1>1, CopyInvNext, Invariance, PTL DEF Spec

\* The id of a CR is always that of a record, dead or alive, of its own hostname,
\* so that a deletion by it never removes another hostname.
THEOREM IdsAreOfOwnHost == Spec => []RecordedHost
  <1>1. CopyInv => RecordedHost
    BY DEF CopyInv, APIGood, Good, GoodStatus, Refers, RecordedHost
  <1> QED
    BY <1>1, CopyInvariance, PTL

\* Ready, SSLPending and Error are stored only with the certificate, the id and the
\* error counter they stand for, and a counter that is not 0 only with Error,
\* HostnameConflict or DryRun.
THEOREM StatusesAreConsistent == Spec => []StatusConsistent
  <1>1. CopyInv => StatusConsistent
    BY DEF CopyInv, APIGood, Good, GoodStatus, Honest, StatusConsistent
  <1> QED
    BY <1>1, CopyInvariance, PTL
=============================================================================
