------------------------ MODULE ZoneControllerProofs ------------------------
(***************************************************************************)
(* Theorems about ZoneController, for any Zones, ids, secrets, methods,    *)
(* generations, time to live, and any lag of the watch.                    *)
(***************************************************************************)
EXTENDS ZoneController, TLAPS

-----------------------------------------------------------------------------
(***************************************************************************)
(* The inductive invariants                                                *)
(***************************************************************************)

\* What is about to be written tells of the copy it was computed on.
WriteInv ==
    step = "write" => zobj.init = [gen |-> zobj.gen, by |-> zobj.spec]

ZInv == ZoneTypeOK /\ WriteInv /\ InitializedMeansValidated

-----------------------------------------------------------------------------
(***************************************************************************)
(* Types                                                                   *)
(***************************************************************************)

ZEvent == [zone : Zones, obj : Zone \cup {None}]

\* The API server's objects: what ZoneTypeOK says of them.
Observed(o) == o # None /\ o.init # None => o.init.gen <= o.gen

Validated(o) == o # None /\ o.init # None /\ o.init.gen = o.gen => o.init.by = o.spec

LEMMA ZPutType ==
    ASSUME ZoneTypeOK, InitializedMeansValidated,
           NEW z \in Zones, NEW obj \in Zone \cup {None}, ZPut(z, obj),
           Observed(obj), Validated(obj)
    PROVE  /\ zapi' \in [Zones -> Zone \cup {None}]
           /\ zwatch' \in Seq(ZEvent)
           /\ \A y \in Zones : Observed(zapi'[y])
           /\ \A y \in Zones : Validated(zapi'[y])
  <1>1. zapi \in [Zones -> Zone \cup {None}] /\ zapi' = [zapi EXCEPT ![z] = obj]
    BY DEF ZoneTypeOK, ZPut
  <1>2. [zone |-> z, obj |-> obj] \in ZEvent
    BY DEF ZEvent
  <1>3. zwatch' \in Seq(ZEvent)
    BY <1>2 DEF ZoneTypeOK, ZPut, ZEvent
  <1>4. \A y \in Zones : Observed(zapi[y])
    BY DEF ZoneTypeOK, Observed
  <1>5. \A y \in Zones : Validated(zapi[y])
    BY DEF InitializedMeansValidated, Validated
  <1>6. \A y \in Zones : zapi'[y] = IF y = z THEN obj ELSE zapi[y]
    BY <1>1
  <1>7. ASSUME NEW y \in Zones PROVE Observed(zapi'[y]) /\ Validated(zapi'[y])
    BY <1>4, <1>5, <1>6
  <1> QED
    BY <1>1, <1>3, <1>7

\* All variables but those of the API server.
Rest ==
    /\ zcache \in [Zones -> Zone \cup {None}]
    /\ secrets \subseteq Creds /\ zqueue \subseteq Zones
    /\ step \in {"idle", "get", "write", "drift", "clean"}
    /\ step = "idle" => zcur = None /\ zobj = None
    /\ step # "idle" => zcur \in Zones /\ zobj \in Zone
    /\ zfresh \in BOOLEAN /\ calm \in BOOLEAN
    /\ gauge \in [Zones -> {None, 0, 1}] /\ counts \subseteq DriftGauges \X Zones
    /\ series \subseteq Series /\ setting \in Series \cup {None}
    /\ entry \in [Zones -> Entry \cup {None}]

Server ==
    /\ zapi \in [Zones -> Zone \cup {None}]
    /\ zwatch \in Seq(ZEvent)
    /\ \A y \in Zones : Observed(zapi[y])
    /\ \A y \in Zones : Validated(zapi[y])

\* The invariant in three parts.
LEMMA Parts == ZInv <=> Server /\ Rest /\ WriteInv
  BY DEF ZInv, ZoneTypeOK, InitializedMeansValidated, Server, Rest, Observed, Validated, ZEvent

\* The same of the next state.
LEMMA NextParts == Server' /\ Rest' /\ WriteInv' => ZInv'
  BY DEF ZInv, ZoneTypeOK, InitializedMeansValidated, Server, Rest, Observed, Validated, ZEvent

LEMMA PutParts ==
    ASSUME ZInv, NEW z \in Zones, NEW obj \in Zone \cup {None}, ZPut(z, obj),
           Observed(obj), Validated(obj)
    PROVE  Server'
  BY ZPutType DEF ZInv, Server

LEMMA ByOtherInv ==
    ASSUME ZInv, NEW z \in Zones, NEW obj \in Zone \cup {None}, ZPutByOther(z, obj),
           Observed(obj), Validated(obj)
    PROVE  ZInv'
  <1>1. Server'
    BY PutParts DEF ZPutByOther
  <1>2. Rest'
    BY Parts DEF Rest, ZPutByOther, ssl
  <1>3. WriteInv'
    BY DEF ZInv, WriteInv, ZPutByOther
  <1> QED
    BY <1>1, <1>2, <1>3, NextParts

\* Users: create, edit, delete a Zone.
LEMMA ZUserInv ==
    ASSUME ZInv, NEW z \in Zones, CreateZone(z) \/ EditZone(z) \/ DeleteZone(z)
    PROVE  ZInv'
  <1>1. CASE CreateZone(z)
    <2>1. PICK spec \in Identity : ZPutByOther(z, [spec |-> spec, gen |-> 1, init |-> None])
      BY <1>1 DEF CreateZone
    <2> DEFINE obj == [spec |-> spec, gen |-> 1, init |-> None]
    <2>2. 1 \in 1..MaxGen
      BY ZoneAssumption
    <2>3. obj \in Zone
      BY <2>2 DEF Zone
    <2>4. Observed(obj) /\ Validated(obj)
      BY DEF Observed, Validated
    <2> HIDE DEF obj
    <2>5. ZPutByOther(z, obj)
      BY <2>1 DEF obj
    <2> QED
      BY <2>3, <2>4, <2>5, ByOtherInv
  <1>2. CASE EditZone(z)
    <2>1. zapi[z] \in Zone /\ Observed(zapi[z]) /\ zapi[z].gen < MaxGen
      BY <1>2, Parts DEF Server, EditZone
    <2>2. PICK cred \in Creds :
            ZPutByOther(z, [zapi[z] EXCEPT !.spec.cred = cred, !.gen = @ + 1])
      BY <1>2 DEF EditZone
    <2> DEFINE obj == [zapi[z] EXCEPT !.spec.cred = cred, !.gen = @ + 1]
    <2>3. /\ obj \in Zone
          /\ obj.gen = zapi[z].gen + 1 /\ obj.init = zapi[z].init
      <3>1. zapi[z].gen \in 1..MaxGen /\ zapi[z].spec \in Identity
        BY <2>1 DEF Zone
      <3>2. zapi[z].gen + 1 \in 1..MaxGen
        BY <2>1, <3>1, ZoneAssumption
      <3>3. [zapi[z].spec EXCEPT !.cred = cred] \in Identity
        BY <3>1 DEF Identity
      <3> QED
        BY <2>1, <3>2, <3>3 DEF Zone
    <2>4. Observed(obj) /\ Validated(obj)
      <3>1. zapi[z].gen \in Nat
        BY <2>1, ZoneAssumption DEF Zone
      <3>2. obj.init # None => obj.init.gen \in Nat /\ obj.init.gen <= zapi[z].gen
        <4>1. ASSUME zapi[z].init # None PROVE zapi[z].init.gen \in Nat
          <5>1. zapi[z].init \in [gen : 1..MaxGen, by : Identity]
            BY <2>1, <4>1 DEF Zone
          <5> QED
            BY <5>1, ZoneAssumption
        <4>2. zapi[z] # None
          BY <1>2 DEF EditZone
        <4> QED
          BY <2>1, <2>3, <4>1, <4>2 DEF Observed
      <3> HIDE DEF obj
      <3> QED
        BY <2>3, <3>1, <3>2 DEF Observed, Validated
    <2> HIDE DEF obj
    <2>5. ZPutByOther(z, obj)
      BY <2>2 DEF obj
    <2> QED
      BY <2>3, <2>4, <2>5, ByOtherInv
  <1>3. CASE DeleteZone(z)
    <2>1. Observed(None) /\ Validated(None)
      BY DEF Observed, Validated
    <2> QED
      BY <1>3, <2>1, ByOtherInv DEF DeleteZone
  <1> QED
    BY <1>1, <1>2, <1>3

LEMMA ZDeliverInv == ZInv /\ ZDeliver => ZInv'
  <1> SUFFICES ASSUME ZInv, ZDeliver PROVE ZInv'
    OBVIOUS
  <1>1. zwatch \in Seq(ZEvent) /\ zwatch # <<>>
    BY Parts DEF Server, ZDeliver
  <1>2. Head(zwatch) \in ZEvent /\ Tail(zwatch) \in Seq(ZEvent)
    BY <1>1
  <1>3. Head(zwatch).zone \in Zones /\ Head(zwatch).obj \in Zone \cup {None}
    BY <1>2 DEF ZEvent
  <1>4. Server'
    BY <1>2, Parts DEF Server, ZDeliver
  <1>5. Rest'
    BY <1>3, Parts DEF Rest, ZDeliver, zworker, ssl
  <1>6. WriteInv'
    BY DEF ZInv, WriteInv, ZDeliver, zworker
  <1> QED
    BY <1>4, <1>5, <1>6, NextParts

\* The worker takes a key.
LEMMA TakesInv ==
    ASSUME ZInv, NEW z \in Zones, ZoneWorkerTakes(z)
    PROVE  ZInv'
  <1> USE DEF objects, zworker, ssl
  <1>0. Server /\ Rest /\ WriteInv
    BY Parts
  <1>1. Server'
    BY <1>0 DEF Server, ZoneWorkerTakes, ZReconcileGone, ZReconcileNoToken, ZReconcile
  <1>2. ASSUME NEW o PROVE Initialized(o) \in {None, 0, 1}
    BY DEF Initialized
  <1>3. Rest' /\ WriteInv'
    <2>1. CASE ZReconcileGone(z)
      BY <1>0, <2>1 DEF Rest, WriteInv, ZReconcileGone
    <2>2. CASE ZReconcileNoToken(z)
      BY <1>0, <1>2, <2>2 DEF Rest, WriteInv, ZReconcileNoToken
    <2>3. CASE ZReconcile(z)
      <3>1. zcache[z] \in Zone
        BY <1>0, <2>3 DEF Rest, ZReconcile
      <3>2. (~ZPending(z)) \in BOOLEAN
        BY DEF ZPending
      <3>3. step' \in {"get", "drift"}
        BY <2>3 DEF ZReconcile
      <3> QED
        BY <1>0, <1>2, <2>3, <3>1, <3>2, <3>3 DEF Rest, WriteInv, ZReconcile
    <2> QED
      BY <2>1, <2>2, <2>3 DEF ZoneWorkerTakes
  <1> QED
    BY <1>1, <1>3, NextParts

LEMMA GetZoneInv == ZInv /\ GetZone => ZInv'
  <1> SUFFICES ASSUME ZInv, GetZone PROVE ZInv'
    OBVIOUS
  <1> USE DEF objects, ssl
  <1>0. Server /\ Rest
    BY Parts
  <1> DEFINE seen == [gen |-> zobj.gen, by |-> zobj.spec]
  <1>1. zobj \in Zone
    BY <1>0 DEF Rest, GetZone
  <1>2. seen \in [gen : 1..MaxGen, by : Identity]
    BY <1>1 DEF Zone
  <1>3. zobj' = [zobj EXCEPT !.init = seen]
    BY DEF GetZone
  <1> HIDE DEF seen
  <1>4. /\ zobj' \in Zone /\ zobj'.init = seen
        /\ zobj'.gen = zobj.gen /\ zobj'.spec = zobj.spec
    BY <1>1, <1>2, <1>3 DEF Zone
  <1>5. WriteInv'
    BY <1>4 DEF WriteInv, seen
  <1>6. Rest'
    BY <1>0, <1>4 DEF Rest, GetZone
  <1>7. Server'
    BY <1>0 DEF Server, GetZone
  <1> QED
    BY <1>5, <1>6, <1>7, NextParts

LEMMA SetInitializedInv == ZInv /\ SetInitialized => ZInv'
  <1> SUFFICES ASSUME ZInv, SetInitialized PROVE ZInv'
    OBVIOUS
  <1>0. Rest /\ WriteInv
    BY Parts
  <1>1. zcur \in Zones /\ zobj \in Zone /\ zobj.init = [gen |-> zobj.gen, by |-> zobj.spec]
    BY <1>0 DEF Rest, WriteInv, SetInitialized
  <1>2. zobj.gen \in Nat
    BY <1>1, ZoneAssumption DEF Zone
  <1>3. Observed(zobj) /\ Validated(zobj)
    BY <1>1, <1>2 DEF Observed, Validated
  <1>4. Server'
    BY <1>1, <1>3, PutParts DEF SetInitialized
  <1>5. Rest' /\ WriteInv'
    BY <1>0, <1>1 DEF Rest, WriteInv, SetInitialized, ssl
  <1> QED
    BY <1>4, <1>5, NextParts

\* The end of a reconcile, and what leaves objects and worker alone.
LEMMA ZIdleInv ==
    ASSUME ZInv, step # "idle", ZIdle, zqueue' = zqueue \cup {zcur},
           UNCHANGED <<objects, gauge, counts, setting, calm>>,
           series' \subseteq series,
           entry' \in [Zones -> Entry \cup {None}]
    PROVE  ZInv'
  <1>0. Server /\ Rest
    BY Parts
  <1>1. Server'
    BY <1>0 DEF Server, objects
  <1>2. Rest' /\ WriteInv'
    BY <1>0 DEF Rest, WriteInv, ZIdle, objects
  <1> QED
    BY <1>1, <1>2, NextParts

LEMMA WorkerEndInv ==
    ASSUME ZInv, StaleWrite \/ ZFails \/ EndReconcile
    PROVE  ZInv'
  <1>0. Rest
    BY Parts
  <1>1. CASE StaleWrite \/ ZFails
    BY <1>0, <1>1, ZIdleInv DEF Rest, StaleWrite, ZFails, ZAbort, ssl
  <1>2. CASE EndReconcile
    <2>1. entry' \in [Zones -> Entry \cup {None}]
      BY <1>0, <1>2 DEF Rest, EndReconcile, CleanExpiredSSLProvisioning
    <2> QED
      BY <1>2, <2>1, ZIdleInv DEF EndReconcile, CleanExpiredSSLProvisioning
  <1> QED
    BY <1>1, <1>2

LEMMA EntryType ==
    ASSUME NEW e \in Entry \cup {None}
    PROVE  Older(e) \in Entry \cup {None}
  <1>1. CASE e # None /\ e.age <= TTL
    <2>1. e \in Entry
      BY <1>1
    <2>2. e.age + 1 \in 0..TTL + 1
      BY <1>1, <2>1, ZoneAssumption DEF Entry
    <2> QED
      BY <1>1, <2>1, <2>2 DEF Older, Entry
  <1>2. CASE ~(e # None /\ e.age <= TTL)
    BY <1>2 DEF Older
  <1> QED
    BY <1>1, <1>2

\* The gauge, the clock, secrets, and the publication of the counts.
LEMMA OthersInv ==
    ASSUME ZInv,
           DriftCycle \/ SetEntry \/ Tick \/ SecretChanges \/ ZBecomesCalm
           \/ \E z \in Zones, m \in Methods : SetGauge(z, m)
    PROVE  ZInv'
  <1> USE DEF objects, zworker, ssl
  <1>0. Server /\ Rest /\ WriteInv
    BY Parts
  <1>1. CASE DriftCycle
    <2>1. zcur \in Zones
      BY <1>0, <1>1 DEF Rest, DriftCycle
    <2>2. counts' \subseteq DriftGauges \X Zones
      BY <1>0, <1>1, <2>1 DEF Rest, DriftCycle
    <2> QED
      BY <1>0, <1>1, <2>2, NextParts DEF Server, Rest, WriteInv, DriftCycle
  <1>2. CASE SetEntry
    <2>1. setting \in Series
      BY <1>0, <1>2 DEF Rest, SetEntry
    <2>2. /\ setting.zone \in Zones
          /\ [method |-> setting.method, age |-> 0] \in Entry
      BY <2>1, ZoneAssumption DEF Series, Entry
    <2>3. entry' \in [Zones -> Entry \cup {None}]
      BY <1>0, <1>2, <2>2 DEF Rest, SetEntry
    <2>4. series' \subseteq Series
      BY <1>0, <1>2 DEF Rest, SetEntry
    <2>5. Rest'
      BY <1>0, <1>2, <2>3, <2>4 DEF Rest, SetEntry
    <2> QED
      BY <1>0, <1>2, <2>5, NextParts DEF Server, WriteInv, SetEntry
  <1>3. CASE Tick
    <2>1. entry' \in [Zones -> Entry \cup {None}]
      BY <1>0, <1>3, EntryType DEF Rest, Tick
    <2>2. Rest'
      BY <1>0, <1>3, <2>1 DEF Rest, Tick
    <2> QED
      BY <1>0, <1>3, <2>2, NextParts DEF Server, WriteInv, Tick
  <1>4. CASE SecretChanges
    BY <1>0, <1>4, NextParts DEF Server, Rest, WriteInv, SecretChanges
  <1>5. CASE ZBecomesCalm
    BY <1>0, <1>5, NextParts DEF Server, Rest, WriteInv, ZBecomesCalm
  <1>6. ASSUME NEW z \in Zones, NEW m \in Methods, SetGauge(z, m) PROVE ZInv'
    <2>1. setting' \in Series
      BY <1>6 DEF SetGauge, Series
    <2>2. Rest'
      BY <1>0, <1>6, <2>1 DEF Rest, SetGauge
    <2> QED
      BY <1>0, <1>6, <2>2, NextParts DEF Server, WriteInv, SetGauge
  <1> QED
    BY <1>1, <1>2, <1>3, <1>4, <1>5, <1>6

LEMMA ZRestartInv == ZInv /\ ZRestart => ZInv'
  <1> SUFFICES ASSUME ZInv, ZRestart PROVE ZInv'
    OBVIOUS
  <1>0. Server /\ Rest
    BY Parts
  <1>1. Server'
    BY <1>0 DEF Server, ZRestart
  <1>2. Rest' /\ WriteInv'
    BY <1>0 DEF Server, Rest, WriteInv, ZRestart, ZIdle
  <1> QED
    BY <1>1, <1>2, NextParts

LEMMA ZInitInv == ZInit => ZInv
  <1> SUFFICES ASSUME ZInit PROVE ZInv
    OBVIOUS
  <1>1. Server
    BY DEF Server, ZInit, Observed, Validated
  <1>2. Rest /\ WriteInv
    BY DEF Rest, WriteInv, ZInit
  <1> QED
    BY <1>1, <1>2, Parts

LEMMA ZInvNext == ZInv /\ [ZNext]_zvars => ZInv'
  <1> SUFFICES ASSUME ZInv, [ZNext]_zvars PROVE ZInv'
    OBVIOUS
  <1>1. ASSUME NEW z \in Zones, ZoneWorkerTakes(z) PROVE ZInv'
    BY <1>1, TakesInv
  <1>2. CASE ZoneWorkerStep
    BY <1>2, GetZoneInv, SetInitializedInv, WorkerEndInv, OthersInv DEF ZoneWorkerStep
  <1>3. CASE ZDeliver \/ SetEntry \/ Tick \/ ZBecomesCalm
    BY <1>3, ZDeliverInv, OthersInv
  <1>4. CASE ZDisturbance
    BY <1>4, ZUserInv, OthersInv, WorkerEndInv, ZRestartInv DEF ZDisturbance
  <1>5. CASE UNCHANGED zvars
    BY <1>5, Parts, NextParts DEF zvars, objects, zworker, ssl, Server, Rest, WriteInv
  <1> QED
    BY <1>1, <1>2, <1>3, <1>4, <1>5 DEF ZNext

LEMMA ZInvariance == ZSafety => []ZInv
  BY ZInitInv, ZInvNext, PTL DEF ZSafety

\* All state is of its type, and no condition observed a generation to come.
THEOREM ZoneTypeCorrect == ZSafety => []ZoneTypeOK
  <1>1. ZInv => ZoneTypeOK
    BY DEF ZInv
  <1> QED
    BY <1>1, ZInvariance, PTL

\* A Zone that is reported as initialized at its generation was validated in
\* Cloudflare with the id and the credentials it has.
THEOREM InitializedZonesAreValidated == ZSafety => []InitializedMeansValidated
  <1>1. ZInv => InitializedMeansValidated
    BY DEF ZInv
  <1> QED
    BY <1>1, ZInvariance, PTL

-----------------------------------------------------------------------------
(***************************************************************************)
(* The gauge of SSL durations and its cache                                *)
(***************************************************************************)

LEMMA GaugeTypes ==
    ASSUME ZoneTypeOK
    PROVE  /\ \A s \in series : s \in Series
           /\ setting \in Series \cup {None}
           /\ entry \in [Zones -> Entry \cup {None}]
           /\ None \notin Entry /\ None \notin Series
  BY ZoneAssumption DEF ZoneTypeOK, Entry, Series

LEMMA SeriesEqual ==
    ASSUME NEW s \in Series, NEW t \in Series, s.zone = t.zone, s.method = t.method
    PROVE  s = t
  BY DEF Series

\* Fewer series and the same entries: nothing gets lost.
LEMMA FewerSeries ==
    ASSUME SeriesTracked, series' \subseteq series, UNCHANGED <<entry, setting>>
    PROVE  SeriesTracked'
  BY DEF SeriesTracked

LEMMA SetEntryTracked == ZoneTypeOK /\ SeriesTracked /\ SetEntry => SeriesTracked'
  <1> SUFFICES ASSUME ZoneTypeOK, SeriesTracked, SetEntry, NEW s \in series'
               PROVE  entry'[s.zone] # None /\ entry'[s.zone].method = s.method
    BY DEF SeriesTracked
  <1> DEFINE z == setting.zone
             e == [method |-> setting.method, age |-> 0]
  <1>0. s \in series
    BY DEF SetEntry
  <1>1. setting \in Series /\ z \in Zones /\ s \in Series /\ s.zone \in Zones
    BY <1>0, GaugeTypes DEF SetEntry, Series
  <1>2. e \in Entry /\ e # None
    BY <1>1, GaugeTypes, ZoneAssumption DEF Entry, Series
  <1>3. entry'[s.zone] = IF s.zone = z THEN e ELSE entry[s.zone]
    BY <1>1, GaugeTypes DEF SetEntry
  <1>4. CASE s = setting
    BY <1>2, <1>3, <1>4
  <1>5. CASE s # setting /\ s.zone # z
    BY <1>0, <1>3, <1>5 DEF SeriesTracked
  <1>6. CASE s # setting /\ s.zone = z
    <2>1. entry[z] # None /\ entry[z].method = s.method
      BY <1>0, <1>6 DEF SeriesTracked
    <2>2. entry[z].method # setting.method
      BY <1>1, <1>6, <2>1, SeriesEqual
    <2>3. series' = series \ {[zone |-> z, method |-> entry[z].method]}
      BY <2>1, <2>2 DEF SetEntry
    <2>4. s = [zone |-> z, method |-> entry[z].method]
      BY <1>1, <1>6, <2>1 DEF Series
    <2> QED
      BY <2>3, <2>4
  <1> QED
    BY <1>4, <1>5, <1>6

LEMMA EndTracked == ZoneTypeOK /\ SeriesTracked /\ EndReconcile => SeriesTracked'
  <1> SUFFICES ASSUME ZoneTypeOK, SeriesTracked, EndReconcile, NEW s \in series'
               PROVE  \/ s = setting'
                      \/ entry'[s.zone] # None /\ entry'[s.zone].method = s.method
    BY DEF SeriesTracked
  <1>1. /\ series' = series \ {[zone |-> z, method |-> entry[z].method] : z \in Expired}
        /\ entry' = [z \in Zones |-> IF z \in Expired THEN None ELSE entry[z]]
        /\ setting' = setting
    BY DEF EndReconcile, CleanExpiredSSLProvisioning
  <1>2. s \in series /\ s \in Series /\ s.zone \in Zones
    BY <1>1, GaugeTypes DEF Series
  <1>3. CASE s = setting
    BY <1>1, <1>3
  <1>4. CASE entry[s.zone] # None /\ entry[s.zone].method = s.method
    <2>1. s.zone \notin Expired
      <3>1. s = [zone |-> s.zone, method |-> entry[s.zone].method]
        BY <1>2, <1>4 DEF Series
      <3> QED
        BY <1>1, <3>1
    <2>2. entry'[s.zone] = entry[s.zone]
      BY <1>1, <1>2, <2>1
    <2> QED
      BY <1>4, <2>2
  <1> QED
    BY <1>2, <1>3, <1>4 DEF SeriesTracked

LEMMA TickTracked == ZoneTypeOK /\ SeriesTracked /\ Tick => SeriesTracked'
  <1> SUFFICES ASSUME ZoneTypeOK, SeriesTracked, Tick, NEW s \in series
               PROVE  \/ s = setting
                      \/ entry'[s.zone] # None /\ entry'[s.zone].method = s.method
    BY DEF SeriesTracked, Tick
  <1>1. s.zone \in Zones
    BY GaugeTypes DEF Series
  <1>2. CASE s = setting
    BY <1>2
  <1>3. CASE entry[s.zone] # None /\ entry[s.zone].method = s.method
    <2>1. entry[s.zone] \in Entry /\ entry'[s.zone] = Older(entry[s.zone])
      BY <1>1, <1>3, GaugeTypes DEF Tick
    <2>2. /\ Older(entry[s.zone]) \in Entry \cup {None}
          /\ Older(entry[s.zone]).method = entry[s.zone].method
      BY <2>1, EntryType DEF Older, Entry
    <2>3. Older(entry[s.zone]) # None
      <3>1. CASE entry[s.zone].age <= TTL
        <4>1. entry[s.zone].age + 1 \in 0..TTL + 1
          BY <2>1, <3>1, ZoneAssumption DEF Entry
        <4>2. [entry[s.zone] EXCEPT !.age = @ + 1] \in Entry
          BY <2>1, <4>1 DEF Entry
        <4> QED
          BY <1>3, <3>1, <4>2, GaugeTypes DEF Older
      <3>2. CASE ~(entry[s.zone].age <= TTL)
        BY <1>3, <3>2 DEF Older
      <3> QED
        BY <3>1, <3>2
    <2> QED
      BY <1>3, <2>1, <2>2, <2>3
  <1> QED
    BY <1>2, <1>3 DEF SeriesTracked

LEMMA SetGaugeTracked ==
    ASSUME ZoneTypeOK, SeriesTracked, NEW z \in Zones, NEW m \in Methods, SetGauge(z, m)
    PROVE  SeriesTracked'
  <1> SUFFICES ASSUME NEW s \in series'
               PROVE  \/ s = setting'
                      \/ entry'[s.zone] # None /\ entry'[s.zone].method = s.method
    BY DEF SeriesTracked
  <1>1. CASE s = setting'
    BY <1>1
  <1>2. CASE s # setting'
    <2>1. s \in series /\ s # None
      BY <1>2, GaugeTypes DEF SetGauge
    <2> QED
      BY <2>1 DEF SeriesTracked, SetGauge
  <1> QED
    BY <1>1, <1>2

LEMMA SeriesTrackedNext ==
    ZoneTypeOK /\ SeriesTracked /\ [ZNext]_zvars => SeriesTracked'
  <1> SUFFICES ASSUME ZoneTypeOK, SeriesTracked, [ZNext]_zvars PROVE SeriesTracked'
    OBVIOUS
  <1>1. ASSUME NEW z \in Zones, ZoneWorkerTakes(z) PROVE SeriesTracked'
    BY <1>1, FewerSeries
       DEF ZoneWorkerTakes, ZReconcileGone, ZReconcileNoToken, ZReconcile, ssl
  <1>2. CASE GetZone \/ SetInitialized \/ StaleWrite \/ DriftCycle \/ ZDeliver \/ ZFails
    BY <1>2, FewerSeries
       DEF GetZone, SetInitialized, StaleWrite, DriftCycle, ZDeliver, ZFails, ZAbort, ssl
  <1>3. CASE EndReconcile \/ SetEntry \/ Tick
    BY <1>3, EndTracked, SetEntryTracked, TickTracked
  <1>4. ASSUME NEW z \in Zones, CreateZone(z) \/ EditZone(z) \/ DeleteZone(z)
        PROVE  SeriesTracked'
    BY <1>4, FewerSeries DEF CreateZone, EditZone, DeleteZone, ZPutByOther, ssl
  <1>5. ASSUME NEW z \in Zones, NEW m \in Methods, SetGauge(z, m) PROVE SeriesTracked'
    BY <1>5, SetGaugeTracked
  <1>6. CASE SecretChanges \/ ZBecomesCalm \/ UNCHANGED zvars
    BY <1>6, FewerSeries DEF SecretChanges, ZBecomesCalm, zvars, ssl
  <1>7. CASE ZRestart
    BY <1>7 DEF ZRestart, SeriesTracked
  <1> QED
    BY <1>1, <1>2, <1>3, <1>4, <1>5, <1>6, <1>7 DEF ZNext, ZoneWorkerStep, ZDisturbance

\* No series of the gauge outlives its entry in the cache, although the gauge is
\* set before the mutex is taken and the cleaning may run in between.
THEOREM SeriesAreTracked == ZSafety => []SeriesTracked
  <1>1. ZInit => SeriesTracked
    BY DEF ZInit, SeriesTracked
  <1> QED
    BY <1>1, SeriesTrackedNext, ZoneTypeCorrect, PTL DEF ZSafety
=============================================================================
