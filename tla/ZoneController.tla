--------------------------- MODULE ZoneController ---------------------------
(***************************************************************************)
(* The Zone controller: one worker that initializes Zone objects, runs the *)
(* drift cycle, and looks after the metric series of its zones.            *)
(*                                                                         *)
(* EdgeOperator leaves open when a zone needs to be initialized; here are  *)
(* the objects and generations this depends on.  The drift cycle is one    *)
(* step here, for EdgeOperator has it in detail.                           *)
(*                                                                         *)
(* Series of the gauge of SSL provisioning durations are set by the        *)
(* CustomHostname worker and removed by the Zone worker once they are old: *)
(* by means of a cache that a mutex protects, while the gauge itself is    *)
(* set outside of it.  There is one hostname per zone here, so that the    *)
(* zone stands for the key of the cache.                                   *)
(***************************************************************************)
EXTENDS Naturals, Sequences

CONSTANTS
    Zones,     \* names of Zone objects
    None,      \* no object, no entry, no series
    ZoneIDs,   \* values of spec.id, the zone in Cloudflare: immutable
    Creds,     \* values of spec.credentialsRef: secrets
    Methods,   \* DCV methods, a label of the gauge
    TTL,       \* sslProvisioningTTL, in ticks of the clock
    MaxGen,    \* bound: generations of a Zone object
    MaxLag     \* bound: watch events not yet delivered

\* A series of the gauge, and an entry of the cache.
Series == [zone : Zones, method : Methods]

Entry == [method : Methods, age : 0..TTL + 1]

ASSUME ZoneAssumption ==
    /\ TTL \in Nat /\ MaxGen \in Nat \ {0} /\ MaxLag \in Nat
    /\ None \notin Zones /\ None \notin Series /\ None \notin Entry

\* init: the Initialized condition, with the generation it was observed at and,
\* for properties only, the identity the zone GET was made with.
Identity == [id : ZoneIDs, cred : Creds]

Zone == [spec : Identity, gen : 1..MaxGen,
         init : [gen : 1..MaxGen, by : Identity] \cup {None}]

VARIABLES
    zapi,     \* API server: Zone -> object or None
    zcache,   \* informer cache: Zone -> object or None
    zwatch,   \* API server events the informer has yet to receive, in order
    secrets,  \* the secrets that exist
    zqueue,   \* work queue of the controller
    step,     \* what the worker does next, "idle" between reconciles
    zcur,     \* the zone being reconciled
    zobj,     \* the worker's in-memory copy of it
    zfresh,   \* zobj carries the resourceVersion the API server holds
    gauge,    \* zoneInitialized: Zone -> 0, 1, or no series
    counts,   \* the other gauges of the drift cycle: which have series of which Zone
    series,   \* sslProvisioningDuration: the series there are
    entry,    \* sslProvisioningCache: key -> method and age, or None
    setting,  \* the series the CustomHostname worker has set, its entry not yet
    calm      \* from now on nothing fails and nobody else acts; for properties only

\* The gauges a drift cycle publishes with the name of the Zone as a label.
DriftGauges == {"customHostnames", "zoneCustomHostnames", "hostnameStatus"}

\* Those whose series are removed when the Zone is found deleted: hostnameStatusGauge
\* is not among them.
RemovedWithZone == {"customHostnames", "zoneCustomHostnames"}

zworker == <<step, zcur, zobj, zfresh>>
objects == <<zapi, zcache, zwatch, secrets>>
ssl == <<series, entry, setting>>
zvars == <<objects, zqueue, zworker, gauge, counts, ssl, calm>>

\* The types, and that a condition never observed a generation yet to come.
ZoneTypeOK ==
    /\ \A z \in Zones : zapi[z] # None /\ zapi[z].init # None
                          => zapi[z].init.gen <= zapi[z].gen
    /\ zapi \in [Zones -> Zone \cup {None}] /\ zcache \in [Zones -> Zone \cup {None}]
    /\ zwatch \in Seq([zone : Zones, obj : Zone \cup {None}])
    /\ secrets \subseteq Creds /\ zqueue \subseteq Zones
    /\ step \in {"idle", "get", "write", "drift", "clean"}
    /\ step = "idle" => zcur = None /\ zobj = None
    /\ step # "idle" => zcur \in Zones /\ zobj \in Zone
    /\ zfresh \in BOOLEAN /\ calm \in BOOLEAN
    /\ gauge \in [Zones -> {None, 0, 1}] /\ counts \subseteq DriftGauges \X Zones
    /\ series \subseteq Series /\ setting \in Series \cup {None}
    /\ entry \in [Zones -> Entry \cup {None}]

-----------------------------------------------------------------------------
(***************************************************************************)
(* Zone objects and secrets                                                *)
(***************************************************************************)

ZPending(z) == \E i \in DOMAIN zwatch : zwatch[i].zone = z

ZPut(z, obj) ==
    /\ Len(zwatch) < MaxLag
    /\ zapi' = [zapi EXCEPT ![z] = obj]
    /\ zwatch' = Append(zwatch, [zone |-> z, obj |-> obj])

ZPutByOther(z, obj) ==
    /\ ZPut(z, obj)
    /\ zfresh' = (zfresh /\ zcur # z)
    /\ UNCHANGED <<zcache, secrets, zqueue, step, zcur, zobj, gauge, counts, ssl, calm>>

CreateZone(z) ==
    /\ zapi[z] = None
    /\ \E spec \in Identity : ZPutByOther(z, [spec |-> spec, gen |-> 1, init |-> None])

\* Only the credentials can be edited; every edit is a new generation.
EditZone(z) ==
    /\ zapi[z] # None /\ zapi[z].gen < MaxGen
    /\ \E cred \in Creds \ {zapi[z].spec.cred} :
          ZPutByOther(z, [zapi[z] EXCEPT !.spec.cred = cred, !.gen = @ + 1])

DeleteZone(z) == zapi[z] # None /\ ZPutByOther(z, None)

SecretChanges ==
    /\ \E s \in SUBSET Creds : s # secrets /\ secrets' = s
    /\ UNCHANGED <<zapi, zcache, zwatch, zqueue, zworker, gauge, counts, ssl, calm>>

\* Every event of a Zone enqueues it: there is no predicate.
ZDeliver ==
    /\ zwatch # <<>>
    /\ LET e == Head(zwatch)
       IN  /\ zcache' = [zcache EXCEPT ![e.zone] = e.obj]
           /\ zqueue' = zqueue \cup {e.zone}
    /\ zwatch' = Tail(zwatch)
    /\ UNCHANGED <<zapi, secrets, zworker, gauge, counts, ssl, calm>>

-----------------------------------------------------------------------------
(***************************************************************************)
(* The gauge of SSL provisioning durations                                 *)
(***************************************************************************)

\* The CustomHostname worker sets the gauge ...
SetGauge(z, m) ==
    /\ setting = None
    /\ setting' = [zone |-> z, method |-> m]
    /\ series' = series \cup {setting'}
    /\ UNCHANGED <<objects, zqueue, zworker, gauge, counts, entry, calm>>

\* Fault: the series of the previous method is left behind.
SetEntry_KeepsSeries ==
    /\ setting # None
    /\ entry' = [entry EXCEPT ![setting.zone] = [method |-> setting.method, age |-> 0]]
    /\ setting' = None
    /\ UNCHANGED <<objects, zqueue, zworker, gauge, counts, series, calm>>

\* ... and then, under the mutex, its entry in the cache.  The series of another
\* method goes.
SetEntry ==
    /\ setting # None
    /\ LET z == setting.zone
           old == entry[z]
       IN  /\ entry' = [entry EXCEPT ![z] = [method |-> setting.method, age |-> 0]]
           /\ series' = IF old # None /\ old.method # setting.method
                        THEN series \ {[zone |-> z, method |-> old.method]} ELSE series
    /\ setting' = None
    /\ UNCHANGED <<objects, zqueue, zworker, gauge, counts, calm>>

Expired == {z \in Zones : entry[z] # None /\ entry[z].age > TTL}

\* Fault: only the entry is removed.
CleanExpiredSSLProvisioning_EntryOnly ==
    /\ entry' = [z \in Zones |-> IF z \in Expired THEN None ELSE entry[z]]
    /\ UNCHANGED <<series, setting>>

CleanExpiredSSLProvisioning ==
    /\ series' = series \ {[zone |-> z, method |-> entry[z].method] : z \in Expired}
    /\ entry' = [z \in Zones |-> IF z \in Expired THEN None ELSE entry[z]]
    /\ UNCHANGED setting

\* Time passes for all entries; it makes no difference to those that are old.
Older(e) ==
    IF e # None /\ e.age <= TTL THEN [e EXCEPT !.age = @ + 1] ELSE e

Tick ==
    /\ entry' = [z \in Zones |-> Older(entry[z])]
    /\ entry' # entry
    /\ UNCHANGED <<objects, zqueue, zworker, gauge, counts, series, setting, calm>>

-----------------------------------------------------------------------------
(***************************************************************************)
(* The worker                                                              *)
(***************************************************************************)

ZIdle == step' = "idle" /\ zcur' = None /\ zobj' = None /\ zfresh' = FALSE

ZTakes(z) == step = "idle" /\ z \in zqueue

\* Fault: the deletion of a Zone leaves its series.
ZReconcileGone_KeepsSeries(z) ==
    /\ ZTakes(z) /\ zcache[z] = None
    /\ zqueue' = zqueue \ {z}
    /\ UNCHANGED <<objects, zworker, gauge, counts, ssl, calm>>

\* The Zone is deleted: series of it go, but not those of the gauge by hostname
\* status.  The entries of the cache stay.
ZReconcileGone(z) ==
    /\ ZTakes(z) /\ zcache[z] = None
    /\ zqueue' = zqueue \ {z}
    /\ gauge' = [gauge EXCEPT ![z] = None]
    /\ counts' = counts \ (RemovedWithZone \X {z})
    /\ series' = {s \in series : s.zone # z}
    /\ UNCHANGED <<objects, zworker, entry, setting, calm>>

\* Fault: an edit of the Zone does not make it be initialized again.
NeedsInit_Once(o) == o.init = None

\* status.name and the condition are written together.
NeedsInit(o) == o.init = None \/ o.init.gen < o.gen

Initialized(o) == IF o.init = None THEN 0 ELSE 1

\* Without the secret the reconcile fails: the key is queued again.
ZReconcileNoToken(z) ==
    /\ ZTakes(z) /\ zcache[z] # None
    /\ zcache[z].spec.cred \notin secrets
    /\ gauge' = [gauge EXCEPT ![z] = Initialized(zcache[z])]
    /\ UNCHANGED <<objects, zqueue, zworker, counts, ssl, calm>>

ZReconcile(z) ==
    /\ ZTakes(z) /\ zcache[z] # None
    /\ zcache[z].spec.cred \in secrets
    /\ zqueue' = zqueue \ {z}
    /\ gauge' = [gauge EXCEPT ![z] = Initialized(zcache[z])]
    /\ step' = IF NeedsInit(zcache[z]) THEN "get" ELSE "drift"
    /\ zcur' = z /\ zobj' = zcache[z] /\ zfresh' = ~ZPending(z)
    /\ UNCHANGED <<objects, counts, ssl, calm>>

\* The zone GET succeeds with the token of the credentials that were read.
GetZone ==
    /\ step = "get" /\ step' = "write"
    /\ zobj' = [zobj EXCEPT !.init = [gen |-> zobj.gen, by |-> zobj.spec]]
    /\ UNCHANGED <<objects, zqueue, zcur, zfresh, gauge, counts, ssl, calm>>

\* Fault: the status is patched without comparing resourceVersions.
SetInitialized_AnyVersion ==
    /\ step = "write" /\ zapi[zcur] # None
    /\ ZPut(zcur, [zapi[zcur] EXCEPT !.init = zobj.init])
    /\ gauge' = [gauge EXCEPT ![zcur] = 1]
    /\ step' = "drift"
    /\ UNCHANGED <<zcache, secrets, zqueue, zcur, zobj, zfresh, counts, ssl, calm>>

SetInitialized ==
    /\ step = "write" /\ zfresh
    /\ ZPut(zcur, zobj)
    /\ gauge' = [gauge EXCEPT ![zcur] = 1]
    /\ step' = "drift"
    /\ UNCHANGED <<zcache, secrets, zqueue, zcur, zobj, zfresh, counts, ssl, calm>>

\* The GET fails, or the status write does: the key is queued again.
ZAbort ==
    /\ ZIdle
    /\ zqueue' = zqueue \cup {zcur}
    /\ UNCHANGED <<objects, gauge, counts, ssl, calm>>

StaleWrite == step = "write" /\ ~zfresh /\ ZAbort

ZFails == step \in {"get", "write"} /\ ZAbort

\* The drift cycle publishes what it counted, unless it fails.
DriftCycle ==
    /\ step = "drift" /\ step' = "clean"
    /\ counts' \in {counts, counts \cup (DriftGauges \X {zcur})}
    /\ UNCHANGED <<objects, zqueue, zcur, zobj, zfresh, gauge, ssl, calm>>

\* Every drift cycle ends with a cleaning, and the zone comes back.
EndReconcile ==
    /\ step = "clean"
    /\ CleanExpiredSSLProvisioning
    /\ ZIdle
    /\ zqueue' = zqueue \cup {zcur}
    /\ UNCHANGED <<objects, gauge, counts, calm>>

ZoneWorkerStep == GetZone \/ SetInitialized \/ StaleWrite \/ DriftCycle \/ EndReconcile

ZoneWorkerTakes(z) == ZReconcileGone(z) \/ ZReconcileNoToken(z) \/ ZReconcile(z)

-----------------------------------------------------------------------------
(***************************************************************************)
(* The system                                                              *)
(***************************************************************************)

\* The process starts again with all Zones in the cache and in the queue, and no
\* series.
ZRestart ==
    /\ zcache' = zapi /\ zwatch' = <<>>
    /\ zqueue' = {z \in Zones : zapi[z] # None}
    /\ ZIdle
    /\ gauge' = [z \in Zones |-> None] /\ counts' = {}
    /\ series' = {} /\ entry' = [z \in Zones |-> None] /\ setting' = None
    /\ UNCHANGED <<zapi, secrets, calm>>

ZDisturbance ==
    \/ \E z \in Zones : CreateZone(z) \/ EditZone(z) \/ DeleteZone(z)
    \/ SecretChanges
    \/ ZFails
    \/ \E z \in Zones, m \in Methods : SetGauge(z, m)
    \/ ZRestart

ZBecomesCalm ==
    /\ ~calm /\ calm' = TRUE
    /\ UNCHANGED <<objects, zqueue, zworker, gauge, counts, ssl>>

ZInit ==
    /\ zapi = [z \in Zones |-> None] /\ zcache = zapi /\ zwatch = <<>>
    /\ secrets \in SUBSET Creds
    /\ zqueue = {}
    /\ step = "idle" /\ zcur = None /\ zobj = None /\ zfresh = FALSE
    /\ gauge = [z \in Zones |-> None] /\ counts = {}
    /\ series = {} /\ entry = [z \in Zones |-> None] /\ setting = None
    /\ calm = FALSE

ZNext ==
    \/ \E z \in Zones : ZoneWorkerTakes(z)
    \/ ZoneWorkerStep \/ ZDeliver \/ SetEntry \/ Tick
    \/ ~calm /\ ZDisturbance
    \/ ZBecomesCalm

\* The goroutines run, the queue is served in order, and time passes.
ZFairness ==
    /\ WF_zvars(ZoneWorkerStep) /\ WF_zvars(ZDeliver)
    /\ WF_zvars(SetEntry) /\ WF_zvars(Tick)
    /\ \A z \in Zones : SF_zvars(ZoneWorkerTakes(z))

ZSafety == ZInit /\ [][ZNext]_zvars

ZSpec == ZSafety /\ ZFairness

-----------------------------------------------------------------------------
(***************************************************************************)
(* Properties                                                              *)
(***************************************************************************)

\* Initialized=True observed at the current generation means that a zone GET
\* succeeded with the id and the credentials this very object has: also when the
\* Zone was deleted and made again while the GET was under way.
InitializedMeansValidated ==
    \A z \in Zones :
       zapi[z] # None /\ zapi[z].init # None /\ zapi[z].init.gen = zapi[z].gen
         => zapi[z].init.by = zapi[z].spec

\* Every series of the SSL gauge has an entry that will expire, but for the one
\* that is being set: the number of series stays bounded.
SeriesTracked ==
    \A s \in series : \/ s = setting
                      \/ entry[s.zone] # None /\ entry[s.zone].method = s.method

Usable(z) == zapi[z] # None /\ zapi[z].spec.cred \in secrets

\* Once calm, a zone with credentials gets initialized for its last edit, and the
\* gauge says so.  A deleted Zone leaves no series of this gauge nor of those in
\* RemovedWithZone, although a drift cycle that was under way has published them
\* after the deletion.
ZonesSettle ==
    <>calm => \A z \in Zones :
       <>[](/\ Usable(z) => /\ zapi[z].init # None /\ zapi[z].init.gen = zapi[z].gen
                            /\ gauge[z] = 1
            /\ zapi[z] = None => /\ gauge[z] = None
                                 /\ \A g \in RemovedWithZone : <<g, z>> \notin counts)

\* metrics.go: the per-hostname series do not stay.  Once calm they all go, as long
\* as some zone is reconciled to the end, for only that cleans the cache.
SSLSeriesExpire ==
    <>calm => <>[]((\E z \in Zones : Usable(z)) => series = {})
=============================================================================
