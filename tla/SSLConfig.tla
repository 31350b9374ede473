------------------------------ MODULE SSLConfig ------------------------------
(***************************************************************************)
(* The settings of one custom hostname: origin, SNI and the four SSL       *)
(* fields.  CustomHostname treats them as one value; here they are the     *)
(* fields they are, each managed by the spec or left alone.                *)
(*                                                                         *)
(* Four functions of the code must agree with each other and with          *)
(* Cloudflare (CF): what a create sends, what an edit sends, what counts   *)
(* as drift, and what counts as an outdated status.  Were they not to      *)
(* agree, what was just written would be written again in every drift      *)
(* cycle.  The worker looks the record up, writes it, and stores what CF   *)
(* answered; CF's other clients, and CF itself, act in between.            *)
(***************************************************************************)
EXTENDS Naturals

CONSTANTS
    Fields,      \* certificateAuthority, minTLSVersion, method, type
    ValuesOf,    \* the values each field takes
    Unset,       \* the empty string
    None,        \* nil
    Fallback,    \* what a create or an edit sends last for a field CF requires
    Reissue,     \* the fields whose change makes CF issue a new certificate
    Origins,     \* origin servers
    SNIs,        \* values of spec.originSNI
    DefaultSNI,  \* what CF has when nobody sets an SNI
    Specs,       \* the specs users may write
    Defaults,    \* the operator defaults (--ssl-*) of the processes considered
    Times        \* times of issue: seconds and a fraction

Values == UNION {ValuesOf[f] : f \in Fields}

Settings == {s \in [Fields -> Values \cup {Unset}] :
               \A f \in Fields : s[f] \in ValuesOf[f] \cup {Unset}}

\* ssl and sni are pointers; a field of ssl that is Unset is not managed.
AnySpec == [origin : Origins, sni : SNIs \cup {None}, ssl : Settings \cup {None}]

\* A custom hostname in CF.  uploaded is the zero time, None, until a certificate
\* is issued; the status, id, serial number and so on of the certificate go with it.
Hostname == [origin : Origins, sni : SNIs \cup {DefaultSNI}, ssl : Settings,
             uploaded : Times \cup {None}]

OnlySeconds(t) == IF t = None THEN None ELSE [t EXCEPT !.frac = 0]

\* status.ssl.  The API server stores times with a precision of a second.
SSLStatus == [ssl : Settings,
              uploaded : Times \cup {OnlySeconds(t) : t \in Times} \cup {None}]

\* The defaults main accepts: each one empty or a value of its field.
ValidDefaults == Defaults \subseteq Settings

ASSUME SettingsAssumption ==
    /\ Unset \notin Values /\ None \notin Settings /\ None \notin SNIs
    /\ DOMAIN Fallback \subseteq Fields
    /\ \A f \in DOMAIN Fallback : Fallback[f] \in ValuesOf[f]
    /\ Reissue \subseteq Fields
    /\ Specs \subseteq AnySpec /\ None \notin Specs
    /\ ValidDefaults
ASSUME TimesAssumption ==
    /\ Times \subseteq [sec : Nat, frac : Nat]
    /\ None \notin [sec : Nat, frac : Nat] /\ None \notin Hostname /\ None \notin SSLStatus

VARIABLES
    spec,      \* the CR's spec
    status,    \* the CR's status.ssl, None before the first write
    rec,       \* CF: the record of the hostname, or None
    queued,    \* the CR is in the work queue
    pc,        \* what the worker does next
    mem,       \* the spec it works on
    seen,      \* what its lookup found, None when nothing
    reply,     \* the status it is about to store
    fresh,     \* the CR is as the worker read it
    calm       \* from now on nothing fails and nobody else acts; for properties only

svars == <<spec, status, rec, queued, pc, mem, seen, reply, fresh, calm>>

\* The types, and that CF has the fields it requires.
SSLTypeOK ==
    /\ spec \in Specs /\ status \in SSLStatus \cup {None}
    /\ rec \in Hostname \cup {None}
    /\ rec # None => \A f \in DOMAIN Fallback : rec.ssl[f] # Unset
    /\ queued \in BOOLEAN /\ fresh \in BOOLEAN /\ calm \in BOOLEAN
    /\ pc \in {"idle", "create", "edit", "persist"}
    /\ mem \in Specs \cup {None} /\ seen \in Hostname \cup {None}
    /\ reply \in SSLStatus \cup {None}
    /\ pc = "create" => mem # None
    /\ pc = "edit" => mem # None /\ seen # None
    /\ pc = "persist" => reply # None

-----------------------------------------------------------------------------
(***************************************************************************)
(* The pure functions of the code                                          *)
(***************************************************************************)

\* The first of several choices for a field that is set.
FirstSet(a, b) == IF a # Unset THEN a ELSE b

Required(f) == IF f \in DOMAIN Fallback THEN Fallback[f] ELSE Unset

\* A nil spec.ssl is taken for an empty one on create.
SpecSSL(s) == IF s.ssl = None THEN [f \in Fields |-> Unset] ELSE s.ssl

\* Fault: the fields that CF requires may be missing.
BuildSSLParams_NoFallback(s, dflt) ==
    [f \in Fields |-> FirstSet(SpecSSL(s)[f], dflt[f])]

\* What a create sends: the spec, else the operator's default, else what CF
\* requires.  A field that is still Unset is not sent.
BuildSSLParams(s, dflt) ==
    [f \in Fields |-> FirstSet(FirstSet(SpecSSL(s)[f], dflt[f]), Required(f))]

\* Fault: an edit sends the managed fields only.
BuildSSLEditParams_OnlySpec(ssl, cur) ==
    [f \in Fields |-> FirstSet(ssl[f], Required(f))]

\* What an edit sends: the spec, else what CF has, else what CF requires.
BuildSSLEditParams(ssl, cur) ==
    [f \in Fields |-> FirstSet(FirstSet(ssl[f], cur[f]), Required(f))]

SniDrifted(s, r) == s.sni # None /\ r.sni # s.sni

SslDrifted(s, r) ==
    s.ssl # None /\ \E f \in Fields : s.ssl[f] # Unset /\ r.ssl[f] # s.ssl[f]

SpecDrifted(s, r) == r.origin # s.origin \/ SniDrifted(s, r) \/ SslDrifted(s, r)

\* Fault: one of the three functions that read a reply of CF forgets the
\* certificate's time.
CfState_NoUploaded(r) ==
    [ssl |-> r.ssl, uploaded |-> None]

\* cfStateFromNew, cfStateFromList and cfStateFromEdit read the same fields.
CfState(r) ==
    [ssl |-> r.ssl, uploaded |-> r.uploaded]

\* The fields of status.ssl that differ from CF, times compared as they are.
StatusOutdated(st, r) ==
    IF st = None THEN TRUE
    ELSE st.ssl # r.ssl \/ st.uploaded # r.uploaded

\* Fault: a drift cycle compares the settings but not the status.
Enqueues_SpecOnly(s, st, r) == r # None => SpecDrifted(s, r)

\* Is the CR enqueued when a drift cycle compares it with the record r?
Enqueues(s, st, r) == r # None => SpecDrifted(s, r) \/ StatusOutdated(st, r)

-----------------------------------------------------------------------------
(***************************************************************************)
(* Cloudflare                                                              *)
(***************************************************************************)

\* CF takes the fields that are sent and chooses the others.
Honours(sent, new) == \A f \in Fields : sent[f] # Unset => new[f] = sent[f]

\* An edit leaves alone what is not sent, unless a new certificate is issued.
Edited(sent, old, new) ==
    /\ Honours(sent, new)
    /\ (\A g \in Reissue : new[g] = old[g])
         => \A f \in Fields : sent[f] = Unset => new[f] = old[f]

\* The record r with other fields: one of Reissue takes the certificate away.
WithFields(r, new) ==
    [r EXCEPT !.ssl = new,
              !.uploaded = IF \A f \in Reissue : new[f] = r.ssl[f] THEN @ ELSE None]

-----------------------------------------------------------------------------
(***************************************************************************)
(* The drift cycle and the worker                                          *)
(***************************************************************************)

DriftCycle ==
    /\ ~queued /\ Enqueues(spec, status, rec)
    /\ queued' = TRUE
    /\ UNCHANGED <<spec, status, rec, pc, mem, seen, reply, fresh, calm>>

\* Go on to store what CF answered about record r.
Answered(r) == pc' = "persist" /\ reply' = CfState(r) /\ mem' = None /\ seen' = None

\* Look the hostname up, and decide.
Lookup ==
    /\ pc = "idle" /\ queued
    /\ queued' = FALSE /\ fresh' = TRUE
    /\ \/ /\ rec = None
          /\ pc' = "create" /\ mem' = spec /\ seen' = None /\ reply' = None
       \/ /\ rec # None /\ SpecDrifted(spec, rec)
          /\ pc' = "edit" /\ mem' = spec /\ seen' = rec /\ reply' = None
       \/ /\ rec # None /\ ~SpecDrifted(spec, rec)
          /\ Answered(rec)
    /\ UNCHANGED <<spec, status, rec, calm>>

\* The defaults are those of the process, which a restart may have changed.
Create ==
    /\ pc = "create" /\ rec = None
    /\ \E dflt \in Defaults, new \in Settings :
          /\ Honours(BuildSSLParams(mem, dflt), new)
          /\ rec' = [origin |-> mem.origin, ssl |-> new, uploaded |-> None,
                     sni |-> IF mem.sni = None THEN DefaultSNI ELSE mem.sni]
    /\ Answered(rec')
    /\ UNCHANGED <<spec, status, queued, fresh, calm>>

\* Fault: the SNI is only sent on create.
EditSNI_Never(s, r) == r.sni

\* The SNI is sent when it is managed.
EditSNI(s, r) == IF s.sni = None THEN r.sni ELSE s.sni

\* The SSL fields are sent when spec.ssl is there, all of them, taken from the
\* lookup where the spec does not manage them.
Edit ==
    /\ pc = "edit" /\ rec # None
    /\ \E new \in Settings :
          /\ IF mem.ssl = None THEN new = rec.ssl
             ELSE Edited(BuildSSLEditParams(mem.ssl, seen.ssl), rec.ssl, new)
          /\ rec' = [WithFields(rec, new) EXCEPT !.origin = mem.origin,
                                                 !.sni = EditSNI(mem, rec)]
    /\ Answered(rec')
    /\ UNCHANGED <<spec, status, queued, fresh, calm>>

Rest ==
    /\ pc' = "idle" /\ mem' = None /\ seen' = None /\ reply' = None /\ fresh' = FALSE

\* The status write is refused when the spec was edited meanwhile, and the key is
\* queued again.
Persist ==
    /\ pc = "persist"
    /\ IF fresh
       THEN /\ status' = [reply EXCEPT !.uploaded = OnlySeconds(@)]
            /\ UNCHANGED queued
       ELSE queued' = TRUE /\ UNCHANGED status
    /\ Rest
    /\ UNCHANGED <<spec, rec, calm>>

\* The record is gone when the edit arrives, or is there when the create does.
CallRefused ==
    /\ \/ pc = "edit" /\ rec = None
       \/ pc = "create" /\ rec # None
    /\ Rest
    /\ UNCHANGED <<spec, status, rec, queued, calm>>

-----------------------------------------------------------------------------
(***************************************************************************)
(* Users, CF's other clients, CF, restarts                                 *)
(***************************************************************************)

EditSpec ==
    /\ spec' \in Specs \ {spec}
    /\ queued' = TRUE /\ fresh' = FALSE
    /\ UNCHANGED <<status, rec, pc, mem, seen, reply, calm>>

OnlyCF == UNCHANGED <<spec, status, queued, pc, mem, seen, reply, fresh, calm>>

\* Another client changes one setting.
ExtEdit ==
    /\ rec # None
    /\ \/ \E o \in Origins : rec' = [rec EXCEPT !.origin = o]
       \/ \E n \in SNIs \cup {DefaultSNI} : rec' = [rec EXCEPT !.sni = n]
       \/ \E f \in Fields : \E v \in ValuesOf[f] :
             rec' = WithFields(rec, [rec.ssl EXCEPT ![f] = v])
    /\ OnlyCF

ExtDelete ==
    /\ rec # None /\ rec' = None
    /\ OnlyCF

\* Another client makes the record, with settings of its own.
ExtCreate ==
    /\ rec = None
    /\ \E o \in Origins, d \in Defaults :
          rec' = [origin |-> o, sni |-> DefaultSNI, uploaded |-> None,
                  ssl |-> [f \in Fields |-> FirstSet(d[f], Required(f))]]
    /\ OnlyCF

\* A certificate is issued, or replaced.
CertIssued ==
    /\ rec # None
    /\ \E t \in Times \ {rec.uploaded} : rec' = [rec EXCEPT !.uploaded = t]
    /\ OnlyCF

\* A call, or the status write, fails: the next drift cycle retries.
Fails ==
    /\ pc # "idle"
    /\ Rest
    /\ UNCHANGED <<spec, status, rec, queued, calm>>

\* Only a CR without an id is queued by a restart: fastWritePredicate.
Restart ==
    /\ Rest
    /\ queued' = (status = None)
    /\ UNCHANGED <<spec, status, rec, calm>>

BecomesCalm ==
    /\ ~calm /\ calm' = TRUE
    /\ UNCHANGED <<spec, status, rec, queued, pc, mem, seen, reply, fresh>>

SSLInit ==
    /\ spec \in Specs /\ status = None /\ rec = None
    /\ queued = TRUE /\ pc = "idle" /\ mem = None /\ seen = None /\ reply = None
    /\ fresh = FALSE /\ calm = FALSE

WorkerStep == Lookup \/ Create \/ Edit \/ Persist \/ CallRefused

Disturbance ==
    \/ EditSpec \/ ExtEdit \/ ExtDelete \/ ExtCreate
    \/ CertIssued \/ Fails \/ Restart

SSLNext ==
    \/ DriftCycle \/ WorkerStep
    \/ ~calm /\ Disturbance
    \/ BecomesCalm

\* The worker runs, and drift cycles come again and again.
SSLFairness == WF_svars(DriftCycle) /\ WF_svars(WorkerStep)

SSLSafety == SSLInit /\ [][SSLNext]_svars

SSLSpec == SSLSafety /\ SSLFairness

-----------------------------------------------------------------------------
(***************************************************************************)
(* Properties                                                              *)
(***************************************************************************)

\* What the operator has just written is no drift in its own eyes, whatever the
\* spec manages and whatever others changed since the lookup.
WrittenIsNoDrift == [][Create \/ Edit => ~SpecDrifted(mem, rec')]_svars

\* buildSSLEditParams: an edit never resets a setting that the spec leaves alone.
\* It keeps its value, or goes back to the one the lookup saw.
UnmanagedKept ==
    [][Edit =>
         /\ mem.sni = None => rec'.sni = rec.sni
         /\ \A f \in Fields :
              (SpecSSL(mem)[f] = Unset /\ seen.ssl[f] # Unset)
                => rec'.ssl[f] \in {rec.ssl[f], seen.ssl[f]}]_svars

\* The record has every setting that the spec manages, and the status tells its
\* settings and its certificate.
Reflected ==
    /\ rec # None /\ status # None
    /\ rec.origin = spec.origin /\ spec.sni \in {None, rec.sni}
    /\ \A f \in Fields : SpecSSL(spec)[f] \in {Unset, rec.ssl[f]}
    /\ status = [ssl |-> rec.ssl, uploaded |-> OnlySeconds(rec.uploaded)]

\* The status filter lets no status write wake the worker, and CF tells nobody of
\* what happens there: drift cycles alone notice that another client edited or
\* deleted the record or that its certificate was replaced, and that a call failed.
\* Once nobody disturbs it, the CR is reflected for good.
SettingsSettle == <>calm => <>[]Reflected

\* docs/runbook.md: the number of drifted custom hostnames is 0 in steady state.
\* Once nobody disturbs the record, drift cycles stop enqueueing the CR.
SteadyState == <>calm => <>[]~Enqueues(spec, status, rec)
=============================================================================
