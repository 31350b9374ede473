--------------------------- MODULE SSLConfigProofs ---------------------------
(***************************************************************************)
(* Theorems about SSLConfig, for any SSL fields with any values, any       *)
(* specs, defaults, times, and any choice of fields that CF requires or    *)
(* that make it issue a new certificate.                                   *)
(***************************************************************************)
EXTENDS SSLConfig, TLAPS

-----------------------------------------------------------------------------
(***************************************************************************)
(* Types                                                                   *)
(***************************************************************************)

\* No value of a field is the empty string.
LEMMA ValuesAreSet ==
    ASSUME NEW f \in Fields, NEW v \in ValuesOf[f]
    PROVE  v # Unset
  BY SettingsAssumption DEF Values

LEMMA RequiredIsSet ==
    ASSUME NEW f \in DOMAIN Fallback
    PROVE  f \in Fields /\ Required(f) \in ValuesOf[f] /\ Required(f) # Unset
  <1>1. f \in Fields /\ Required(f) \in ValuesOf[f]
    BY SettingsAssumption DEF Required
  <1> QED
    BY <1>1, ValuesAreSet

LEMMA SpecFields ==
    ASSUME NEW s \in Specs
    PROVE  /\ s \in AnySpec /\ s.origin \in Origins
           /\ s.sni # None => s.sni \in SNIs
           /\ s.ssl # None => s.ssl \in Settings
  BY SettingsAssumption DEF AnySpec

LEMMA HostnameFields ==
    ASSUME NEW r \in Hostname
    PROVE  /\ r.origin \in Origins /\ r.sni \in SNIs \cup {DefaultSNI}
           /\ r.ssl \in Settings /\ r.uploaded \in Times \cup {None}
  BY DEF Hostname

\* What a lookup or a write of CF answers is a status.
LEMMA StateType ==
    ASSUME NEW r \in Hostname
    PROVE  CfState(r) \in SSLStatus
  BY HostnameFields DEF CfState, SSLStatus

\* Keeping the seconds twice is keeping them once.
LEMMA StoredType ==
    ASSUME NEW s \in SSLStatus
    PROVE  [s EXCEPT !.uploaded = OnlySeconds(@)] \in SSLStatus
  <1>1. OnlySeconds(None) = None
    BY DEF OnlySeconds
  <1>2. ASSUME NEW t \in Times
        PROVE  OnlySeconds(OnlySeconds(t)) = OnlySeconds(t)
    <2>1. t \in [sec : Nat, frac : Nat] /\ t # None
      BY TimesAssumption
    <2>2. OnlySeconds(t) = [t EXCEPT !.frac = 0]
      BY <2>1 DEF OnlySeconds
    <2>3. OnlySeconds(t) \in [sec : Nat, frac : Nat]
      BY <2>1, <2>2
    <2>4. OnlySeconds(t) # None
      BY <2>3, TimesAssumption
    <2>5. OnlySeconds(OnlySeconds(t)) = [OnlySeconds(t) EXCEPT !.frac = 0]
      BY <2>4 DEF OnlySeconds
    <2> QED
      BY <2>1, <2>2, <2>5
  <1> DEFINE Stored == Times \cup {OnlySeconds(t) : t \in Times} \cup {None}
  <1>3. ASSUME NEW u \in Stored PROVE OnlySeconds(u) \in Stored
    <2>1. CASE u \in Times
      BY <2>1
    <2>2. CASE u \in {OnlySeconds(t) : t \in Times}
      <3>1. PICK t \in Times : u = OnlySeconds(t)
        BY <2>2
      <3> QED
        BY <3>1, <1>2
    <2>3. CASE u = None
      BY <2>3, <1>1
    <2> QED
      BY <2>1, <2>2, <2>3
  <1>4. s.uploaded \in Stored
    BY DEF SSLStatus
  <1>5. OnlySeconds(s.uploaded) \in Stored
    BY <1>3, <1>4
  <1> QED
    BY <1>5 DEF SSLStatus

\* Other fields, and perhaps no certificate.
LEMMA WithFieldsType ==
    ASSUME NEW r \in Hostname, NEW new \in Settings
    PROVE  /\ WithFields(r, new) \in Hostname
           /\ WithFields(r, new).ssl = new
           /\ WithFields(r, new).sni = r.sni
           /\ WithFields(r, new).origin = r.origin
  BY DEF WithFields, Hostname

\* A record that has all the fields CF requires.
Complete(r) == \A f \in DOMAIN Fallback : r.ssl[f] # Unset

\* Settings that honour what is sent are complete when the required fields are sent.
LEMMA HonoursComplete ==
    ASSUME NEW sent, NEW new, Honours(sent, new),
           \A f \in DOMAIN Fallback : sent[f] # Unset
    PROVE  \A f \in DOMAIN Fallback : new[f] # Unset
  BY RequiredIsSet DEF Honours

LEMMA CreateSendsRequired ==
    ASSUME NEW s, NEW dflt
    PROVE  \A f \in DOMAIN Fallback : BuildSSLParams(s, dflt)[f] # Unset
  BY RequiredIsSet DEF BuildSSLParams, FirstSet

LEMMA EditSendsRequired ==
    ASSUME NEW ssl, NEW cur
    PROVE  \A f \in DOMAIN Fallback : BuildSSLEditParams(ssl, cur)[f] # Unset
  BY RequiredIsSet DEF BuildSSLEditParams, FirstSet

-----------------------------------------------------------------------------
(***************************************************************************)
(* What the two writes make of a record                                    *)
(***************************************************************************)

LEMMA CreateResult ==
    ASSUME SSLTypeOK, Create
    PROVE  /\ mem \in Specs /\ rec' \in Hostname /\ Complete(rec')
           /\ rec'.origin = mem.origin
           /\ mem.sni # None => rec'.sni = mem.sni
           /\ \E dflt \in Defaults : Honours(BuildSSLParams(mem, dflt), rec'.ssl)
  <1>1. mem \in Specs
    BY DEF SSLTypeOK, Create
  <1>2. PICK dflt \in Defaults, new \in Settings :
          /\ Honours(BuildSSLParams(mem, dflt), new)
          /\ rec' = [origin |-> mem.origin, ssl |-> new, uploaded |-> None,
                     sni |-> IF mem.sni = None THEN DefaultSNI ELSE mem.sni]
    BY DEF Create
  <1>3. rec' \in Hostname
    BY <1>1, <1>2, SpecFields DEF Hostname
  <1>4. Complete(rec')
    BY <1>2, CreateSendsRequired, HonoursComplete DEF Complete
  <1> QED
    BY <1>1, <1>2, <1>3, <1>4

LEMMA EditResult ==
    ASSUME SSLTypeOK, Edit
    PROVE  /\ mem \in Specs /\ rec \in Hostname /\ seen \in Hostname
           /\ rec' \in Hostname /\ Complete(rec')
           /\ rec'.origin = mem.origin /\ rec'.sni = EditSNI(mem, rec)
           /\ mem.ssl = None => rec'.ssl = rec.ssl
           /\ mem.ssl # None => Honours(BuildSSLEditParams(mem.ssl, seen.ssl), rec'.ssl)
  <1>1. mem \in Specs /\ rec \in Hostname /\ seen \in Hostname /\ Complete(rec)
    BY DEF SSLTypeOK, Edit, Complete
  <1>2. PICK new \in Settings :
          /\ IF mem.ssl = None THEN new = rec.ssl
             ELSE Edited(BuildSSLEditParams(mem.ssl, seen.ssl), rec.ssl, new)
          /\ rec' = [WithFields(rec, new) EXCEPT !.origin = mem.origin,
                                                 !.sni = EditSNI(mem, rec)]
    BY DEF Edit
  <1>3. WithFields(rec, new) \in Hostname /\ WithFields(rec, new).ssl = new
    BY <1>1, WithFieldsType
  <1>4. mem.origin \in Origins /\ EditSNI(mem, rec) \in SNIs \cup {DefaultSNI}
    BY <1>1, SpecFields, HostnameFields DEF EditSNI
  <1>5. /\ rec' \in Hostname /\ rec'.ssl = new
        /\ rec'.origin = mem.origin /\ rec'.sni = EditSNI(mem, rec)
    BY <1>2, <1>3, <1>4 DEF Hostname
  <1>6. mem.ssl # None => Honours(BuildSSLEditParams(mem.ssl, seen.ssl), new)
    BY <1>2 DEF Edited
  <1>7. Complete(rec')
    <2>1. CASE mem.ssl = None
      BY <1>1, <1>2, <1>5, <2>1 DEF Complete
    <2>2. CASE mem.ssl # None
      BY <1>5, <1>6, <2>2, EditSendsRequired, HonoursComplete DEF Complete
    <2> QED
      BY <2>1, <2>2
  <1> QED
    BY <1>1, <1>2, <1>5, <1>6, <1>7

-----------------------------------------------------------------------------
(***************************************************************************)
(* The type invariant                                                      *)
(***************************************************************************)

LEMMA SSLInitType == SSLInit => SSLTypeOK
  BY DEF SSLInit, SSLTypeOK

\* The worker's variables when it rests, and when it goes on to store an answer.
LEMMA WorkerTypes ==
    ASSUME SSLTypeOK,
           Rest \/ \E r \in Hostname : Answered(r)
    PROVE  /\ pc' \in {"idle", "persist"}
           /\ mem' = None /\ seen' = None /\ reply' \in SSLStatus \cup {None}
           /\ pc' = "persist" => reply' # None
           /\ Rest => fresh' = FALSE
  <1>1. CASE Rest
    BY <1>1 DEF Rest
  <1>2. CASE \E r \in Hostname : Answered(r)
    <2>1. PICK r \in Hostname : Answered(r)
      BY <1>2
    <2>2. CfState(r) \in SSLStatus /\ CfState(r) # None
      BY StateType, TimesAssumption
    <2> QED
      BY <2>1, <2>2 DEF Answered, Rest
  <1> QED
    BY <1>1, <1>2

LEMMA LookupType == SSLTypeOK /\ Lookup => SSLTypeOK'
  <1> SUFFICES ASSUME SSLTypeOK, Lookup PROVE SSLTypeOK'
    OBVIOUS
  <1>1. rec # None => rec \in Hostname
    BY DEF SSLTypeOK
  <1>2. spec \in Specs /\ spec # None
    BY SettingsAssumption DEF SSLTypeOK, AnySpec
  <1>3. CASE rec = None
    BY <1>2, <1>3 DEF SSLTypeOK, Lookup
  <1>4. CASE rec # None /\ SpecDrifted(spec, rec) /\ pc' = "edit"
    BY <1>1, <1>2, <1>4 DEF SSLTypeOK, Lookup, Answered
  <1>5. CASE rec # None /\ Answered(rec)
    BY <1>1, <1>5, WorkerTypes DEF SSLTypeOK, Lookup
  <1> QED
    BY <1>3, <1>4, <1>5 DEF Lookup

LEMMA CreateType == SSLTypeOK /\ Create => SSLTypeOK'
  <1> SUFFICES ASSUME SSLTypeOK, Create PROVE SSLTypeOK'
    OBVIOUS
  <1>1. rec' \in Hostname /\ Complete(rec')
    BY CreateResult
  <1>2. Answered(rec')
    BY DEF Create
  <1> QED
    BY <1>1, <1>2, WorkerTypes DEF SSLTypeOK, Create, Complete

LEMMA EditType == SSLTypeOK /\ Edit => SSLTypeOK'
  <1> SUFFICES ASSUME SSLTypeOK, Edit PROVE SSLTypeOK'
    OBVIOUS
  <1>1. rec' \in Hostname /\ Complete(rec')
    BY EditResult
  <1>2. Answered(rec')
    BY DEF Edit
  <1> QED
    BY <1>1, <1>2, WorkerTypes DEF SSLTypeOK, Edit, Complete

LEMMA PersistType == SSLTypeOK /\ Persist => SSLTypeOK'
  <1> SUFFICES ASSUME SSLTypeOK, Persist PROVE SSLTypeOK'
    OBVIOUS
  <1>1. reply \in SSLStatus
    BY DEF SSLTypeOK, Persist
  <1>2. status' \in SSLStatus \cup {None}
    BY <1>1, StoredType DEF SSLTypeOK, Persist
  <1> QED
    BY <1>2, WorkerTypes DEF SSLTypeOK, Persist, Rest

\* Another client's settings are complete too.
LEMMA ExtEditType == SSLTypeOK /\ ExtEdit => SSLTypeOK'
  <1> SUFFICES ASSUME SSLTypeOK, ExtEdit PROVE SSLTypeOK'
    OBVIOUS
  <1>1. rec \in Hostname /\ Complete(rec)
    BY DEF SSLTypeOK, ExtEdit, Complete
  <1>2. rec' \in Hostname /\ Complete(rec')
    <2>1. CASE \E o \in Origins : rec' = [rec EXCEPT !.origin = o]
      BY <1>1, <2>1 DEF Hostname, Complete
    <2>2. CASE \E n \in SNIs \cup {DefaultSNI} : rec' = [rec EXCEPT !.sni = n]
      BY <1>1, <2>2 DEF Hostname, Complete
    <2>3. ASSUME NEW f \in Fields, NEW v \in ValuesOf[f],
                 rec' = WithFields(rec, [rec.ssl EXCEPT ![f] = v])
          PROVE  rec' \in Hostname /\ Complete(rec')
      <3> DEFINE new == [rec.ssl EXCEPT ![f] = v]
      <3>1. rec.ssl \in Settings
        BY <1>1, HostnameFields
      <3>2. new \in Settings
        BY <3>1 DEF Settings, Values
      <3>3. v # Unset
        BY ValuesAreSet
      <3>4. \A g \in DOMAIN Fallback : new[g] # Unset
        BY <1>1, <3>1, <3>3, RequiredIsSet DEF Complete, Settings
      <3> HIDE DEF new
      <3>5. rec' = WithFields(rec, new)
        BY <2>3 DEF new
      <3> QED
        BY <1>1, <3>2, <3>4, <3>5, WithFieldsType DEF Complete
    <2> QED
      BY <2>1, <2>2, <2>3 DEF ExtEdit
  <1> QED
    BY <1>2 DEF SSLTypeOK, ExtEdit, OnlyCF, Complete

LEMMA ExtCreateType == SSLTypeOK /\ ExtCreate => SSLTypeOK'
  <1> SUFFICES ASSUME SSLTypeOK, ExtCreate PROVE SSLTypeOK'
    OBVIOUS
  <1>1. PICK o \in Origins, d \in Defaults :
          rec' = [origin |-> o, sni |-> DefaultSNI, uploaded |-> None,
                  ssl |-> [f \in Fields |-> FirstSet(d[f], Required(f))]]
    BY DEF ExtCreate
  <1> DEFINE new == [f \in Fields |-> FirstSet(d[f], Required(f))]
  <1>2. d \in Settings
    BY SettingsAssumption DEF ValidDefaults
  <1>3. ASSUME NEW f \in Fields PROVE Required(f) \in ValuesOf[f] \cup {Unset}
    BY RequiredIsSet DEF Required
  <1>4. \A f \in Fields : new[f] \in ValuesOf[f] \cup {Unset}
    BY <1>2, <1>3 DEF FirstSet, Settings
  <1>5. new \in Settings
    BY <1>4 DEF Settings, Values
  <1>6. \A f \in DOMAIN Fallback : new[f] # Unset
    BY RequiredIsSet DEF FirstSet
  <1> HIDE DEF new
  <1>7. rec' = [origin |-> o, sni |-> DefaultSNI, uploaded |-> None, ssl |-> new]
    BY <1>1 DEF new
  <1>8. rec' \in Hostname /\ Complete(rec')
    BY <1>5, <1>6, <1>7 DEF Hostname, Complete
  <1> QED
    BY <1>8 DEF SSLTypeOK, ExtCreate, OnlyCF, Complete

LEMMA CertIssuedType == SSLTypeOK /\ CertIssued => SSLTypeOK'
  <1> SUFFICES ASSUME SSLTypeOK, CertIssued PROVE SSLTypeOK'
    OBVIOUS
  <1>1. rec \in Hostname /\ Complete(rec)
    BY DEF SSLTypeOK, CertIssued, Complete
  <1>2. PICK t \in Times : rec' = [rec EXCEPT !.uploaded = t]
    BY DEF CertIssued
  <1>3. rec' \in Hostname /\ Complete(rec')
    BY <1>1, <1>2 DEF Hostname, Complete
  <1> QED
    BY <1>3 DEF SSLTypeOK, CertIssued, OnlyCF, Complete

LEMMA SSLTypeNext == SSLTypeOK /\ [SSLNext]_svars => SSLTypeOK'
  <1> SUFFICES ASSUME SSLTypeOK, [SSLNext]_svars PROVE SSLTypeOK'
    OBVIOUS
  <1>1. CASE DriftCycle
    BY <1>1 DEF SSLTypeOK, DriftCycle
  <1>2. CASE Lookup \/ Create \/ Edit \/ Persist
    BY <1>2, LookupType, CreateType, EditType, PersistType
  <1>3. CASE CallRefused
    BY <1>3 DEF SSLTypeOK, CallRefused, Rest
  <1>4. CASE EditSpec
    BY <1>4 DEF SSLTypeOK, EditSpec
  <1>5. CASE ExtEdit \/ ExtCreate \/ CertIssued
    BY <1>5, ExtEditType, ExtCreateType, CertIssuedType
  <1>6. CASE ExtDelete
    BY <1>6 DEF SSLTypeOK, ExtDelete, OnlyCF
  <1>7. CASE Fails
    BY <1>7 DEF SSLTypeOK, Fails, Rest
  <1>8. CASE Restart
    BY <1>8 DEF SSLTypeOK, Restart, Rest
  <1>9. CASE BecomesCalm
    BY <1>9 DEF SSLTypeOK, BecomesCalm
  <1>10. CASE UNCHANGED svars
    BY <1>10 DEF SSLTypeOK, svars
  <1> QED
    BY <1>1, <1>2, <1>3, <1>4, <1>5, <1>6, <1>7, <1>8, <1>9, <1>10
       DEF SSLNext, WorkerStep, Disturbance

\* All state is of its type, and CF's records have the fields it requires,
\* whoever wrote them.
THEOREM SSLTypeCorrect == SSLSafety => []SSLTypeOK
  BY SSLInitType, SSLTypeNext, PTL DEF SSLSafety

-----------------------------------------------------------------------------
(***************************************************************************)
(* What is sent and what is compared agree                                 *)
(***************************************************************************)

LEMMA CreateNoDrift ==
    ASSUME SSLTypeOK, Create
    PROVE  ~SpecDrifted(mem, rec')
  <1>1. PICK dflt \in Defaults : Honours(BuildSSLParams(mem, dflt), rec'.ssl)
    BY CreateResult
  <1>2. ASSUME mem.ssl # None, NEW f \in Fields, mem.ssl[f] # Unset
        PROVE  rec'.ssl[f] = mem.ssl[f]
    <2>1. BuildSSLParams(mem, dflt)[f] = mem.ssl[f]
      BY <1>2 DEF BuildSSLParams, SpecSSL, FirstSet
    <2> QED
      BY <1>1, <1>2, <2>1 DEF Honours
  <1> QED
    BY <1>2, CreateResult DEF SpecDrifted, SniDrifted, SslDrifted

LEMMA EditNoDrift ==
    ASSUME SSLTypeOK, Edit
    PROVE  ~SpecDrifted(mem, rec')
  <1>1. ASSUME mem.ssl # None, NEW f \in Fields, mem.ssl[f] # Unset
        PROVE  rec'.ssl[f] = mem.ssl[f]
    <2>1. BuildSSLEditParams(mem.ssl, seen.ssl)[f] = mem.ssl[f]
      BY <1>1 DEF BuildSSLEditParams, FirstSet
    <2> QED
      BY <1>1, <2>1, EditResult DEF Honours
  <1> QED
    BY <1>1, EditResult DEF SpecDrifted, SniDrifted, SslDrifted, EditSNI

\* A create or an edit leaves nothing that the next drift cycle would correct.
THEOREM NoDriftAfterWrite == SSLSafety => WrittenIsNoDrift
  <1>1. SSLTypeOK /\ [SSLNext]_svars => [Create \/ Edit => ~SpecDrifted(mem, rec')]_svars
    BY CreateNoDrift, EditNoDrift
  <1> QED
    BY <1>1, SSLTypeCorrect, PTL DEF SSLSafety, WrittenIsNoDrift

\* An edit keeps what the spec leaves alone, or returns it to what the lookup saw.
THEOREM EditKeepsUnmanaged == SSLSafety => UnmanagedKept
  <1>1. ASSUME SSLTypeOK, Edit, NEW f \in Fields,
               SpecSSL(mem)[f] = Unset, seen.ssl[f] # Unset
        PROVE  rec'.ssl[f] \in {rec.ssl[f], seen.ssl[f]}
    <2>1. CASE mem.ssl = None
      BY <1>1, <2>1, EditResult
    <2>2. CASE mem.ssl # None
      <3>1. BuildSSLEditParams(mem.ssl, seen.ssl)[f] = seen.ssl[f]
        BY <1>1, <2>2 DEF BuildSSLEditParams, SpecSSL, FirstSet
      <3> QED
        BY <1>1, <2>2, <3>1, EditResult DEF Honours
    <2> QED
      BY <2>1, <2>2
  <1>2. SSLTypeOK /\ Edit /\ mem.sni = None => rec'.sni = rec.sni
    BY EditResult DEF EditSNI
  <1>3. SSLTypeOK /\ [SSLNext]_svars =>
          [Edit =>
             /\ mem.sni = None => rec'.sni = rec.sni
             /\ \A f \in Fields :
                  (SpecSSL(mem)[f] = Unset /\ seen.ssl[f] # Unset)
                    => rec'.ssl[f] \in {rec.ssl[f], seen.ssl[f]}]_svars
    BY <1>1, <1>2
  <1> QED
    BY <1>3, SSLTypeCorrect, PTL DEF SSLSafety, UnmanagedKept
=============================================================================
