----------------------------- MODULE MCSSLConfig -----------------------------
(***************************************************************************)
(* Values of the constants of SSLConfig for TLC.                           *)
(***************************************************************************)
EXTENDS SSLConfig

CONSTANTS a,      \* an origin: that it may drift is left to CustomHostname
    host          \* ":request_host_header:"

NoSettings == [f \in Fields |-> Unset]

FieldValues == [minTLS |-> {"1.2", "1.3"}, method |-> {"http", "txt"}]

HTTP == [f \in {"method"} |-> "http"]

\* No setting but the origin; an SNI and a field that others reset; all fields.
SomeSpecs ==
    {[origin |-> a, sni |-> None, ssl |-> None],
     [origin |-> a, sni |-> host, ssl |-> [NoSettings EXCEPT !["method"] = "txt"]],
     [origin |-> a, sni |-> None, ssl |-> [minTLS |-> "1.3", method |-> "http"]]}

\* No defaults, or a minimal TLS version.
SomeDefaults == {NoSettings, [NoSettings EXCEPT !["minTLS"] = "1.2"]}

WholeSeconds == {[sec |-> 1, frac |-> 0]}

AnyTimes == {[sec |-> 1, frac |-> 0], [sec |-> 1, frac |-> 5]}
=============================================================================
