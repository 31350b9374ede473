CONSTANTS
    Unset = Unset  None = None  a = a  host = host
    DefaultSNI = DefaultSNI
    Fields = {"minTLS", "method"}
    ValuesOf <- FieldValues
    Fallback <- HTTP
    Reissue = {"method"}
    Origins = {a}
    SNIs = {host}
    Specs <- SomeSpecs
    Defaults <- SomeDefaults
    Times <- WholeSeconds
SPECIFICATION SSLSpec
INVARIANTS SSLTypeOK
PROPERTIES WrittenIsNoDrift UnmanagedKept SettingsSettle SteadyState
CHECK_DEADLOCK FALSE
