CONSTANTS
    None = None
    Zones = {"z1"}
    ZoneIDs = {1}
    Creds = {"s1", "s2"}
    Methods = {"http", "txt"}
    TTL = 1
    MaxGen = 2
    MaxLag = 1
SPECIFICATION ZSpec
INVARIANTS ZoneTypeOK InitializedMeansValidated SeriesTracked
PROPERTIES ZonesSettle SSLSeriesExpire
CHECK_DEADLOCK FALSE
