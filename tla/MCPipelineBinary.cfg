SPECIFICATION FairSpec
CONSTANTS
    Requests = {r1, r2}
    UpstreamStatuses = {200, 404, 503}
    None = None
CHECK_DEADLOCK FALSE
PROPERTIES BodiesAreForwarded
