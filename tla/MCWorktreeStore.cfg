SPECIFICATION FairSpec
CONSTANTS
    c1 = c1
    c2 = c2
    key = key
    alpha = alpha
    x = x
    y = y
    Torn = Torn
    None = None
    Callers = {c1, c2}
    Artifacts = {key}
    Overlays = {alpha}
    Payloads = {x, y}
    MaxStops = 1
    MaxBoots = 1
INVARIANTS NeverPartial OkIsStored AcknowledgedOverlaySurvives
PROPERTIES PublishedIsImmutable ImplementsObjectStore CallsReturn
