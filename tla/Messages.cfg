\* Messages of every kind, a handler's operations on some, and two Args objects.
CONSTANTS
    Streams <- MCStreams
    Stream <- MCStream
    HeaderKeys <- MCHeaderKeys
    HeaderValues <- MCHeaderValues
    Lengths <- MCLengths
    MaxOps <- MCMaxOps
    Updates <- MCUpdates
    Objects = {"args", "copy"}
    Keys = {"k", "l"}
    Values = {1, 2}
    MaxLen <- MCMaxLen
SPECIFICATION MCSpec
\* A message is received, handled, and done with.
CHECK_DEADLOCK FALSE
INVARIANTS
    TypeOK
    FlagFound
    HeaderFields
    RestIsBody
    Forwarded
    FramingKept
    CookieRoundTrip
    PathNormal
    UriRoundTrip
    UpdateResolves
    QueryRoundTrip
    NoAliasing
PROPERTY
    ImplementsPairList
