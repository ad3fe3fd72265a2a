\* Two callers, one end of a month, two units released from each wrong counter.
SPECIFICATION Spec
CONSTANTS
    messages = messages
    uploads = uploads
    bytes = bytes
    Counters = {messages, uploads, bytes}
    Monthly = {messages}
    Limits <- MCLimits
    Uses <- MCUses
    Requests = {q1, q2}
    MaxMonth = 1
    MaxStray = 2
SYMMETRY MCRequests
INVARIANT UsageTypeOK
PROPERTIES
    ImplementsQuota
    NoFalseDenial
