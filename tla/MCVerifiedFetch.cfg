CONSTANTS
    Owner = {alice, bob}
    alice = alice
    bob = bob
    Nobody = Nobody
    Identifier = {log, feed}
    log = log
    feed = feed
    Payload = {old, new}
    old = old
    new = new
    NotJson = {old}
    NoResult = NoResult
SPECIFICATION FetchSpec
INVARIANTS VerifiedIsAuthentic
SYMMETRY Interchangeable
CHECK_DEADLOCK FALSE
