\* Two sign-ins and two requests, with lives of one to three ticks; two
\* accounts, of which one can't be looked up, and passes of one.
CONSTANTS
    n1 = n1
    n2 = n2
    r1 = r1
    r2 = r2
    Session = {n1, n2}
    Request = {r1, r2}
    None = None
    AuthRequestTTL = 1
    OrphanOAuthGrace = 2
    WebSessionTTL = 3
    CallbackTime = 1
    CleanupTime = 1
    alice = alice
    bob = bob
    h1 = h1
    h2 = h2
    Account = {alice, bob}
    Handle = {h1, h2}
    Broken = {bob}
    NoHandle = NoHandle
    ProfileBatch = 1
    MaxChanges = 3
SPECIFICATION ServerSpec
INVARIANT SignInsHold
PROPERTIES NothingLingers NamesSettle
\* The resolver rests once its bounded changes are over.
CHECK_DEADLOCK FALSE
