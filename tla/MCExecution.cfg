SPECIFICATION MCSpec
CONSTANTS
    k1 = k1  s1 = s1  s2 = s2  t1 = t1  t2 = t2  c1 = c1
    e1 = e1  e2 = e2  r1 = r1  home = home  c2 = c2
    Ids <- MCIds
    Servers <- MCServers
    Tokens <- MCTokens
    Calls <- MCCalls
    NoRow = NoRow
    Execs = {e1, e2}
    PlansOf <- MCPlansOf
    RancherIds <- MCRancher
    Local = home
    FallbackAllowed = TRUE
INVARIANTS
    TypeOK StoredWasProven UsesProvenCredential RancherStaysRemote AppliedWithinPolicy
    CompletedWasApplied ReplacementIsAccountedFor NoStrayHelper
PROPERTIES
    PendingSettles
CHECK_DEADLOCK FALSE
