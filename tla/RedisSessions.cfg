CONSTANTS
    Handler = {h1, h2, h3}
    Session = {s1, s2}
    Actor = {a1, a2}
    None = None
    TTL = 2
SPECIFICATION Spec
INVARIANTS
    DeleteSticks
    IdleSessionsEnd
PROPERTIES
    OneActorPerSession
    ImplementsAbstract
