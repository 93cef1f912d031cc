SPECIFICATION InputSpec
CONSTANTS
    Years = {2023, 2024, 2025}
    MaxLag = 364
    Clients = {c1, c2}
    Trusted = {p1, p2}
    Protected = {lo}
    MaxProxies = 2
    MaxSent = 2
INVARIANTS
    MailLineReadBack
    ClientNamed
    FormatsAgree
    NeverLockedOut
CHECK_DEADLOCK FALSE
