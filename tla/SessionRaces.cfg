SPECIFICATION SessionSpec
CONSTANTS
    Replicas = {r1, r2}
    Tabs = {t1, t2}
    Emails = {root, ann}
    ADMIN_EMAIL = root
    NewColumns = 2
    MaxTokens = 2
    sessionTTL = 1
    MaxDbErrors = 1
    MaxLostReplies = 1
INVARIANTS
    SessionTypeOK
    SignedInStays
    ReadyBeforeServing
PROPERTIES
    LogoutIsFinal
    EveryReplicaServes
