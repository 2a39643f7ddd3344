\* Two mails and two people at their links.
SPECIFICATION FairSpec
CONSTANTS
    Mails <- MCTwo
    NoMail = NoMail
    Resets = {q1, q2}
    Nobody = Nobody
    MAX_ATTEMPTS = 2
    MaxFaults = 2
CHECK_DEADLOCK FALSE
INVARIANTS
    TypeOK
    EachLinkResetsOnce
    BodyWhileWaiting
PROPERTIES
    SettledMailIsNotClaimed
    AnOlderLinkIsDead
    ImplementsDesk
    EveryMailSettles
