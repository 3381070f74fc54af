SPECIFICATION Spec
CONSTANTS
    NoUser = NoUser
    NoToken = NoToken
    Users = {u1}
    Tokens = {t1, t2, t3}
    Calls = {c1, c2}
    Ops <- AllOps
    MaxSessions = 1
    MaxCalls = 4
SYMMETRY SessionSymmetry
INVARIANTS
    TypeOK
    SessionIsOneChain
    ReplayIsTheSuccessor
    WhatWasSeenIsRevoked
    SessionsBounded
    SurvivorsRaced
CHECK_DEADLOCK FALSE
