SPECIFICATION Spec
CONSTANTS
    m1 = m1
    m2 = m2
    q1 = q1
    q2 = q2
    q3 = q3
    w1 = w1
    w2 = w2
    Calls <- MCCalls
    Exclusive <- MCExclusive
    Workspaces <- MCWorkspaces
    Root <- MCRoot
    Baseline <- MCBaseline
INVARIANT
    EndedCallsRelease
