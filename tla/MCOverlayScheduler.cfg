SPECIFICATION FairSpec
CONSTANTS
    alpha = alpha
    beta = beta
    gamma = gamma
    w1 = w1
    w2 = w2
    Overlays = {alpha, beta, gamma}
    Writes = {w1, w2}
    MaxQueued = 2
INVARIANTS EligibleIsReady
PROPERTIES NoOvertaking ImplementsQueues NeverStarved
