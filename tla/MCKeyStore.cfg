\* One node's key directory from its first start: four keypairs to draw,
\* two kills at any point, and /quit and restart as often as the user likes.
CONSTANTS
    Keys = {k1, k2, k3, k4}
    Zero = Zero
    MaxCrashes = 2
SPECIFICATION Spec
INVARIANT RunsWithRealKeys
PROPERTY IdentityStable
