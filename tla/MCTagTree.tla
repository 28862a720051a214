------------------------------ MODULE MCTagTree ------------------------------
EXTENDS TagUpgrade, TLC
CONSTANTS v1, v2, v3, v4
MCValues == {v1, v2, v3, v4}
MCGivenExternalIds == {NoExternalId}
MCSymmetry == Permutations(MCValues)
==============================================================================
