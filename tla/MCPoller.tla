-------------------------------- MODULE MCPoller --------------------------------
EXTENDS Poller, TLC
CONSTANTS c1, c2, f1, f2
MCChannels == {c1, c2}
MCFds == {f1, f2}
MCSymmetry == Permutations(MCChannels) \cup Permutations(MCFds)
===============================================================================
