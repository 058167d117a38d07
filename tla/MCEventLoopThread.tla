--------------------------- MODULE MCEventLoopThread ---------------------------
EXTENDS EventLoopThread
CONSTANTS main, other
MCThreads == {main, other}
===============================================================================
