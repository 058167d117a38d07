------------------------------ MODULE MCEventLoop ------------------------------
EXTENDS EventLoop
CONSTANTS t1, t2
MCThreads == {t1, t2}
===============================================================================
