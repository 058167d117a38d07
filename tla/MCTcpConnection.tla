---------------------------- MODULE MCTcpConnection ----------------------------
EXTENDS TcpConnection

CONSTANTS main, t1, t2

===============================================================================
