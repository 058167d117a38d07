------------------------------- MODULE MCTcpServer -------------------------------
EXTENDS TcpServer

CONSTANTS main, u1
===============================================================================
