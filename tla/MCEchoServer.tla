------------------------------ MODULE MCEchoServer ------------------------------
EXTENDS EchoServer

CONSTANT main
===============================================================================
