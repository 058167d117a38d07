-------------------------------- MODULE MCBuffer --------------------------------
EXTENDS Buffer
===============================================================================
