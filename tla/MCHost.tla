-------------------------------- MODULE MCHost --------------------------------
EXTENDS NeonHandler
===============================================================================
