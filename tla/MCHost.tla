-------------------------------- MODULE MCHost --------------------------------
(* Instances of Host for TLC.                                              *)
EXTENDS Host
===============================================================================
