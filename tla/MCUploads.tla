------------------------------ MODULE MCUploads ------------------------------
(* Instance for TLC.                                                        *)
EXTENDS Uploads

MCMaxNow == [influx |-> 4, site |-> 6]
==============================================================================
