-------------------------------- MODULE MCHost --------------------------------
(* Two filesystems on the life of the volume, two boots: a volume that is        *)
(* replaced after it was provisioned, and a boot with and one without it.        *)
EXTENDS Host
=============================================================================
