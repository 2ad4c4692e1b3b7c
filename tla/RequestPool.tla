---------------------------- MODULE RequestPool ----------------------------
(* The requests handlerAPIv2 serves at the same time, each on a thread.    *)
CONSTANTS Requests, NoRequest

ASSUME PoolAssumption == NoRequest \notin Requests

=============================================================================
