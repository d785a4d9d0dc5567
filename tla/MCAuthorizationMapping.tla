---------------------- MODULE MCAuthorizationMapping ----------------------
(* Two workers and two coroutines; one change of the tags and one of the   *)
(* configuration, one loss of Redis, one run cut short.                    *)
EXTENDS AuthorizationMapping
=============================================================================
