------------------------------- MODULE MCPromise -------------------------------
(* Three deliveries race to settle one promise.  Their resolve_me_desc is   *)
(* the default, or names an impl_object object or some other target.        *)
EXTENDS Promise

CONSTANTS d1, d2, d3
MCDeliveries == {d1, d2, d3}
=============================================================================
