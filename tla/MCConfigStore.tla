---------------------------- MODULE MCConfigStore ----------------------------
(***************************************************************************)
(* Two devices, two tags, two handlers, two requests.                      *)
(***************************************************************************)
EXTENDS ConfigStore

CONSTANTS d1, d2, t1, t2, h1, h2, float64, bool, stop, drop_oldest

\* A tag that may be written and one of another type that may not.
MCTagBodies == {[type |-> float64, writable |-> TRUE, simulate |-> FALSE],
                [type |-> bool, writable |-> FALSE, simulate |-> FALSE]}
=============================================================================
