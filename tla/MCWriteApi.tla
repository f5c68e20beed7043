----------------------------- MODULE MCWriteApi -----------------------------
(***************************************************************************)
(* A first request, a retry of it and another body under its key; a        *)
(* request with a key of its own, which is one more than the cache holds;  *)
(* and one without a key.                                                  *)
(***************************************************************************)
EXTENDS WriteApi, TLC

CONSTANTS first, retry, reuse, other, plain, k1, k2, one, two

MCKeyOf == first :> k1 @@ retry :> k1 @@ reuse :> k1 @@ other :> k2 @@ plain :> None
MCBodyOf == first :> two @@ retry :> two @@ reuse :> one @@ other :> one @@ plain :> one
MCWrites == one :> 1 @@ two :> 2
=============================================================================
