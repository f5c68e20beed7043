---------------------------- MODULE MCFlushSpool ----------------------------
(***************************************************************************)
(* Four samples, handed over in the order 1, 2, 3, 4.  Sample 2 has the    *)
(* primary key of sample 1 (the PLC's source timestamp did not move while  *)
(* the quality did), in the same batch or the next, sample 3 may be a text *)
(* with a NUL byte, which Postgres refuses, and sample 4 is a NaN, which   *)
(* the spool cannot marshal.  Two samples make a batch, a tick flushes     *)
(* one, and the spool may be full before the third batch.  The disk turns  *)
(* read-only, so that neither writing nor removing a file works, or cannot *)
(* be read.                                                                *)
(***************************************************************************)
EXTENDS FlushSpool

MCSample == 1..4
MCKey    == {"k1", "k2", "k3"}
MCKeyOf  == <<"k1", "k1", "k2", "k3">>
MCNaN    == {4}
MCNul    == {3}
MCDisk   == {{}, {"write", "remove"}, {"read"}}
MCSound  == {{}}
=============================================================================
