----------------------------- MODULE MCCapacity -----------------------------
\* Two callers, a disk of 20 bytes, chunks of two rows; the operator goes from
\* trimming at half of the disk to stopping at all of it, or back.
EXTENDS Capacity, TLC

MCSettings == {[percent |-> 50, policy |-> "drop_oldest"],
               [percent |-> 85, policy |-> "drop_oldest"], [percent |-> 90, policy |-> "stop"]}

\* Used 10, 12 and 18 bytes of a limit of 10, 17 or 18.
MCStarts == {{0}, {0, 1}, 0..4}
MCVolumes == <<[total |-> 0, avail |-> 0], [total |-> 20, avail |-> 8]>>

MCSymmetry == Permutations(Caller)
=============================================================================
