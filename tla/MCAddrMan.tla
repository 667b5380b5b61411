------------------------------ MODULE MCAddrMan ------------------------------
(***************************************************************************)
(* Small address tables: two new buckets and one tried bucket, which four  *)
(* addresses from two sources fill and overflow.                           *)
(***************************************************************************)
EXTENDS AddrMan

CONSTANTS a1, a2, a3, a4, s1, s2

FourAddresses == {a1, a2, a3, a4}
TwoSources == {s1, s2}

\* An address goes to a bucket that its source decides, but for a3.
NewBucketOf == [p \in CNetAddr \X Sources |-> IF p[1] = a3 \/ p[2] = s1 THEN 1 ELSE 2]
\* The addresses other than a3 are treated alike.
Alike == Permutations(CNetAddr \ {a3})

TriedBucketOf == [a \in CNetAddr |-> 1]
=============================================================================
