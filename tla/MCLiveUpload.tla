---------------------------- MODULE MCLiveUpload ----------------------------
EXTENDS LiveUpload
CONSTANTS k1, k2, p1
PartitionOf == [k \in {k1, k2} |-> p1]

\* A good segment the manifest names reaches the bucket: of k1, since nothing in the
\* module tells the segments of one partition apart, so what holds of one holds of each.
LiveCatchesUp == CatchesUp(k1)
=============================================================================
