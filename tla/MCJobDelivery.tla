---------------------------- MODULE MCJobDelivery ----------------------------
EXTENDS JobDelivery
CONSTANTS s1, s2, s3, one, two

ThreeStreams == {s1, s2, s3}
TwoSessions == {one, two}
LastInTwo == [s \in Streams |-> IF s = s3 THEN two ELSE one]
==============================================================================
