-------------------------- MODULE MCTimestampCache --------------------------
(* Small instances of the price cache for TLC. *)
EXTENDS TimestampCache

CONSTANTS g1, g2, g3, v1, v2

MCGetter == {g1, g2, g3}
MCTwoGetters == {g1, g2}
MCValue == {v1, v2}
MCTimestamp == {1, 2}
MCOneTimestamp == {1}
=============================================================================
