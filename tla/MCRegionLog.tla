---------------------------- MODULE MCRegionLog ----------------------------
\* RegionLog for TLC: two regions, or one, and one iterator.
EXTENDS RegionLog
MCRegions == {0, 1}
MCOneRegion == {0}
=============================================================================
