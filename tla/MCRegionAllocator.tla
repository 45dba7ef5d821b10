------------------------- MODULE MCRegionAllocator -------------------------
\* The region allocator for TLC; the bounds are constants of the module.
EXTENDS RegionAllocator
=============================================================================
