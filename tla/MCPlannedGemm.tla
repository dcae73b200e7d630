---------------------------- MODULE MCPlannedGemm ---------------------------
EXTENDS PlannedGemm

\* None, one element too few for B, room for B, for B and A, for everything.
MCWorkspaceSizes ==
  {0, BBytes - 1, BBytes, BBytes + ABytes, ShapesAt + Slots}
=============================================================================
