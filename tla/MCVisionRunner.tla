--------------------------- MODULE MCVisionRunner ---------------------------
EXTENDS VisionRunner
=============================================================================
