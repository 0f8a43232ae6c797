----------------------------- MODULE MCShotOne -----------------------------
EXTENDS ShotOne
=============================================================================
