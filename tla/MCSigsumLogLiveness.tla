---- MODULE MCSigsumLogLiveness ----
EXTENDS MCSigsumLog, SigsumLogLiveness
====
