--------------------------- MODULE MCNoiseChannel ---------------------------
EXTENDS NoiseChannel

\* Two transport frames: enough for the responder to encrypt after it
\* reaches transport, and to encrypt again.
MCMaxFrames == 2
=============================================================================
