----------------------------- MODULE MCTranscript -----------------------------
EXTENDS Transcript, TLC
=============================================================================
