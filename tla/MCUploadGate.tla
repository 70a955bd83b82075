---------------------------- MODULE MCUploadGate ----------------------------
EXTENDS UploadGate
=============================================================================
