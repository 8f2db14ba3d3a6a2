-------------------------- MODULE MCImagerDownload --------------------------
EXTENDS ImagerDownload, TLC
=============================================================================
