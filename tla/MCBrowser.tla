----------------------------- MODULE MCBrowser ------------------------------
EXTENDS Browser
=============================================================================
