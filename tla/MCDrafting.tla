----------------------------- MODULE MCDrafting -----------------------------
EXTENDS Drafting
=============================================================================
