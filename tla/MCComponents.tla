---------------------------- MODULE MCComponents ----------------------------
\* The components of one installation: a Fabric and a NeoForge.
EXTENDS ComponentInstall

MCNeeds == [l \in Loaders |-> Libraries]
=============================================================================
