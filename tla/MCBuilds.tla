------------------------------ MODULE MCBuilds --------------------------------
\* Two names that differ in their case and give one id.
EXTENDS Builds

MCFolded == [Aero |-> "aero", aero |-> "aero"]
MCTitles == [k |-> "Aero"]
=============================================================================
