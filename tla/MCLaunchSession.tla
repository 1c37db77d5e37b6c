--------------------------- MODULE MCLaunchSession ---------------------------
\* Two launches of one pack over three lives of the launcher.
EXTENDS LaunchSession
=============================================================================
