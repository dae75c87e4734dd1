-------------------------- MODULE MCMountLifecycle --------------------------
EXTENDS MountLifecycle
=============================================================================
