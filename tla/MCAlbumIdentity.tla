-------------------------- MODULE MCAlbumIdentity --------------------------
\* Instances: directories that are empty, or hold a file of one release.
EXTENDS AlbumIdentity

CONSTANT issue

Before == {{}, {[artist |-> CHOOSE a \in Artist : TRUE, id |-> issue]}}
============================================================================
