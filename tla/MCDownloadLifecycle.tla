------------------------ MODULE MCDownloadLifecycle ------------------------
EXTENDS DownloadLifecycle, TLC

OneKind == {{kind} : kind \in Awkward}

=============================================================================
