-------------------------- MODULE MCWorkerInstall --------------------------
EXTENDS WorkerInstall, TLC
CONSTANTS release, nightly, old
MCWindow == release :> "supported" @@ nightly :> "unknown" @@ old :> "out_of_window"
MCVolatile == {release}
=============================================================================
