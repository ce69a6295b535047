--------------------------- MODULE MCQueryCaches ---------------------------
EXTENDS QueryCaches, TLC
CONSTANTS agent, editor
MCCallers == Permutations({agent, editor})
MCInputFiles == <<"lakefile.toml", "lake-manifest.json">>
MCRequired == {"lakefile.toml", "lake-manifest.json"}
=============================================================================
