CONSTANTS
    AssertsEnabled = TRUE
    Stencils <- MCStencils
    Geometries <- MCGeometries
    OutflowNormals <- MCOutflowNormals

INIT BInit
NEXT BNext

\* an initialiser runs once and ends
CHECK_DEADLOCK FALSE

INVARIANTS
    BTypeOK
    RefDirMirrorsNormal
    FlatWallNormal
    OutflowSourcesInterior
