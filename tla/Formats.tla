-------------------------------- MODULE Formats --------------------------------
(***************************************************************************)
(* The two tables of file extensions: the one that decides which files the *)
(* search lists (supportedEXT) and the one that decides which driver opens *)
(* a listed file (GetDriver).  Both look at the extension in lower case,   *)
(* so a file is represented by that extension here.  They are kept by hand *)
(* in two files and have to agree.                                         *)
(***************************************************************************)

(* Mutant: as before v1.1, an entry without the dot that Ext returns. *)
supportedEXTWithoutDot ==
  {".zip", ".json", ".gpkg", ".geojson", ".gdb", "kml", ".shp", ".parquet"}

supportedEXT ==
  {".zip", ".json", ".gpkg", ".geojson", ".gdb", ".kml", ".shp", ".parquet"}

IsSupported(ext) == ext \in supportedEXT

(* A connection string that pgRegex matches, and ErrUnsupportedFormat. *)
PostGIS == "PG:"
NoDriver == "unsupported format"

GetDriver(path) ==
  CASE path = PostGIS -> "PostgreSQL"
    [] path = ".gpkg" -> "GPKG"
    [] path \in {".shp", ".zip"} -> "ESRI Shapefile"
    [] path \in {".json", ".geojson"} -> "GeoJSON"
    [] path = ".kml" -> "KML"
    [] path = ".parquet" -> "Parquet"
    [] OTHER -> NoDriver

(* What a file can be named like, "other" for every other extension. *)
Extensions ==
  {".gpkg", ".shp", ".zip", ".json", ".geojson", ".kml", ".parquet", ".gdb", "other"}
=============================================================================
