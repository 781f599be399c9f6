--------------------------- MODULE MCDirectoryPool ---------------------------
(* Instances of DirectoryPool for TLC: three files, with base names that      *)
(* differ, or two of them of the same base name in different directories.     *)
EXTENDS DirectoryPool

CONSTANTS x, y, z

Distinct == <<x, y, z>>
SameBaseName == <<x, x, z>>
==============================================================================
