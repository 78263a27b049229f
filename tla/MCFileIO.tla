------------------------------ MODULE MCFileIO ------------------------------
(***************************************************************************)
(* The instance of FileIO for TLC: offsets up to three, a buffer that      *)
(* spills beyond two bytes and arrays of up to three that are recycled.    *)
(***************************************************************************)
EXTENDS FileIO
==============================================================================
