------------------------- MODULE MCFileLogAppender --------------------------
(* The TLC instance of FileLogAppender; the constants are in the .cfg file.*)
EXTENDS FileLogAppender
=============================================================================
