--------------------------- MODULE MCExportJobs ---------------------------
(* A bounded instance of ExportJobs.                                       *)
EXTENDS ExportJobs

CONSTANTS x1, x2, w1, w2, o1
===========================================================================
