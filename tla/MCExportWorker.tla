-------------------------- MODULE MCExportWorker ---------------------------
(* Small instances of ExportWorker for TLC: workers are model values.        *)
EXTENDS ExportWorker

CONSTANTS w1, w2

OneWorker == {w1}
TwoWorkers == {w1, w2}
=============================================================================
