--------------------------- MODULE MCReportSubmit ---------------------------
EXTENDS ReportSubmit, TLC
=============================================================================
