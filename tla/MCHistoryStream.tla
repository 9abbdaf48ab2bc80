-------------------------- MODULE MCHistoryStream --------------------------
EXTENDS HistoryStream, TLC
=============================================================================
