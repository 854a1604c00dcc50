--------------------------- MODULE MCBackupRecords ---------------------------
EXTENDS BackupRecords

CONSTANTS c1, c2, site1, site2

MCCreators == {c1, c2}
MCOneCreator == {c1}
MCOneSite == {site1}
MCSites == {site1, site2}
MCFiles == {"files"}
MCTypes == {"files", "database"}
=============================================================================
