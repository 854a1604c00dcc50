----------------------------- MODULE MCJobQueue -----------------------------
EXTENDS JobQueue

CONSTANT s1

MCServers == {s1}
MCBackupKinds == {"backupS3"}
MCQueueKinds == {"backupS3", "other"}
MCSiteKinds == {"siteCreate"}
=============================================================================
