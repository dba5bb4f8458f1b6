----------------------------- MODULE MCBucketAudit -----------------------------
(* Instance of BucketAudit for TLC: a bucket may have any settings.         *)
EXTENDS BucketAudit

AllConfigs == Config
=============================================================================
