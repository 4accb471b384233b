---------------------------- MODULE MCInboxSync ----------------------------
(* InboxSync on small instances, with the limits of sync() in runtime.rs. *)
EXTENDS InboxSync

CodeGapLimit   == 5
CodeRetryLimit == 10
=============================================================================
