------------------------------- MODULE GbMeta -------------------------------
(***************************************************************************)
(* The vocabulary of the metafile, the append-only journal that gluster-   *)
(* block keeps for every block volume under /block-meta.  A line of it is  *)
(* either "KEY: value" or "host: STATUS"; a reader keeps the last status   *)
(* of every host.  The statuses and the classes of statuses the handlers   *)
(* test for are defined here once, for the modules that model handlers.    *)
(***************************************************************************)

(***************************************************************************)
(* MetaStatusLookup: what a line may say about a host.                     *)
(***************************************************************************)
MetaStatus ==
    {"CONFIGSUCCESS", "CONFIGFAIL", "CONFIGINPROGRESS",
     "AUTHENFORCEING", "AUTHENFORCED", "AUTHENFORCEFAIL",
     "AUTHCLEARENFORCEING", "AUTHCLEARENFORCED", "AUTHCLEARENFORCEFAIL",
     "CLEANUPSUCCESS", "CLEANUPFAIL", "CLEANUPINPROGRESS",
     "RPSUCCESS", "RPINPROGRESS", "RPFAIL",
     "RSSUCCESS", "RSINPROGRESS", "RSFAIL"}

(***************************************************************************)
(* Values of the ENTRYCREATE and ENTRYDELETE keys.                         *)
(***************************************************************************)
EntryStatus == {"INPROGRESS", "FAIL", "SUCCESS"}

(***************************************************************************)
(* A key the journal holds no line for.                                    *)
(***************************************************************************)
NoLine == "NONE"

(***************************************************************************)
(* ENTRYDELETE is a key of MetakeyLookup, but blockStuffMetaInfo has no    *)
(* case for it: its line falls into the default branch, which takes the    *)
(* key for the address of a host.  So the reader of a journal sees a host  *)
(* named ENTRYDELETE whose status is an EntryStatus.                       *)
(***************************************************************************)
ENTRYDELETE == "ENTRYDELETE"

(***************************************************************************)
(* blockhostIsValid: the host carries (or may carry) the block.            *)
(***************************************************************************)
blockhostIsValid(s) ==
    s \in {"CONFIGSUCCESS", "CLEANUPINPROGRESS",
           "AUTHENFORCEING", "AUTHENFORCED", "AUTHENFORCEFAIL",
           "AUTHCLEARENFORCEING", "AUTHCLEARENFORCED", "AUTHCLEARENFORCEFAIL",
           "RPSUCCESS", "RPINPROGRESS", "RPFAIL",
           "RSSUCCESS", "RSINPROGRESS", "RSFAIL"}

\* Mutant of AuditSuccess: a host that was called counts as configured.
AuditSuccessCalled == {"CONFIGSUCCESS", "AUTHENFORCED", "CONFIGINPROGRESS"}

(***************************************************************************)
(* What glusterBlockAuditRequest counts as a configured path.              *)
(***************************************************************************)
AuditSuccess == {"CONFIGSUCCESS", "AUTHENFORCED"}

\* Mutant of DeleteSkips: takes a failed create for an untouched host.
DeleteSkipsFailed == {"CONFIGINPROGRESS", "CONFIGFAIL", "CLEANUPSUCCESS"}

(***************************************************************************)
(* What glusterBlockDeleteFillArgs passes over and                         *)
(* glusterBlockDeleteRemoteAsync counts as gone.                           *)
(***************************************************************************)
DeleteSkips == {"CONFIGINPROGRESS", "CLEANUPSUCCESS"}
=============================================================================
