----------------------------- MODULE StateFile -----------------------------
(***************************************************************************)
(* The daemon state file (src/src/state.rs): one path on which every `bcp  *)
(* serve` and every client reads, creates, truncates, writes and unlinks   *)
(* without a lock.  A write is two system calls (open with O_CREAT|O_TRUNC,*)
(* then write_all on the handle), so the file can be seen empty, and a     *)
(* handle opened before an unlink writes to an inode nobody can read.      *)
(*                                                                         *)
(* The port, token, pid and command line of a daemon are one abstract      *)
(* value: the daemon itself.                                               *)
(***************************************************************************)
CONSTANT Daemons            \* the `bcp serve` processes

VARIABLES
    content,                \* what a reader of the path finds
    handles                 \* daemons whose open handle is on the linked inode

fileVars == <<content, handles>>

\* What the path holds: no file, an empty file, text that is no state, a state.
NoState == {"absent", "blank", "torn"}

FileTypeOK ==
    /\ content \in NoState \cup Daemons
    /\ handles \subseteq Daemons

FileInit ==
    /\ content = "absent"
    /\ handles = {}

\* read: a missing file and one that does not parse are both `None`.
ReadState == IF content \in Daemons THEN content ELSE "none"

\* The first half of write: the file exists, empty, and d holds it open.
OpenTruncated(d) ==
    /\ content' = "blank"
    /\ handles' = handles \cup {d}

\* The second half.  Over text another writer left at the same offset the
\* outcome depends on the two lengths: the shorter text leaves the tail of the
\* longer behind it.  An unlinked inode takes the text out of sight.
WriteThrough(d) ==
    /\ content' \in IF d \notin handles THEN {content}
                    ELSE IF content = "blank" THEN {d}
                    ELSE {d, "torn"}
    /\ handles' = handles \ {d}

\* write_all reports an error (disk full): nothing or a prefix was written.
WriteCutShort(d) ==
    /\ content' \in IF d \in handles THEN {content, "torn"} ELSE {content}
    /\ handles' = handles \ {d}

\* remove: unlinks whatever is at the path, errors ignored.
RemoveFile ==
    /\ content' = "absent"
    /\ handles' = {}

\* The handle of a process that dies is closed.
CloseHandle(d) ==
    /\ handles' = handles \ {d}
    /\ UNCHANGED content
=============================================================================
