------------------------- MODULE IngestProperties -------------------------
(* What the ingest processes promise. *)
EXTENDS Ingest

\* The analysis finds the raw text it is queued for, whatever crash or racing
\* poller came before (edgar_8k.py:301, press_us.py:123: files first, then rows).
QueuedHasText == \A i \in queued : "text" \in raw[i]

\* The table never calls an item accepted that no task was made for
\* (edgar_8k.py:318-367: the row and the task are one transaction).
AcceptedIsQueued == \A i \in Items : sources[i] = "accepted" => i \in queued

\* Of an item that only one poller sees a rejection stands: later polls, which
\* may look up another market cap, never queue it (edgar_8k.py:234-243).
RejectionStands ==
  \A i \in Items \ (USFeed \intersect CAFeed) :
    sources[i] \in {"rejected", "foreign"} => i \notin queued

\* Every release is settled at last, through failed fetches, exceptions and
\* crashes between its files and its row (press_us.py, press_ca.py).
ReleaseSettles == \A i \in Releases : <>(sources[i] # "none")

\* Every file of a supported suffix that can be read leaves the inbox at last, also
\* through failed scans, reads and unlinks, and whatever other files stay there for
\* ever and are passed over in each scan (inbox_watcher.py _scan_once).
InboxDrains == \A d \in Ingestible : d \in inbox ~> d \notin inbox
=============================================================================
