------------------------------ MODULE Ingest ------------------------------
(***************************************************************************)
(* The ingest processes: the EDGAR poller, the US and the Canadian         *)
(* press-release pollers, and the inbox watcher (services/pollers).  Each  *)
(* is a process of its own; they share the sources table, the tasks table  *)
(* and the raw part of the vault.                                          *)
(*                                                                         *)
(* A step is one transaction or one atomic file write.  Feeds are fixed    *)
(* sets that a poll goes through in any order, as a scan of the inbox does *)
(* with its files; what a filter says of an item, with its market cap      *)
(* looked up anew each time, is a free choice.                             *)
(* dedup_releases, which drops near-equal titles within one poll, is left  *)
(* out: the items are the releases it lets through.                        *)
(***************************************************************************)
EXTENDS Naturals, FiniteSets

CONSTANTS
  Filings,    \* on the EDGAR index
  USFeed,     \* releases on the NYSE and NASDAQ feeds
  CAFeed,     \* releases on the Canadian feeds; some are on both
  OnTSX,      \* releases whose first stock tag is TSX or TSXV
  NoTicker,   \* releases without a stock tag
  Drops,      \* files a person may put into the inbox
  Ingestible, \* those with a supported suffix that can be read
  Content,    \* what each of them says
  NoItem,
  MaxFaults   \* bound: crashes, exceptions, failed reads and failed unlinks

Releases == USFeed \union CAFeed
Items == Filings \union Releases
Contents == {Content[d] : d \in Drops}

ASSUME FeedAssumption ==
  /\ Filings \intersect Releases = {}
  /\ OnTSX \subseteq Releases
  /\ NoTicker \subseteq Releases \ OnTSX
  /\ Ingestible \subseteq Drops
  /\ NoItem \notin Items \union Drops
  /\ MaxFaults \in Nat

Feed == [edgar_8k |-> Filings, press_us |-> USFeed, press_ca |-> CAFeed]
Pollers == {"edgar_8k", "press_us", "press_ca"}

VARIABLES
  sources,   \* the sources table, by item: its verdict ("foreign": rejected for
             \* its exchange)
  manual,    \* the sources table, by content: rows of dropped files
  raw,       \* _raw/: which of an item's two files are written
  vault,     \* _raw/manual/: contents written
  queued,    \* items with an analyze_filing or triage_filing task
  poller,    \* per poller: where its poll is
  inbox,     \* files in the inbox directory
  dropped,   \* files ever put there
  watcher,   \* where the inbox watcher is
  faults

vars == <<sources, manual, raw, vault, queued, poller, inbox, dropped, watcher,
          faults>>

Verdicts == {"none", "accepted", "rejected", "foreign"}

AtPoll == [pc |-> "poll", item |-> NoItem, todo |-> {}]

AtScan == [pc |-> "scan", file |-> NoItem, todo |-> {}]

TypeOK ==
  /\ sources \in [Items -> Verdicts]
  /\ manual \subseteq Contents
  /\ raw \in [Items -> SUBSET {"text", "meta"}]
  /\ vault \subseteq Contents
  /\ queued \subseteq Items
  /\ poller \in [Pollers ->
       [pc : {"poll", "gate", "rejected", "foreign", "fetch", "text", "meta",
              "insert"},
        item : Items \union {NoItem}, todo : SUBSET Items]]
  /\ inbox \subseteq dropped
  /\ dropped \subseteq Drops
  /\ watcher \in [pc : {"scan", "write", "unlink"},
                  file : Drops \union {NoItem}, todo : SUBSET Drops]
  /\ watcher.pc # "scan" => watcher.file \in Drops
  /\ faults \in 0..MaxFaults

Init ==
  /\ sources = [i \in Items |-> "none"]
  /\ manual = {}
  /\ raw = [i \in Items |-> {}]
  /\ vault = {}
  /\ queued = {}
  /\ poller = [p \in Pollers |-> AtPoll]
  /\ inbox = {}
  /\ dropped = {}
  /\ watcher = AtScan
  /\ faults = 0

Fault == faults < MaxFaults /\ faults' = faults + 1

-----------------------------------------------------------------------------
\* The pollers

At(p, pc) == poller[p].pc = pc

Goto(p, pc) == poller' = [poller EXCEPT ![p].pc = pc]

\* The item is dealt with; on with the poll.
Done(p) ==
  poller' = [poller EXCEPT ![p].pc = "poll", ![p].item = NoItem]

UnchangedInbox == UNCHANGED <<manual, vault, inbox, dropped, watcher>>

PollStarts(p) ==
  /\ At(p, "poll")
  /\ poller[p].todo = {}
  /\ poller' = [poller EXCEPT ![p].todo = Feed[p]]
  /\ UnchangedInbox
  /\ UNCHANGED <<sources, raw, queued, faults>>

\* Faulty: rejected items are looked at again in every poll.
SeenAccepted(p, i) == sources[i] = "accepted"

\* Faulty: a press poller goes by the files, as the EDGAR poller does.
SeenByFiles(p, i) == raw[i] = {"text", "meta"} \/ sources[i] # "none"

\* The EDGAR poller alone looks at the files before it looks at the table.
Seen(p, i) ==
  \/ p = "edgar_8k" /\ raw[i] = {"text", "meta"}
  \/ sources[i] # "none"

TakeItem(p, i) ==
  /\ At(p, "poll")
  /\ i \in poller[p].todo
  /\ poller' = [poller EXCEPT ![p] =
       [pc |-> IF Seen(p, i) THEN "poll" ELSE "gate",
        item |-> IF Seen(p, i) THEN NoItem ELSE i,
        todo |-> @.todo \ {i}]]
  /\ UnchangedInbox
  /\ UNCHANGED <<sources, raw, queued, faults>>

\* The first tag of a release on the Canadian feeds is for another exchange.
Foreign(p, i) == p = "press_ca" /\ i \notin OnTSX

\* The deterministic gates in the order each poller applies them; the last one
\* is the market cap.
Gate(p) ==
  /\ At(p, "gate")
  /\ IF poller[p].item \in NoTicker
     THEN Goto(p, "rejected")
     ELSE IF Foreign(p, poller[p].item)
     THEN Goto(p, "foreign")
     ELSE Goto(p, "fetch") \/ Goto(p, "rejected")
  /\ UnchangedInbox
  /\ UNCHANGED <<sources, raw, queued, faults>>

\* INSERT ... ON CONFLICT (dedup_key) DO NOTHING.
Recorded(i, verdict) ==
  IF sources[i] = "none" THEN [sources EXCEPT ![i] = verdict] ELSE sources

PersistRejection(p) ==
  /\ At(p, "rejected") \/ At(p, "foreign")
  /\ sources' = Recorded(poller[p].item, poller[p].pc)
  /\ Done(p)
  /\ UnchangedInbox
  /\ UNCHANGED <<raw, queued, faults>>

\* Faulty: the row and the task come before the files.
FetchThenInsert(p) ==
  /\ At(p, "fetch")
  /\ sources' = Recorded(poller[p].item, "accepted")
  /\ queued' = queued \union {poller[p].item}
  /\ Goto(p, "text")
  /\ UnchangedInbox
  /\ UNCHANGED <<raw, faults>>

\* A press release with an empty body is rejected.
FetchSucceeds(p) ==
  /\ At(p, "fetch")
  /\ Goto(p, "text") \/ (p # "edgar_8k" /\ Goto(p, "rejected"))
  /\ UnchangedInbox
  /\ UNCHANGED <<sources, raw, queued, faults>>

\* Nothing is recorded: the item is taken again in the next poll.
FetchFails(p) ==
  /\ At(p, "fetch")
  /\ Done(p)
  /\ UnchangedInbox
  /\ UNCHANGED <<sources, raw, queued, faults>>

WriteFile(p, file, next) ==
  /\ At(p, file)
  /\ raw' = [raw EXCEPT ![poller[p].item] = @ \union {file}]
  /\ Goto(p, next)
  /\ UnchangedInbox
  /\ UNCHANGED <<sources, queued, faults>>

\* Faulty: the row and the task are written in two transactions, and an
\* exception may come between them.
InsertSplit(p) ==
  /\ At(p, "insert")
  /\ sources' = Recorded(poller[p].item, "accepted")
  /\ queued' \in {queued, queued \union {poller[p].item}}
  /\ Done(p)
  /\ UnchangedInbox
  /\ UNCHANGED <<raw, faults>>

\* One transaction; the task is enqueued whether or not the row was new, and
\* its own dedup_key makes it one task.
Insert(p) ==
  /\ At(p, "insert")
  /\ sources' = Recorded(poller[p].item, "accepted")
  /\ queued' = queued \union {poller[p].item}
  /\ Done(p)
  /\ UnchangedInbox
  /\ UNCHANGED <<raw, faults>>

\* The process crashes and is restarted, or a step raises and run_loop catches
\* it: the poll ends and the next one starts over.
PollFails(p) ==
  /\ poller[p] # AtPoll
  /\ Fault
  /\ poller' = [poller EXCEPT ![p] = AtPoll]
  /\ UnchangedInbox
  /\ UNCHANGED <<sources, raw, queued>>

PollerStep(p) ==
  \/ PollStarts(p)
  \/ \E i \in Items : TakeItem(p, i)
  \/ Gate(p)
  \/ PersistRejection(p)
  \/ FetchSucceeds(p)
  \/ FetchFails(p)
  \/ WriteFile(p, "text", "meta")
  \/ WriteFile(p, "meta", "insert")
  \/ Insert(p)

-----------------------------------------------------------------------------
\* The inbox watcher

UnchangedPollers == UNCHANGED <<sources, raw, queued, poller>>

Drop(d) ==
  /\ d \notin dropped
  /\ inbox' = inbox \union {d}
  /\ dropped' = dropped \union {d}
  /\ UnchangedPollers
  /\ UNCHANGED <<manual, vault, watcher, faults>>

ScanStarts ==
  /\ watcher = AtScan
  /\ watcher' = [watcher EXCEPT !.todo = inbox]
  /\ UnchangedPollers
  /\ UNCHANGED <<manual, vault, inbox, dropped, faults>>

InScan(d) == watcher.pc = "scan" /\ d \in watcher.todo

\* Faulty: a file that is not ingested ends the scan.
PassOverRest(d) ==
  /\ InScan(d)
  /\ d \notin Ingestible
  /\ watcher' = AtScan
  /\ UnchangedPollers
  /\ UNCHANGED <<manual, vault, inbox, dropped, faults>>

\* A file with another suffix, or that cannot be read, stays where it is, and the
\* scan goes on; so does one whose reading fails this once.
PassOver(d) ==
  /\ InScan(d)
  /\ IF d \in Ingestible THEN Fault ELSE UNCHANGED faults
  /\ watcher' = [watcher EXCEPT !.todo = @ \ {d}]
  /\ UnchangedPollers
  /\ UNCHANGED <<manual, vault, inbox, dropped>>

\* The file is read and its row inserted; a content that has a row already is
\* a duplicate.
ReadFile(d) ==
  /\ InScan(d)
  /\ d \in Ingestible
  /\ manual' = manual \union {Content[d]}
  /\ watcher' = [pc |-> IF Content[d] \in manual THEN "unlink" ELSE "write",
                 file |-> d, todo |-> watcher.todo \ {d}]
  /\ UnchangedPollers
  /\ UNCHANGED <<vault, inbox, dropped, faults>>

WriteContent ==
  /\ watcher.pc = "write"
  /\ vault' = vault \union {Content[watcher.file]}
  /\ watcher' = [watcher EXCEPT !.pc = "unlink"]
  /\ UnchangedPollers
  /\ UNCHANGED <<manual, inbox, dropped, faults>>

NextFile == watcher' = [watcher EXCEPT !.pc = "scan", !.file = NoItem]

Unlink ==
  /\ watcher.pc = "unlink"
  /\ inbox' = inbox \ {watcher.file}
  /\ NextFile
  /\ UnchangedPollers
  /\ UNCHANGED <<manual, vault, dropped, faults>>

\* The failure is swallowed; a later scan finds the file still there.
UnlinkFails ==
  /\ watcher.pc = "unlink"
  /\ Fault
  /\ NextFile
  /\ UnchangedPollers
  /\ UNCHANGED <<manual, vault, inbox, dropped>>

\* A crash and restart, or a transaction or a write that raises: run_loop catches
\* it, and the scan is over.
ScanFails ==
  /\ watcher # AtScan
  /\ Fault
  /\ watcher' = AtScan
  /\ UnchangedPollers
  /\ UNCHANGED <<manual, vault, inbox, dropped>>

WatcherStep ==
  \/ ScanStarts
  \/ \E d \in Drops : PassOver(d) \/ ReadFile(d)
  \/ WriteContent
  \/ Unlink

-----------------------------------------------------------------------------
Next ==
  \/ \E p \in Pollers : PollerStep(p) \/ PollFails(p)
  \/ \E d \in Drops : Drop(d)
  \/ WatcherStep
  \/ UnlinkFails
  \/ ScanFails

Spec == Init /\ [][Next]_vars

\* Each process goes on; a page that is asked for again and again is served.
Fairness ==
  /\ \A p \in Pollers :
       WF_vars(PollerStep(p)) /\ SF_vars(FetchSucceeds(p))
  /\ WF_vars(WatcherStep)

FairSpec == Spec /\ Fairness
=============================================================================
