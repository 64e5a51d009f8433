--------------------------- MODULE IngestProofs ---------------------------
(***************************************************************************)
(* What the pollers keep for every feed, through any number of crashes.    *)
(*                                                                         *)
(* The argument: a poller has an item of its own feed in hand, takes it    *)
(* only when it has no row, and the files come before the row.  An item    *)
(* that two pollers see may get its row from the other one meanwhile; an   *)
(* item that one poller sees still has none, and so no task either.        *)
(***************************************************************************)
EXTENDS IngestProperties, TLAPS

Shared == USFeed \intersect CAFeed

PollsOwnFeed ==
  \A p \in Pollers :
    /\ poller[p].todo \subseteq Feed[p]
    /\ poller[p].pc # "poll" => poller[p].item \in Feed[p]

TextBeforeRows ==
  \A p \in Pollers :
    poller[p].pc \in {"meta", "insert"} => "text" \in raw[poller[p].item]

InHandIsNew ==
  \A p \in Pollers :
    poller[p].pc # "poll" /\ poller[p].item \notin Shared
      => sources[poller[p].item] = "none"

RowsAgree ==
  /\ QueuedHasText
  /\ AcceptedIsQueued
  /\ RejectionStands
  /\ \A i \in queued : sources[i] # "none"

IngestInv == TypeOK /\ PollsOwnFeed /\ TextBeforeRows /\ InHandIsNew /\ RowsAgree

\* An item that is not shared is on one feed.
LEMMA OneFeed ==
  ASSUME NEW p \in Pollers, NEW q \in Pollers, NEW i \in Feed[p] \ Shared,
         i \in Feed[q]
  PROVE  p = q
  BY FeedAssumption DEF Feed, Pollers, Shared, Releases

LEMMA FeedsAreItems == \A p \in Pollers : Feed[p] \subseteq Items
  BY DEF Feed, Pollers, Items, Releases

LEMMA InitInv == Init => IngestInv
  BY FeedAssumption
     DEF Init, IngestInv, TypeOK, PollsOwnFeed, TextBeforeRows, InHandIsNew,
         RowsAgree, QueuedHasText, AcceptedIsQueued, RejectionStands, AtPoll,
         AtScan, Verdicts

\* A poller moves on without touching the tables or the vault.
LEMMA MoveKeeps ==
  ASSUME IngestInv, NEW p \in Pollers, NEW r, poller' = [poller EXCEPT ![p] = r],
         UnchangedInbox, UNCHANGED <<sources, raw, queued>>,
         faults' \in 0..MaxFaults,
         r \in [pc : {"poll", "gate", "rejected", "foreign", "fetch", "text",
                      "meta", "insert"},
                item : Items \union {NoItem}, todo : SUBSET Items],
         r.todo \subseteq Feed[p],
         r.pc # "poll" => /\ r.item \in Feed[p]
                          /\ r.item \notin Shared => sources[r.item] = "none",
         r.pc \in {"meta", "insert"} => "text" \in raw[r.item]
  PROVE  IngestInv'
<1>1. TypeOK'
  BY DEF IngestInv, TypeOK, UnchangedInbox
<1>2. PollsOwnFeed' /\ TextBeforeRows' /\ InHandIsNew'
  BY DEF IngestInv, TypeOK, PollsOwnFeed, TextBeforeRows, InHandIsNew
<1>3. RowsAgree'
  BY DEF IngestInv, RowsAgree, QueuedHasText, AcceptedIsQueued, RejectionStands
<1>4. QED
  BY <1>1, <1>2, <1>3 DEF IngestInv

\* A poller records a verdict of the item it has in hand, with its task if the
\* verdict is to accept it, and is done with it.
LEMMA RecordKeeps ==
  ASSUME IngestInv, NEW p \in Pollers, poller[p].pc # "poll",
         NEW verdict \in {"accepted", "rejected", "foreign"},
         sources' = Recorded(poller[p].item, verdict),
         queued' = IF verdict = "accepted" THEN queued \union {poller[p].item}
                   ELSE queued,
         verdict = "accepted" => "text" \in raw[poller[p].item],
         Done(p), UnchangedInbox, UNCHANGED <<raw, faults>>
  PROVE  IngestInv'
<1> DEFINE i == poller[p].item
<1>1. i \in Items /\ i \in Feed[p]
  BY FeedsAreItems DEF IngestInv, PollsOwnFeed
<1>2. /\ sources' \in [Items -> Verdicts]
      /\ \A j \in Items : j # i => sources'[j] = sources[j]
      /\ sources[i] = "none" => sources'[i] = verdict
      /\ sources[i] # "none" => sources'[i] = sources[i]
  BY <1>1 DEF IngestInv, TypeOK, Recorded, Verdicts
<1>3. /\ poller' \in [Pollers -> [pc : {"poll", "gate", "rejected", "foreign",
                                        "fetch", "text", "meta", "insert"},
                                  item : Items \union {NoItem},
                                  todo : SUBSET Items]]
      /\ poller'[p].pc = "poll" /\ poller'[p].todo = poller[p].todo
      /\ \A q \in Pollers : q # p => poller'[q] = poller[q]
  BY DEF IngestInv, TypeOK, Done
<1>4. TypeOK'
  BY <1>1, <1>2, <1>3 DEF IngestInv, TypeOK, UnchangedInbox
<1>5. PollsOwnFeed' /\ TextBeforeRows'
  BY <1>3 DEF IngestInv, PollsOwnFeed, TextBeforeRows
<1>6. InHandIsNew'
  <2> SUFFICES ASSUME NEW q \in Pollers, poller'[q].pc # "poll",
                      poller'[q].item \notin Shared
               PROVE  sources'[poller'[q].item] = "none"
    BY DEF InHandIsNew, Shared
  <2>1. q # p /\ poller'[q] = poller[q]
    BY <1>3
  <2>2. poller[q].item \in Feed[q] /\ poller[q].item \in Items
    BY <2>1, FeedsAreItems DEF IngestInv, PollsOwnFeed
  <2>3. poller[q].item # i
    BY <1>1, <2>1, <2>2, OneFeed
  <2>4. QED
    BY <1>2, <2>1, <2>2, <2>3 DEF IngestInv, InHandIsNew
<1>7. RowsAgree'
  <2>1. i \notin Shared => sources[i] = "none" /\ i \notin queued
    BY DEF IngestInv, InHandIsNew, RowsAgree
  <2>2. QueuedHasText' /\ AcceptedIsQueued'
    BY <1>1, <1>2 DEF IngestInv, RowsAgree, QueuedHasText, AcceptedIsQueued
  <2>3. RejectionStands'
    BY <1>1, <1>2, <2>1 DEF IngestInv, RowsAgree, RejectionStands, Shared
  <2>4. (\A j \in queued : sources[j] # "none")'
    BY <1>1, <1>2 DEF IngestInv, RowsAgree, TypeOK
  <2>5. QED
    BY <2>2, <2>3, <2>4 DEF RowsAgree
<1>8. QED
  BY <1>4, <1>5, <1>6, <1>7 DEF IngestInv

\* What happens in the inbox is no concern of the pollers.
LEMMA InboxKeeps ==
  ASSUME IngestInv, UnchangedPollers, TypeOK'
  PROVE  IngestInv'
  BY DEF IngestInv, UnchangedPollers, PollsOwnFeed, TextBeforeRows, InHandIsNew,
         RowsAgree, QueuedHasText, AcceptedIsQueued, RejectionStands

LEMMA IngestStep == IngestInv /\ [Next]_vars => IngestInv'
<1> SUFFICES ASSUME IngestInv, [Next]_vars PROVE IngestInv'
  OBVIOUS
<1> DEFINE States == {"poll", "gate", "rejected", "foreign", "fetch", "text",
                      "meta", "insert"}
           PollerType == [pc : States, item : Items \union {NoItem},
                          todo : SUBSET Items]
<1>0. \A p \in Pollers : poller[p] \in PollerType
  BY DEF IngestInv, TypeOK
<1>1. faults \in 0..MaxFaults /\ (Fault => faults' \in 0..MaxFaults)
  BY FeedAssumption DEF IngestInv, TypeOK, Fault
<1>2. ASSUME NEW p \in Pollers, PollStarts(p) PROVE IngestInv'
  <2> DEFINE r == [poller[p] EXCEPT !.todo = Feed[p]]
  <2>1. poller' = [poller EXCEPT ![p] = r]
    BY <1>2 DEF PollStarts, IngestInv, TypeOK
  <2>2. r \in PollerType /\ r.todo = Feed[p] /\ r.pc = "poll"
    BY <1>0, <1>2, FeedsAreItems DEF PollStarts, At
  <2> HIDE DEF r
  <2>3. QED
    BY <1>1, <1>2, <2>1, <2>2, MoveKeeps DEF PollStarts
<1>3. ASSUME NEW p \in Pollers, NEW i \in Items, TakeItem(p, i) PROVE IngestInv'
  <2> DEFINE r == [pc |-> IF Seen(p, i) THEN "poll" ELSE "gate",
                   item |-> IF Seen(p, i) THEN NoItem ELSE i,
                   todo |-> poller[p].todo \ {i}]
  <2>1. poller' = [poller EXCEPT ![p] = r]
    BY <1>3 DEF TakeItem
  <2>2. r \in PollerType /\ r.todo \subseteq Feed[p] /\ i \in Feed[p]
    BY <1>0, <1>3 DEF TakeItem, IngestInv, PollsOwnFeed
  <2>3. r.pc # "poll" => r.item \in Feed[p] /\ sources[r.item] = "none"
    BY <2>2 DEF Seen
  <2>4. r.pc \notin {"meta", "insert"}
    OBVIOUS
  <2>5. UnchangedInbox /\ UNCHANGED <<sources, raw, queued>>
        /\ faults' \in 0..MaxFaults
    BY <1>1, <1>3 DEF TakeItem
  <2> HIDE DEF r
  <2>6. QED
    BY <2>1, <2>2, <2>3, <2>4, <2>5, MoveKeeps
<1>4. ASSUME NEW p \in Pollers, NEW pc \in States \ {"meta", "insert"},
             Goto(p, pc), poller[p].pc # "poll",
             UnchangedInbox, UNCHANGED <<sources, raw, queued, faults>>
      PROVE  IngestInv'
  <2> DEFINE r == [poller[p] EXCEPT !.pc = pc]
  <2>1. poller' = [poller EXCEPT ![p] = r]
    BY <1>4 DEF Goto, IngestInv, TypeOK
  <2>2. /\ r \in PollerType /\ r.pc = pc
        /\ r.item = poller[p].item /\ r.todo = poller[p].todo
    BY <1>0
  <2>3. /\ r.todo \subseteq Feed[p] /\ r.item \in Feed[p]
        /\ r.item \notin Shared => sources[r.item] = "none"
        /\ r.pc \notin {"meta", "insert"}
    BY <1>4, <2>2 DEF IngestInv, PollsOwnFeed, InHandIsNew
  <2> HIDE DEF r
  <2>4. QED
    BY <1>1, <1>4, <2>1, <2>2, <2>3, MoveKeeps
<1>5. ASSUME NEW p \in Pollers, Gate(p) PROVE IngestInv'
  BY <1>4, <1>5 DEF Gate, Foreign, At
<1>6. ASSUME NEW p \in Pollers, PersistRejection(p) PROVE IngestInv'
  BY <1>6, RecordKeeps DEF PersistRejection, At
<1>7. ASSUME NEW p \in Pollers, FetchSucceeds(p) PROVE IngestInv'
  BY <1>4, <1>7 DEF FetchSucceeds, At
<1>8. ASSUME NEW p \in Pollers, NEW r \in {AtPoll, [poller[p] EXCEPT
               !.pc = "poll", !.item = NoItem]},
             poller' = [poller EXCEPT ![p] = r], faults' \in 0..MaxFaults,
             UnchangedInbox, UNCHANGED <<sources, raw, queued>>
      PROVE  IngestInv'
  <2>1. r \in PollerType /\ r.pc = "poll" /\ r.todo \subseteq Feed[p]
    <3>1. CASE r = AtPoll
      BY <3>1 DEF AtPoll
    <3>2. CASE r = [poller[p] EXCEPT !.pc = "poll", !.item = NoItem]
      BY <1>0, <3>2 DEF IngestInv, PollsOwnFeed
    <3>3. QED
      BY <1>8, <3>1, <3>2
  <2>2. QED
    BY <1>8, <2>1, MoveKeeps
<1>9. ASSUME NEW p \in Pollers, FetchFails(p) \/ PollFails(p) PROVE IngestInv'
  <2>1. CASE FetchFails(p)
    BY <1>1, <1>8, <2>1 DEF FetchFails, Done, IngestInv, TypeOK
  <2>2. CASE PollFails(p)
    BY <1>1, <1>8, <2>2 DEF PollFails
  <2>3. QED
    BY <1>9, <2>1, <2>2
<1>10. ASSUME NEW p \in Pollers,
              WriteFile(p, "text", "meta") \/ WriteFile(p, "meta", "insert")
       PROVE  IngestInv'
  <2> DEFINE i == poller[p].item
  <2>1. i \in Items /\ poller[p].pc # "poll"
    BY <1>10, FeedsAreItems DEF WriteFile, At, IngestInv, PollsOwnFeed
  <2>2. /\ raw' \in [Items -> SUBSET {"text", "meta"}]
        /\ \A j \in Items : raw[j] \subseteq raw'[j]
        /\ "text" \in raw'[i]
    BY <1>10, <2>1 DEF WriteFile, At, IngestInv, TypeOK, TextBeforeRows
  <2>3. /\ poller' \in [Pollers -> PollerType]
        /\ poller'[p].item = i /\ poller'[p].todo = poller[p].todo
        /\ \A q \in Pollers : q # p => poller'[q] = poller[q]
    BY <1>10 DEF WriteFile, Goto, IngestInv, TypeOK
  <2>4. TypeOK'
    BY <1>10, <2>2, <2>3 DEF WriteFile, UnchangedInbox, IngestInv, TypeOK
  <2>5. PollsOwnFeed' /\ InHandIsNew'
    BY <1>10, <2>1, <2>3 DEF WriteFile, IngestInv, PollsOwnFeed, InHandIsNew
  <2>6. TextBeforeRows'
    <3> SUFFICES ASSUME NEW q \in Pollers, poller'[q].pc \in {"meta", "insert"}
                 PROVE  "text" \in raw'[poller'[q].item]
      BY DEF TextBeforeRows
    <3>1. CASE q = p
      BY <3>1, <2>2, <2>3
    <3>2. CASE q # p
      <4>1. poller'[q] = poller[q] /\ poller[q].item \in Items
        BY <3>2, <2>3, FeedsAreItems DEF IngestInv, PollsOwnFeed
      <4>2. QED
        BY <4>1, <2>2 DEF IngestInv, TextBeforeRows
    <3>3. QED
      BY <3>1, <3>2
  <2>7. RowsAgree'
    BY <1>10, <2>2 DEF WriteFile, IngestInv, RowsAgree, QueuedHasText,
       AcceptedIsQueued, RejectionStands, TypeOK
  <2>8. QED
    BY <2>4, <2>5, <2>6, <2>7 DEF IngestInv
<1>11. ASSUME NEW p \in Pollers, Insert(p) PROVE IngestInv'
  <2>1. poller[p].pc = "insert" /\ "text" \in raw[poller[p].item]
    BY <1>11 DEF Insert, At, IngestInv, TextBeforeRows
  <2>2. QED
    BY <1>11, <2>1, RecordKeeps DEF Insert
<1>12. ASSUME UnchangedPollers, UNCHANGED dropped,
              manual' \subseteq Contents, vault' \subseteq Contents,
              inbox' \subseteq inbox, faults' \in 0..MaxFaults,
              watcher' \in [pc : {"scan", "write", "unlink"},
                           file : Drops \union {NoItem}, todo : SUBSET Drops],
              watcher'.pc # "scan" => watcher'.file \in Drops
       PROVE  IngestInv'
  BY <1>12, InboxKeeps DEF UnchangedPollers, IngestInv, TypeOK
<1>12a. /\ watcher \in [pc : {"scan", "write", "unlink"},
                        file : Drops \union {NoItem}, todo : SUBSET Drops]
        /\ watcher.pc # "scan" => watcher.file \in Drops
        /\ manual \subseteq Contents /\ vault \subseteq Contents
        /\ inbox \subseteq Drops
  BY DEF IngestInv, TypeOK
<1>13. ASSUME NEW d \in Drops, Drop(d) PROVE IngestInv'
  BY <1>13, InboxKeeps DEF Drop, UnchangedPollers, IngestInv, TypeOK
<1>13a. ASSUME NEW d \in Drops, PassOver(d) \/ ReadFile(d) PROVE IngestInv'
  <2>1. Content[d] \in Contents
    BY DEF Contents
  <2>2. CASE PassOver(d)
    BY <1>1, <1>12, <1>12a, <2>2 DEF PassOver, InScan
  <2>3. CASE ReadFile(d)
    BY <1>1, <1>12, <1>12a, <2>1, <2>3 DEF ReadFile, InScan
  <2>4. QED
    BY <1>13a, <2>2, <2>3
<1>13b. CASE ScanStarts \/ WriteContent \/ Unlink \/ UnlinkFails \/ ScanFails
  <2>1. CASE ScanStarts
    BY <1>1, <1>12, <1>12a, <2>1 DEF ScanStarts, AtScan
  <2>2. CASE WriteContent
    <3>1. Content[watcher.file] \in Contents
      BY <1>12a, <2>2 DEF WriteContent, Contents
    <3> QED
      BY <1>1, <1>12, <1>12a, <2>2, <3>1 DEF WriteContent
  <2>3. CASE Unlink \/ UnlinkFails
    BY <1>1, <1>12, <1>12a, <2>3 DEF Unlink, UnlinkFails, NextFile
  <2>4. CASE ScanFails
    BY <1>1, <1>12, <1>12a, <2>4 DEF ScanFails, AtScan
  <2>5. QED
    BY <1>13b, <2>1, <2>2, <2>3, <2>4
<1>14. CASE UNCHANGED vars
  BY <1>14, InboxKeeps DEF vars, UnchangedPollers, IngestInv, TypeOK
<1>15. QED
  BY <1>2, <1>3, <1>5, <1>6, <1>7, <1>9, <1>10, <1>11, <1>13, <1>13a,
     <1>13b, <1>14
     DEF Next, PollerStep, WatcherStep

LEMMA IngestInvHolds == Spec => []IngestInv
  BY InitInv, IngestStep, PTL DEF Spec

\* Rows, files and pollers keep their types (press_us.py, press_ca.py, edgar_8k.py,
\* inbox_watcher.py).
THEOREM TypeCorrect == Spec => []TypeOK
<1>1. IngestInv => TypeOK
  BY DEF IngestInv
<1>2. QED
  BY <1>1, IngestInvHolds, PTL

\* An analysis always finds the text it was queued for.
THEOREM TextIsThere == Spec => []QueuedHasText
<1>1. IngestInv => QueuedHasText
  BY DEF IngestInv, RowsAgree
<1>2. QED
  BY <1>1, IngestInvHolds, PTL

\* What the table calls accepted has its task.
THEOREM AcceptedMeansQueued == Spec => []AcceptedIsQueued
<1>1. IngestInv => AcceptedIsQueued
  BY DEF IngestInv, RowsAgree
<1>2. QED
  BY <1>1, IngestInvHolds, PTL

\* The rejection of an item on a single feed is final.
THEOREM RejectionsStand == Spec => []RejectionStands
<1>1. IngestInv => RejectionStands
  BY DEF IngestInv, RowsAgree
<1>2. QED
  BY <1>1, IngestInvHolds, PTL
=============================================================================
