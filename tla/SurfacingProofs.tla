-------------------------- MODULE SurfacingProofs --------------------------
(***************************************************************************)
(* What the surfacing of ideas keeps for any runs, subjects, texts of      *)
(* evidence, cap and length of a day, and any number of faults.            *)
(*                                                                         *)
(* The argument: one run at a time is in hand, so nobody opens a dive      *)
(* between its count of today's dives and its own, and nobody pushes what  *)
(* it found fresh; a midnight in between only makes the count smaller,     *)
(* since no dive has a day that is still to come.                          *)
(***************************************************************************)
EXTENDS Surfacing, HandlerTaskProofs, FiniteSetTheorems

LEMMA DivBounds ==
  ASSUME NEW n \in Nat, NEW d \in Nat \ {0}
  PROVE  n \div d \in 0..n
  OBVIOUS

LEMMA DivMonotone ==
  ASSUME NEW m \in Nat, NEW n \in Nat, m <= n, NEW d \in Nat \ {0}
  PROVE  m \div d <= n \div d
  OBVIOUS

\* What a function makes of finitely many values is as many or less.
LEMMA FiniteImage ==
  ASSUME NEW S, IsFiniteSet(S), NEW f, DOMAIN f = S, f = [x \in S |-> f[x]]
  PROVE  /\ IsFiniteSet({f[x] : x \in S})
         /\ Cardinality({f[x] : x \in S}) <= Cardinality(S)
<1> DEFINE T == {f[x] : x \in S}
<1>1. f \in Surjection(S, T)
  BY DEF Surjection
<1> HIDE DEF T
<1>2. IsFiniteSet(T) /\ Cardinality(T) <= Cardinality(S)
  BY <1>1, FS_Surjection
<1> QED
  BY <1>2 DEF T

LEMMA FiniteIdeas == IsFiniteSet(Idea) /\ IsFiniteSet(AllTickers)
<1>1. IsFiniteSet(Idea)
  <2> DEFINE P == Subjects \X (Evidence \X BOOLEAN)
             f == [p \in P |-> [subject |-> p[1], evidence |-> p[2][1], high |-> p[2][2]]]
  <2>1. BOOLEAN = {TRUE} \union {FALSE}
    OBVIOUS
  <2>2. IsFiniteSet(BOOLEAN)
    <3>1. IsFiniteSet({TRUE}) /\ IsFiniteSet({FALSE})
      BY FS_Singleton
    <3>2. IsFiniteSet({TRUE} \union {FALSE})
      BY <3>1, FS_Union
    <3> QED
      BY <2>1, <3>2
  <2>3. IsFiniteSet(P)
    BY <2>2, FS_Product, SurfacingAssumption
  <2>4. IsFiniteSet({f[p] : p \in P})
    <3>1. DOMAIN f = P /\ f = [p \in P |-> f[p]]
      OBVIOUS
    <3> HIDE DEF P, f
    <3> QED
      BY <2>3, <3>1, FiniteImage
  <2>5. Idea \subseteq {f[p] : p \in P}
    <3> SUFFICES ASSUME NEW i \in Idea PROVE \E p \in P : f[p] = i
      OBVIOUS
    <3>1. <<i.subject, <<i.evidence, i.high>>>> \in P
      BY DEF Idea
    <3>2. f[<<i.subject, <<i.evidence, i.high>>>>] = i
      BY <3>1 DEF Idea
    <3> QED
      BY <3>1, <3>2
  <2> HIDE DEF P, f
  <2> QED
    BY <2>4, <2>5, FS_Subset
<1>2. IsFiniteSet(AllTickers)
  <2> DEFINE f == [s \in Subjects |-> TickersOf[s]]
  <2>1. IsFiniteSet({f[s] : s \in Subjects})
    BY FiniteImage, SurfacingAssumption
  <2>2. {f[s] : s \in Subjects} = {TickersOf[s] : s \in Subjects}
    OBVIOUS
  <2> HIDE DEF f
  <2> QED
    BY <2>1, <2>2, FS_UNION, SurfacingAssumption DEF AllTickers
<1> QED
  BY <1>1, <1>2

LEMMA FiniteCandidates ==
  ASSUME TypeOK, NEW r \in Runs
  PROVE  IsFiniteSet(Candidates(r)) /\ Candidates(r) \subseteq Idea \X AllTickers
<1>1. IsFiniteSet(Idea \X AllTickers)
  BY FiniteIdeas, FS_Product
<1>2. Candidates(r) \subseteq Idea \X AllTickers
  BY DEF Candidates, TypeOK
<1> QED
  BY <1>1, <1>2, FS_Subset

LEMMA DayType == ASSUME TypeOK PROVE now \in Nat /\ Today \in 0..LastMinute
<1>1. now \in Nat /\ now <= LastMinute /\ DayLength \in Nat \ {0}
  BY SurfacingAssumption DEF TypeOK
<1> QED
  BY <1>1, DivBounds, SurfacingAssumption DEF Today

LEMMA CountType ==
  ASSUME IsFiniteSet(dives), NEW day
  PROVE  Cardinality({d \in dives : d.day = day}) \in Nat
<1>1. {d \in dives : d.day = day} \in SUBSET dives
  OBVIOUS
<1>2. IsFiniteSet({d \in dives : d.day = day})
  BY <1>1, FS_Subset
<1> QED
  BY <1>2, FS_CardinalityType

LEMMA HandleType ==
  ASSUME TypeOK, NEW c \in Idea \X AllTickers
  PROVE  HandleOf(c) \in Handle
<1>1. /\ c[2] \in AllTickers /\ c[1].subject \in Subjects /\ now \in 0..LastMinute
  BY DEF Idea, TypeOK
<1> QED
  BY <1>1 DEF HandleOf, Handle

\* A run opens no more dives than it counted, all of the day on which it does.
LEMMA OpensFew ==
  ASSUME TypeOK, NEW r \in Runs, OpenInvestigations(r)
  PROVE  /\ investigations' \subseteq Handle
         /\ \E new : /\ dives' = dives \union new
                    /\ IsFiniteSet(new)
                    /\ Cardinality(new) <= remaining[r]
                    /\ \A d \in new : d.investigation \in Handle /\ d.day = Today
<1> DEFINE Handles(chosen) == {HandleOf(c) : c \in chosen} \ investigations
           New(chosen) == {d \in [investigation : Handles(chosen), day : {Today}] :
                             \A old \in dives : DedupKey(old) # DedupKey(d)}
<1>1. PICK chosen \in SUBSET Candidates(r) :
        /\ Cardinality(chosen) = remaining[r] \/ Cardinality(chosen) < remaining[r]
        /\ investigations' = investigations \union Handles(chosen)
        /\ dives' = dives \union New(chosen)
  BY DEF OpenInvestigations
<1>2. chosen \subseteq Idea \X AllTickers /\ IsFiniteSet(chosen)
  BY FiniteCandidates, FS_Subset
<1>3. \A c \in chosen : HandleOf(c) \in Handle
  BY <1>2, HandleType
<1> DEFINE f == [c \in chosen |-> [investigation |-> HandleOf(c), day |-> Today]]
           image == {f[c] : c \in chosen}
<1>4. IsFiniteSet(image) /\ Cardinality(image) <= Cardinality(chosen)
  <2>1. DOMAIN f = chosen /\ f = [c \in chosen |-> f[c]]
    OBVIOUS
  <2> HIDE DEF f
  <2> QED
    BY <1>2, <2>1, FiniteImage
<1>5. New(chosen) \subseteq image
  <2> SUFFICES ASSUME NEW d \in New(chosen) PROVE \E c \in chosen : d = f[c]
    OBVIOUS
  <2>1. PICK c \in chosen : d.investigation = HandleOf(c)
    OBVIOUS
  <2>2. d = [investigation |-> HandleOf(c), day |-> Today]
    BY <2>1
  <2> QED
    BY <2>2
<1>6. \A d \in New(chosen) : d.investigation \in Handle /\ d.day = Today
  BY <1>3
<1>7. investigations' \subseteq Handle
  BY <1>1, <1>3 DEF TypeOK
<1>8. IsFiniteSet(New(chosen)) /\ Cardinality(New(chosen)) <= remaining[r]
  <2> DEFINE new == New(chosen)
  <2>1. new \in SUBSET image
    BY <1>5
  <2> HIDE DEF new, image
  <2>2. IsFiniteSet(new) /\ Cardinality(new) <= Cardinality(image)
    BY <1>4, <2>1, FS_Subset
  <2>3. /\ Cardinality(new) \in Nat /\ Cardinality(image) \in Nat
        /\ Cardinality(chosen) \in Nat
    BY <1>2, <1>4, <2>2, FS_CardinalityType
  <2>4. remaining[r] \in Nat
    BY SurfacingAssumption DEF TypeOK
  <2>5. Cardinality(new) <= remaining[r]
    BY <1>1, <1>4, <2>2, <2>3, <2>4
  <2> QED
    BY <2>2, <2>5 DEF new
<1> HIDE DEF New
<1> QED
  BY <1>1, <1>6, <1>7, <1>8

-----------------------------------------------------------------------------
(* Types *)

\* A count is one because there are finitely many dives.
TypeInv == TypeOK /\ IsFiniteSet(dives)

LEMMA SurfacingHands ==
  /\ Idle \in Hand(Stages) /\ Stage("think") \in Hand(Stages)
  /\ \A finish \in Finishes : Returned(finish) \in Hand(Stages)
  /\ \A h \in Hand(Stages), stage \in Stages \union {"settle"} :
       [h EXCEPT !.at = stage] \in Hand(Stages) /\ [h EXCEPT !.at = stage].at = stage
<1>1. Idle \in Hand(Stages) /\ Stage("think") \in Hand(Stages)
  BY HandType DEF Stages
<1>2. \A finish \in Finishes : Returned(finish) \in Hand(Stages)
  BY HandType
<1>3. \A h \in Hand(Stages), stage \in Stages \union {"settle"} :
        [h EXCEPT !.at = stage] \in Hand(Stages) /\ [h EXCEPT !.at = stage].at = stage
  BY DEF Hand
<1> QED
  BY <1>1, <1>2, <1>3

LEMMA FaultType ==
  ASSUME TypeOK, Fault \/ UNCHANGED faults PROVE faults' \in 0..MaxFaults
  BY SurfacingAssumption DEF TypeOK, Fault

LEMMA SurfacingTypeInit == Init => TypeInv
<1> SUFFICES ASSUME Init PROVE TypeInv
  OBVIOUS
<1>1. Enqueued(NoRow) \in Row(MaxAttempts)
  BY NoRowType, RowType, SurfacingAssumption
<1>2. row \in [Runs -> Row(MaxAttempts)] /\ hand \in [Runs -> Hand(Stages)]
  BY <1>1, SurfacingHands DEF Init
<1>3. dives = {} /\ IsFiniteSet(dives)
  BY FS_EmptySet DEF Init
<1>4. /\ now \in 0..LastMinute /\ faults \in 0..MaxFaults
      /\ remaining \in [Runs -> 0..AUTODISPATCH_DAILY_CAP]
  BY SurfacingAssumption DEF Init
<1>5. /\ kept \in [Runs -> SUBSET Idea]
      /\ latest \in [Subjects -> {NoIdea} \union IdeaRow]
      /\ pushed \subseteq Subjects \X Evidence
      /\ investigations \subseteq Handle
  BY DEF Init
<1> QED
  BY <1>2, <1>3, <1>4, <1>5 DEF TypeInv, TypeOK

LEMMA SurfaceType ==
  ASSUME TypeOK, NEW r \in Runs, NEW finish \in {"ok", "killed"}, Surface(r, finish)
  PROVE  TypeOK'
<1>1. PICK batch \in Batches, aborted \in BOOLEAN,
           written \in [Subjects -> {NoIdea} \union {x \in IdeaRow : x.at = now}] :
        /\ kept' = [kept EXCEPT ![r] = {i \in batch : Fresh(i)}]
        /\ latest' = [s \in Subjects |->
                        IF written[s] = NoIdea THEN latest[s] ELSE written[s]]
        /\ pushed' \subseteq pushed
        /\ Fault \/ UNCHANGED faults
  BY DEF Surface, StillPushed
<1>2. kept' \in [Runs -> SUBSET Idea]
  BY <1>1 DEF Batches, TypeOK
<1>3. latest' \in [Subjects -> {NoIdea} \union IdeaRow]
  BY <1>1 DEF TypeOK
<1>4. hand' \in [Runs -> Hand(Stages)]
  <2>1. [at |-> "notify", finish |-> finish] \in Hand(Stages)
    BY DEF Hand, Stages, Finishes
  <2> QED
    BY <2>1 DEF Surface, TypeOK
<1>5. faults' \in 0..MaxFaults
  BY <1>1, FaultType
<1>6. UNCHANGED <<now, row, remaining, investigations, dives>>
  BY DEF Surface
<1> QED
  BY <1>1, <1>2, <1>3, <1>4, <1>5, <1>6 DEF TypeOK, IdeaRow, Handle

LEMMA CountDispatchedType ==
  ASSUME TypeInv, NEW r \in Runs, NEW clear \in BOOLEAN, CountDispatched(r, clear)
  PROVE  TypeOK'
<1>1. \/ Goto(r, "settle") /\ UNCHANGED remaining
      \/ /\ Goto(r, "open")
         /\ CountToday < AUTODISPATCH_DAILY_CAP
         /\ remaining' = [remaining EXCEPT ![r] = AUTODISPATCH_DAILY_CAP - CountToday]
  BY DEF CountDispatched
<1>2. hand' \in [Runs -> Hand(Stages)]
  <2>1. \A stage \in Stages \union {"settle"} : Goto(r, stage) => hand' \in [Runs -> Hand(Stages)]
    BY SurfacingHands DEF Goto, TypeInv, TypeOK
  <2> QED
    BY <1>1, <2>1 DEF Stages
<1>3. CountToday \in Nat
  BY CountType DEF CountToday, TypeInv
<1>4. remaining' \in [Runs -> 0..AUTODISPATCH_DAILY_CAP]
  BY <1>1, <1>3, SurfacingAssumption DEF TypeInv, TypeOK
<1> QED
  BY <1>2, <1>4 DEF CountDispatched, TypeInv, TypeOK, IdeaRow, Handle

LEMMA OpenType ==
  ASSUME TypeInv, NEW r \in Runs, OpenInvestigations(r)
  PROVE  TypeInv'
<1>1. PICK new : /\ dives' = dives \union new
                 /\ IsFiniteSet(new)
                 /\ \A d \in new : d.investigation \in Handle /\ d.day = Today
  BY OpensFew DEF TypeInv
<1>2. IsFiniteSet(dives')
  BY <1>1, FS_Union DEF TypeInv
<1>3. UNCHANGED <<now, row, kept, remaining, latest, pushed, faults>>
  BY DEF OpenInvestigations
<1>4. \A d \in dives' : d.investigation \in Handle /\ d.day \in 0..LastMinute
  BY <1>1, DayType DEF TypeInv, TypeOK
<1>5. hand' \in [Runs -> Hand(Stages)]
  BY SurfacingHands DEF OpenInvestigations, Goto, TypeInv, TypeOK
<1>6. investigations' \subseteq Handle
  BY OpensFew DEF TypeInv
<1> QED
  BY <1>2, <1>3, <1>4, <1>5, <1>6 DEF TypeInv, TypeOK, IdeaRow, Handle

LEMMA SurfacingTypeStep == TypeInv /\ [Next]_vars => TypeInv'
<1> SUFFICES ASSUME TypeInv, [Next]_vars PROVE TypeInv'
  OBVIOUS
<1>1. TypeOK
  BY DEF TypeInv
<1>2. ASSUME NEW r \in Runs, Take(r) PROVE TypeInv'
  <2>1. row' \in [Runs -> Row(MaxAttempts)] /\ hand' \in [Runs -> Hand(Stages)]
    BY <1>1, <1>2, RowType, SurfacingHands, SurfacingAssumption DEF Take, TypeOK
  <2> QED
    BY <1>1, <1>2, <2>1 DEF Take, TypeInv, TypeOK, IdeaRow, Handle
<1>3. ASSUME NEW r \in Runs, NEW finish \in Finishes,
             hand' = [hand EXCEPT ![r] = Returned(finish)],
             Fault \/ UNCHANGED faults,
             UNCHANGED <<now, row, kept, remaining, latest, pushed, investigations, dives>>
      PROVE  TypeInv'
  <2>1. hand' \in [Runs -> Hand(Stages)] /\ faults' \in 0..MaxFaults
    BY <1>1, <1>3, FaultType, SurfacingHands DEF TypeOK
  <2> QED
    BY <1>1, <1>3, <2>1 DEF TypeInv, TypeOK, IdeaRow, Handle
<1>4. ASSUME NEW r \in Runs, SurfaceNothing(r) \/ RateLimited(r) \/ HandlerRaises(r)
      PROVE  TypeInv'
  BY <1>3, <1>4 DEF SurfaceNothing, RateLimited, HandlerRaises, Finishes
<1>5. ASSUME NEW r \in Runs, NEW finish \in {"ok", "killed"}, Surface(r, finish)
      PROVE  TypeInv'
  <2>1. UNCHANGED dives
    BY <1>5 DEF Surface
  <2> QED
    BY <1>1, <1>5, <2>1, SurfaceType DEF TypeInv
<1>6. ASSUME NEW r \in Runs, NotifyHigh(r) PROVE TypeInv'
  <2>1. hand' \in [Runs -> Hand(Stages)]
    BY <1>1, <1>6, SurfacingHands DEF NotifyHigh, Goto, TypeOK, Stages
  <2>2. pushed' \subseteq Subjects \X Evidence
    BY <1>1, <1>6 DEF NotifyHigh, TypeOK, Idea
  <2> QED
    BY <1>1, <1>6, <2>1, <2>2 DEF NotifyHigh, TypeInv, TypeOK, IdeaRow, Handle
<1>7. ASSUME NEW r \in Runs, NEW clear \in BOOLEAN, CountDispatched(r, clear)
      PROVE  TypeInv'
  <2>1. UNCHANGED dives
    BY <1>7 DEF CountDispatched
  <2> QED
    BY <1>7, <2>1, CountDispatchedType DEF TypeInv
<1>8. ASSUME NEW r \in Runs, Settle(r) PROVE TypeInv'
  <2>1. row' \in [Runs -> Row(MaxAttempts)]
    BY <1>1, <1>8, RowType, SurfacingAssumption DEF Settle, TypeOK
  <2>2. /\ hand' \in [Runs -> Hand(Stages)]
        /\ kept' \in [Runs -> SUBSET Idea]
        /\ remaining' \in [Runs -> 0..AUTODISPATCH_DAILY_CAP]
    BY <1>1, <1>8, SurfacingHands, SurfacingAssumption DEF Settle, TypeOK
  <2> QED
    BY <1>1, <1>8, <2>1, <2>2 DEF Settle, TypeInv, TypeOK, IdeaRow, Handle
<1>9. CASE Crash
  <2>1. /\ hand' \in [Runs -> Hand(Stages)]
        /\ kept' \in [Runs -> SUBSET Idea]
        /\ remaining' \in [Runs -> 0..AUTODISPATCH_DAILY_CAP]
        /\ faults' \in 0..MaxFaults
    BY <1>1, <1>9, FaultType, SurfacingHands, SurfacingAssumption DEF Crash
  <2> QED
    BY <1>1, <1>9, <2>1 DEF Crash, TypeInv, TypeOK, IdeaRow, Handle
<1>10. CASE Tick
  <2>1. now' \in 0..LastMinute
    BY <1>1, <1>10, SurfacingAssumption DEF Tick, TypeOK
  <2> QED
    BY <1>1, <1>10, <2>1 DEF Tick, TypeInv, TypeOK, IdeaRow, Handle
<1>11. CASE UNCHANGED vars
  BY <1>1, <1>11 DEF vars, TypeInv, TypeOK, IdeaRow, Handle
<1> QED
  BY <1>2, <1>4, <1>5, <1>6, <1>7, <1>8, <1>9, <1>10, <1>11, OpenType DEF Next, Work

\* Every reachable state has the types of its runs, ideas, investigations and dives,
\* and finitely many of the last (surface_ideas.py, worker.py).
THEOREM TypeCorrect == Spec => [](TypeOK /\ IsFiniteSet(dives))
<1>1. Spec => []TypeInv
  BY SurfacingTypeInit, SurfacingTypeStep, PTL DEF Spec
<1>2. TypeInv => TypeOK /\ IsFiniteSet(dives)
  BY DEF TypeInv
<1> QED
  BY <1>1, <1>2, PTL

-----------------------------------------------------------------------------
(* The invariant *)

Alone(r) == \A q \in Runs : q # r => At(q, "idle")

\* One run at a time is in hand.
Exclusive == \A r \in Runs : ~At(r, "idle") => Alone(r)

\* No dive has a day that is still to come.
DivesArePast == \A d \in dives : d.day <= Today

\* What a run may open fits under the cap.
OpenFits ==
  \A r \in Runs : At(r, "open") => remaining[r] + CountToday <= AUTODISPATCH_DAILY_CAP

\* What a run is about to push has no push that stands.
KeptNotPushed ==
  \A r \in Runs : At(r, "notify") =>
    \A i \in kept[r] : <<i.subject, i.evidence>> \notin pushed

SurfaceInv == Exclusive /\ DivesArePast /\ DailyCapKept /\ OpenFits /\ KeptNotPushed

LEMMA SurfaceInvInit == Init => SurfaceInv
<1> SUFFICES ASSUME Init PROVE SurfaceInv
  OBVIOUS
<1>1. \A r \in Runs : hand[r].at = "idle"
  BY HandAt DEF Init
<1>2. \A day : {d \in dives : d.day = day} = {}
  BY DEF Init
<1>3. DailyCapKept
  BY <1>2, FS_EmptySet, SurfacingAssumption DEF DailyCapKept
<1> QED
  BY <1>1, <1>3
     DEF Init, SurfaceInv, Exclusive, DivesArePast, OpenFits, KeptNotPushed, At

-----------------------------------------------------------------------------
(* One run at a time *)

\* The step is one of r, which is in hand.
GoesOn(r) ==
  /\ ~At(r, "idle")
  /\ \A q \in Runs \ {r} : hand'[q] = hand[q]

LEMMA HandStep ==
  ASSUME TypeOK, [Next]_vars
  PROVE  \/ \E r \in Runs : Take(r) \/ GoesOn(r)
         \/ UNCHANGED hand
         \/ hand' = [r \in Runs |-> Idle]
<1>1. ASSUME NEW r \in Runs, ~At(r, "idle"), NEW x,
             hand' = [hand EXCEPT ![r] = x]
      PROVE  GoesOn(r)
  BY <1>1 DEF GoesOn, TypeOK
<1>2. ASSUME NEW r \in Runs, ~At(r, "idle"), NEW stage, Goto(r, stage)
      PROVE  GoesOn(r)
  BY <1>2 DEF GoesOn, TypeOK, Goto
<1>3. ASSUME NEW r \in Runs, SurfaceNothing(r) \/ RateLimited(r) \/ HandlerRaises(r)
      PROVE  GoesOn(r)
  BY <1>1, <1>3 DEF SurfaceNothing, RateLimited, HandlerRaises, At
<1>4. ASSUME NEW r \in Runs, NEW finish \in {"ok", "killed"}, Surface(r, finish)
      PROVE  GoesOn(r)
  BY <1>1, <1>4 DEF Surface, At
<1>5. ASSUME NEW r \in Runs, NotifyHigh(r) \/ OpenInvestigations(r) PROVE GoesOn(r)
  BY <1>2, <1>5 DEF NotifyHigh, OpenInvestigations, At
<1>6. ASSUME NEW r \in Runs, NEW clear \in BOOLEAN, CountDispatched(r, clear)
      PROVE  GoesOn(r)
  BY <1>2, <1>6 DEF CountDispatched, At
<1>7. ASSUME NEW r \in Runs, Settle(r) PROVE GoesOn(r)
  BY <1>7, HandAt DEF Settle, GoesOn, At, TypeOK
<1>8. ASSUME Crash PROVE hand' = [r \in Runs |-> Idle]
  BY <1>8 DEF Crash
<1>9. ASSUME Tick \/ UNCHANGED vars PROVE UNCHANGED hand
  BY <1>9 DEF Tick, vars
<1> QED
  BY <1>3, <1>4, <1>5, <1>6, <1>7, <1>8, <1>9 DEF Next, Work

LEMMA ExclusiveStep ==
  ASSUME TypeOK, Exclusive, [Next]_vars
  PROVE  Exclusive'
<1>1. ASSUME NEW r \in Runs, Take(r) PROVE Exclusive'
  <2>1. \A q \in Runs : At(q, "idle")
    BY <1>1 DEF Take, ResourceFree
  <2>2. \A q \in Runs : q # r => hand'[q] = hand[q]
    BY <1>1 DEF Take, TypeOK
  <2> QED
    BY <2>1, <2>2 DEF Exclusive, Alone, At
<1>2. ASSUME NEW r \in Runs, GoesOn(r) PROVE Exclusive'
  BY <1>2 DEF GoesOn, Exclusive, Alone, At
<1>3. CASE UNCHANGED hand
  BY <1>3 DEF Exclusive, Alone, At
<1>4. CASE hand' = [r \in Runs |-> Idle]
  BY <1>4, HandAt DEF Exclusive, Alone, At
<1> QED
  BY <1>1, <1>2, <1>3, <1>4, HandStep

-----------------------------------------------------------------------------
(* The cap *)

CapInv == DivesArePast /\ DailyCapKept /\ OpenFits

OfDay(day) == {d \in dives : d.day = day}

LEMMA CapStands ==
  ASSUME CapInv, UNCHANGED <<now, dives>>,
         \A r \in Runs :
           At(r, "open")' => At(r, "open") /\ remaining'[r] = remaining[r]
  PROVE  CapInv'
  BY DEF CapInv, DivesArePast, DailyCapKept, OpenFits, CountToday, Today

LEMMA CountKeepsCap ==
  ASSUME TypeInv, CapInv, NEW r \in Runs, NEW clear \in BOOLEAN, CountDispatched(r, clear)
  PROVE  CapInv'
<1>1. UNCHANGED <<now, dives>>
  BY DEF CountDispatched
<1>2. \A q \in Runs : q # r => hand'[q] = hand[q] /\ remaining'[q] = remaining[q]
  BY DEF CountDispatched, Goto, TypeInv, TypeOK
<1>3. hand'[r].at = "open" => remaining'[r] = AUTODISPATCH_DAILY_CAP - CountToday
  <2>1. CASE Goto(r, "settle")
    BY <2>1 DEF Goto, TypeInv, TypeOK, Hand
  <2>2. CASE remaining' = [remaining EXCEPT ![r] = AUTODISPATCH_DAILY_CAP - CountToday]
    BY <2>2 DEF TypeInv, TypeOK
  <2> QED
    BY <2>1, <2>2 DEF CountDispatched
<1>4. CountToday \in Nat /\ CountToday' = CountToday
  BY <1>1, CountType DEF CountToday, Today, TypeInv
<1>5. OpenFits'
  BY <1>2, <1>3, <1>4, SurfacingAssumption DEF CapInv, OpenFits, At
<1>6. DivesArePast' /\ DailyCapKept'
  BY <1>1 DEF CapInv, DivesArePast, DailyCapKept, Today
<1> QED
  BY <1>5, <1>6 DEF CapInv

LEMMA OpenKeepsCap ==
  ASSUME TypeInv, Exclusive, CapInv, NEW r \in Runs, OpenInvestigations(r)
  PROVE  CapInv'
<1>1. PICK new : /\ dives' = dives \union new
                 /\ IsFiniteSet(new)
                 /\ Cardinality(new) <= remaining[r]
                 /\ \A d \in new : d.day = Today
  BY OpensFew DEF TypeInv
<1>2. At(r, "open") /\ Alone(r) /\ UNCHANGED <<now, remaining>> /\ Goto(r, "settle")
  BY DEF OpenInvestigations, Exclusive, At
<1>3. Today' = Today /\ Today \in Nat
  BY <1>2, DayType DEF Today, TypeInv
<1>4. DivesArePast'
  BY <1>1, <1>3 DEF CapInv, DivesArePast
<1>5. \A day : day # Today => OfDay(day)' = OfDay(day)
  BY <1>1 DEF OfDay
<1>6. OfDay(Today)' = OfDay(Today) \union new
  BY <1>1, <1>3 DEF OfDay
<1>7. Cardinality(OfDay(Today)') <= AUTODISPATCH_DAILY_CAP
  <2>1. OfDay(Today) \in SUBSET dives
    BY DEF OfDay
  <2>2. IsFiniteSet(OfDay(Today))
    BY <2>1, FS_Subset DEF TypeInv
  <2>3. Cardinality(OfDay(Today) \union new) =
          Cardinality(OfDay(Today)) + Cardinality(new) - Cardinality(OfDay(Today) \intersect new)
    BY <1>1, <2>2, FS_Union
  <2>4. /\ Cardinality(OfDay(Today)) \in Nat /\ Cardinality(new) \in Nat
        /\ Cardinality(OfDay(Today) \intersect new) \in Nat
    BY <1>1, <2>2, FS_CardinalityType, FS_Intersection
  <2>5. remaining[r] \in Nat
    BY SurfacingAssumption DEF TypeInv, TypeOK
  <2>6. remaining[r] + Cardinality(OfDay(Today)) <= AUTODISPATCH_DAILY_CAP
    BY <1>2 DEF CapInv, OpenFits, CountToday, OfDay
  <2> QED
    BY <1>1, <1>6, <2>3, <2>4, <2>5, <2>6, SurfacingAssumption
<1>8. DailyCapKept'
  <2>1. ASSUME NEW day \in 0..LastMinute
        PROVE  Cardinality(OfDay(day)') <= AUTODISPATCH_DAILY_CAP
    <3>1. CASE day = Today
      BY <1>3, <1>7, <3>1 DEF OfDay
    <3>2. CASE day # Today
      BY <1>5, <3>2 DEF CapInv, DailyCapKept, OfDay
    <3> QED
      BY <3>1, <3>2
  <2> QED
    BY <2>1 DEF DailyCapKept, OfDay
<1>9. OpenFits'
  <2>1. hand'[r].at = "settle" /\ \A q \in Runs : q # r => hand'[q].at = "idle"
    BY <1>2 DEF Goto, TypeInv, TypeOK, Alone, At, Hand
  <2> QED
    BY <2>1 DEF OpenFits, At
<1> QED
  BY <1>4, <1>8, <1>9 DEF CapInv

LEMMA TickKeepsCap ==
  ASSUME TypeInv, CapInv, Tick
  PROVE  CapInv'
<1>1. now' = now + 1 /\ now \in Nat /\ UNCHANGED <<hand, remaining, dives>>
  BY DayType DEF Tick, TypeInv
<1>2. Today \in Nat /\ Today' \in Nat /\ Today <= Today'
  <2>1. DayLength \in Nat \ {0} /\ now + 1 \in Nat /\ now <= now + 1
    BY <1>1, SurfacingAssumption
  <2>2. now \div DayLength \in 0..now /\ (now + 1) \div DayLength \in 0..(now + 1)
    BY <1>1, <2>1, DivBounds
  <2>3. now \div DayLength <= (now + 1) \div DayLength
    BY <1>1, <2>1, DivMonotone
  <2> QED
    BY <1>1, <2>1, <2>2, <2>3 DEF Today
<1>3. \A d \in dives : d.day \in Nat
  BY SurfacingAssumption DEF TypeInv, TypeOK
<1>4. DivesArePast'
  BY <1>1, <1>2, <1>3 DEF CapInv, DivesArePast
<1>5. DailyCapKept'
  BY <1>1 DEF CapInv, DailyCapKept
<1>6. ASSUME NEW r \in Runs, At(r, "open")
      PROVE  remaining[r] + CountToday' <= AUTODISPATCH_DAILY_CAP
  <2>1. CASE Today' = Today
    BY <1>1, <1>6, <2>1 DEF CapInv, OpenFits, CountToday
  <2>2. CASE Today' # Today
    <3>1. {d \in dives : d.day = Today'} = {}
      BY <1>2, <1>3, <2>2 DEF CapInv, DivesArePast
    <3>2. CountToday' = 0
      BY <1>1, <3>1, FS_EmptySet DEF CountToday
    <3>3. remaining[r] \in 0..AUTODISPATCH_DAILY_CAP
      BY DEF TypeInv, TypeOK
    <3> QED
      BY <3>2, <3>3, SurfacingAssumption
  <2> QED
    BY <2>1, <2>2
<1>7. OpenFits'
  BY <1>1, <1>6 DEF OpenFits, At
<1> QED
  BY <1>4, <1>5, <1>7 DEF CapInv

LEMMA CapInvStep ==
  ASSUME TypeInv, Exclusive, CapInv, [Next]_vars
  PROVE  CapInv'
<1>1. ASSUME NEW r \in Runs, UNCHANGED <<now, remaining, dives>>, NEW x,
             hand' = [hand EXCEPT ![r] = x], x.at # "open"
      PROVE  CapInv'
  <2>1. \A q \in Runs : At(q, "open")' => At(q, "open")
    BY <1>1 DEF At, TypeInv, TypeOK
  <2> QED
    BY <1>1, <2>1, CapStands
<1>2. ASSUME NEW r \in Runs, Take(r) PROVE CapInv'
  <2>1. Stage("think").at # "open"
    BY HandAt
  <2>2. hand' = [hand EXCEPT ![r] = Stage("think")] /\ UNCHANGED <<now, remaining, dives>>
    BY <1>2 DEF Take
  <2> QED
    BY <1>1, <2>1, <2>2
<1>3. ASSUME NEW r \in Runs, SurfaceNothing(r) \/ RateLimited(r) \/ HandlerRaises(r)
      PROVE  CapInv'
  BY <1>1, <1>3, HandAt DEF SurfaceNothing, RateLimited, HandlerRaises
<1>4. ASSUME NEW r \in Runs, NEW finish \in {"ok", "killed"}, Surface(r, finish)
      PROVE  CapInv'
  <2> DEFINE x == [at |-> "notify", finish |-> finish]
  <2>1. x.at # "open"
    OBVIOUS
  <2>2. hand' = [hand EXCEPT ![r] = x] /\ UNCHANGED <<now, remaining, dives>>
    BY <1>4 DEF Surface
  <2> HIDE DEF x
  <2> QED
    BY <1>1, <2>1, <2>2
<1>5. ASSUME NEW r \in Runs, NotifyHigh(r) PROVE CapInv'
  <2>1. [hand[r] EXCEPT !.at = "count"].at # "open"
    BY SurfacingHands DEF TypeInv, TypeOK, Stages
  <2>2. hand' = [hand EXCEPT ![r] = [hand[r] EXCEPT !.at = "count"]]
    BY <1>5 DEF NotifyHigh, Goto
  <2>3. UNCHANGED <<now, remaining, dives>>
    BY <1>5 DEF NotifyHigh
  <2> QED
    BY <1>1, <2>1, <2>2, <2>3
<1>6. ASSUME NEW r \in Runs, Settle(r) PROVE CapInv'
  <2>1. /\ UNCHANGED <<now, dives>> /\ hand'[r].at = "idle"
        /\ \A q \in Runs : q # r => hand'[q] = hand[q] /\ remaining'[q] = remaining[q]
    BY <1>6, HandAt DEF Settle, TypeInv, TypeOK
  <2> QED
    BY <2>1, CapStands DEF At
<1>7. CASE Crash
  <2>1. UNCHANGED <<now, dives>> /\ \A q \in Runs : hand'[q].at = "idle"
    BY <1>7, HandAt DEF Crash
  <2> QED
    BY <2>1, CapStands DEF At
<1>8. CASE UNCHANGED vars
  BY <1>8, CapStands DEF vars, At
<1> QED
  BY <1>2, <1>3, <1>4, <1>5, <1>6, <1>7, <1>8, CountKeepsCap, OpenKeepsCap, TickKeepsCap
     DEF Next, Work

-----------------------------------------------------------------------------
(* Pushes *)

LEMMA KeptNotPushedStep ==
  ASSUME TypeInv, Exclusive, KeptNotPushed, [Next]_vars
  PROVE  KeptNotPushed'
<1> USE DEF KeptNotPushed
<1>1. ASSUME UNCHANGED pushed,
             \A q \in Runs : At(q, "notify")' => At(q, "notify") /\ kept'[q] = kept[q]
      PROVE  KeptNotPushed'
  BY <1>1 DEF At
<1>2. ASSUME NEW r \in Runs, UNCHANGED pushed,
             \A q \in Runs : q # r => hand'[q] = hand[q] /\ kept'[q] = kept[q],
             hand'[r].at # "notify"
      PROVE  KeptNotPushed'
  BY <1>1, <1>2 DEF At
<1>3. ASSUME NEW r \in Runs, Take(r) PROVE KeptNotPushed'
  <2>1. UNCHANGED <<pushed, kept>> /\ hand' = [hand EXCEPT ![r] = Stage("think")]
    BY <1>3 DEF Take
  <2>2. hand'[r].at # "notify" /\ \A q \in Runs : q # r => hand'[q] = hand[q]
    BY <2>1, HandAt DEF TypeInv, TypeOK
  <2> QED
    BY <1>2, <2>1, <2>2
<1>4. ASSUME NEW r \in Runs, SurfaceNothing(r) \/ RateLimited(r) \/ HandlerRaises(r)
      PROVE  KeptNotPushed'
  <2>1. PICK finish \in Finishes : hand' = [hand EXCEPT ![r] = Returned(finish)]
    BY <1>4 DEF SurfaceNothing, RateLimited, HandlerRaises, Finishes
  <2>2. UNCHANGED <<pushed, kept>>
    BY <1>4 DEF SurfaceNothing, RateLimited, HandlerRaises
  <2>3. hand'[r].at # "notify" /\ \A q \in Runs : q # r => hand'[q] = hand[q]
    BY <2>1, HandAt DEF TypeInv, TypeOK
  <2> QED
    BY <1>2, <2>2, <2>3
<1>5. ASSUME NEW r \in Runs, NEW finish \in {"ok", "killed"}, Surface(r, finish)
      PROVE  KeptNotPushed'
  <2>1. PICK batch \in Batches :
          /\ kept' = [kept EXCEPT ![r] = {i \in batch : Fresh(i)}]
          /\ \A p \in pushed' : p \in pushed /\ Seen(p[1], p[2])
    BY <1>5 DEF Surface, StillPushed
  <2>2. \A q \in Runs : q # r => hand'[q].at = "idle"
    BY <1>5 DEF Surface, Exclusive, Alone, At, TypeInv, TypeOK
  <2>3. kept'[r] = {i \in batch : Fresh(i)}
    BY <2>1 DEF TypeInv, TypeOK
  <2>4. \A i \in kept'[r] : <<i.subject, i.evidence>> \notin pushed'
    <3> SUFFICES ASSUME NEW i \in kept'[r], <<i.subject, i.evidence>> \in pushed'
                 PROVE  FALSE
      OBVIOUS
    <3>1. Fresh(i)
      BY <2>3
    <3>2. Seen(i.subject, i.evidence)
      BY <2>1
    <3> QED
      BY <3>1, <3>2 DEF Fresh
  <2> QED
    BY <2>2, <2>4 DEF At
<1>6. ASSUME NEW r \in Runs, NotifyHigh(r) PROVE KeptNotPushed'
  <2>1. \A q \in Runs : q # r => hand'[q].at = "idle"
    BY <1>6 DEF NotifyHigh, Goto, Exclusive, Alone, At, TypeInv, TypeOK
  <2>2. hand'[r].at = "count"
    BY <1>6, SurfacingHands DEF NotifyHigh, Goto, TypeInv, TypeOK, Stages
  <2> QED
    BY <2>1, <2>2 DEF At
<1>7. ASSUME NEW r \in Runs, NEW clear \in BOOLEAN, CountDispatched(r, clear)
      PROVE  KeptNotPushed'
  <2>1. hand'[r].at \in {"open", "settle"}
    <3>1. CASE Goto(r, "open")
      BY <3>1, SurfacingHands DEF Goto, TypeInv, TypeOK, Stages
    <3>2. CASE Goto(r, "settle")
      BY <3>2, SurfacingHands DEF Goto, TypeInv, TypeOK, Stages
    <3> QED
      BY <1>7, <3>1, <3>2 DEF CountDispatched
  <2>2. /\ UNCHANGED <<pushed, kept>>
        /\ \A q \in Runs : q # r => hand'[q] = hand[q]
    BY <1>7 DEF CountDispatched, Goto, TypeInv, TypeOK
  <2> QED
    BY <1>2, <2>1, <2>2
<1>8. ASSUME NEW r \in Runs, OpenInvestigations(r) PROVE KeptNotPushed'
  <2>1. hand'[r].at = "settle"
    BY <1>8, SurfacingHands DEF OpenInvestigations, Goto, TypeInv, TypeOK
  <2>2. /\ UNCHANGED <<pushed, kept>>
        /\ \A q \in Runs : q # r => hand'[q] = hand[q]
    BY <1>8 DEF OpenInvestigations, Goto, TypeInv, TypeOK
  <2> QED
    BY <1>2, <2>1, <2>2
<1>9. ASSUME NEW r \in Runs, Settle(r) PROVE KeptNotPushed'
  BY <1>2, <1>9, HandAt DEF Settle, TypeInv, TypeOK
<1>10. CASE Crash
  <2>1. UNCHANGED pushed /\ \A q \in Runs : hand'[q].at = "idle"
    BY <1>10, HandAt DEF Crash
  <2> QED
    BY <1>1, <2>1 DEF At
<1>11. CASE Tick \/ UNCHANGED vars
  BY <1>1, <1>11 DEF Tick, vars, At
<1> QED
  BY <1>3, <1>4, <1>5, <1>6, <1>7, <1>8, <1>9, <1>10, <1>11 DEF Next, Work

LEMMA SurfaceInvStep ==
  ASSUME TypeInv, SurfaceInv, [Next]_vars
  PROVE  SurfaceInv'
<1>1. TypeOK /\ Exclusive /\ CapInv /\ KeptNotPushed
  BY DEF TypeInv, SurfaceInv, CapInv
<1>2. Exclusive'
  BY <1>1, ExclusiveStep
<1>3. CapInv'
  BY <1>1, CapInvStep
<1>4. KeptNotPushed'
  BY <1>1, KeptNotPushedStep
<1> QED
  BY <1>2, <1>3, <1>4 DEF SurfaceInv, CapInv

LEMMA SurfaceInvariant == Spec => [](TypeInv /\ SurfaceInv)
<1>1. Init => TypeInv /\ SurfaceInv
  BY SurfacingTypeInit, SurfaceInvInit
<1>2. TypeInv /\ SurfaceInv /\ [Next]_vars => (TypeInv /\ SurfaceInv)'
  BY SurfacingTypeStep, SurfaceInvStep
<1> QED
  BY <1>1, <1>2, PTL DEF Spec

\* No day has more automatic dives than the cap, for any cap, any number of runs
\* and a day of any length, with the count and the dives in two transactions
\* (surface_ideas.py _autodispatch_investigations, enqueue.py _resource_key_for).
THEOREM DailyCapIsKept == Spec => []DailyCapKept
<1>1. SurfaceInv => DailyCapKept
  BY DEF SurfaceInv
<1> QED
  BY <1>1, SurfaceInvariant, PTL

\* No idea is pushed again while its row is its subject's latest and is younger
\* than 24 hours, for any ideas and any number of runs (surface_ideas.py
\* _persist_and_dedup, handle).
THEOREM NeverPushedTwice == Spec => []NotPushedTwice
<1>1. SurfaceInv => NotPushedTwice
  BY DEF SurfaceInv, KeptNotPushed, NotPushedTwice
<1> QED
  BY <1>1, SurfaceInvariant, PTL

-----------------------------------------------------------------------------
(* Investigations and dives *)

\* A handle that is free is that of no dive, so no dive of it is left out for an
\* earlier one with its dedup_key.
LEMMA OpenedHaveDives ==
  ASSUME OneDiveEach, NEW r \in Runs, OpenInvestigations(r)
  PROVE  OneDiveEach'
<1> DEFINE Handles(chosen) == {HandleOf(c) : c \in chosen} \ investigations
           Opened(chosen) == [investigation : Handles(chosen), day : {Today}]
<1>1. PICK chosen \in SUBSET Candidates(r) :
        /\ investigations' = investigations \union Handles(chosen)
        /\ dives' = dives \union {d \in Opened(chosen) :
                                 \A old \in dives : DedupKey(old) # DedupKey(d)}
  BY DEF OpenInvestigations
<1> DEFINE handles == Handles(chosen)
           new == [investigation : handles, day : {Today}]
<1>2. handles \intersect investigations = {}
  OBVIOUS
<1>3. investigations' = investigations \union handles
  BY <1>1
<1>4. dives' = dives \union
        {d \in new : \A old \in dives : DedupKey(old) # DedupKey(d)}
  BY <1>1
<1> HIDE DEF handles, Handles, Opened
<1>5. dives' = dives \union new
  <2>1. ASSUME NEW d \in new, NEW old \in dives PROVE DedupKey(old) # DedupKey(d)
    BY <1>2, <2>1 DEF OneDiveEach, DedupKey
  <2> QED
    BY <1>4, <2>1
<1>6. {d.investigation : d \in new} = handles
  <2>1. ASSUME NEW h \in handles PROVE \E d \in new : d.investigation = h
    <3>1. [investigation |-> h, day |-> Today] \in new
      BY <2>1
    <3> QED
      BY <3>1
  <2> QED
    BY <2>1
<1>7. investigations' = {d.investigation : d \in dives'}
  BY <1>3, <1>5, <1>6 DEF OneDiveEach
<1>8. ASSUME NEW d \in dives', NEW e \in dives', d.investigation = e.investigation
      PROVE  d = e
  <2>1. CASE d \in dives /\ e \in dives
    BY <1>8, <2>1 DEF OneDiveEach
  <2>2. CASE d \in new /\ e \in new
    BY <1>8, <2>2
  <2>3. \A x \in dives, y \in new : x.investigation # y.investigation
    BY <1>2, <1>6 DEF OneDiveEach
  <2> QED
    BY <1>5, <1>8, <2>1, <2>2, <2>3
<1> QED
  BY <1>7, <1>8 DEF OneDiveEach

\* No investigation is opened without its dive, and none gets a second one: the
\* free handle and the dedup_key of the dive never disagree, over midnight and
\* retries (surface_ideas.py _autodispatch_investigations).
THEOREM OpenedOnce == Spec => []OneDiveEach
<1>1. Init => OneDiveEach
  BY DEF Init, OneDiveEach
<1>2. OneDiveEach /\ [Next]_vars => OneDiveEach'
  <2>1. ASSUME OneDiveEach, UNCHANGED <<investigations, dives>> PROVE OneDiveEach'
    BY <2>1 DEF OneDiveEach
  <2> QED
    BY <2>1, OpenedHaveDives
       DEF Next, Work, vars, Take, SurfaceNothing, Surface, NotifyHigh,
           CountDispatched, RateLimited, HandlerRaises, Settle, Crash, Tick
<1> QED
  BY <1>1, <1>2, PTL DEF Spec

=============================================================================
