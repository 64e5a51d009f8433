--------------------------- MODULE InvokerProofs ---------------------------
(***************************************************************************)
(* What a call of the CLI keeps for every child and any number of          *)
(* cancellations.                                                          *)
(*                                                                         *)
(* The argument: the phase in which SIGKILL is waited for is only entered  *)
(* when it was sent, and what was read settles the finish of the call      *)
(* before the first signal, after which neither changes.                   *)
(***************************************************************************)
EXTENDS Invoker, SequenceTheorems, TLAPS

LEMMA InvokerTypeInit == Init => TypeOK
<1> SUFFICES ASSUME Init PROVE TypeOK
  OBVIOUS
<1>1. pipe \in Seq(Event)
  BY DEF Init
<1>2. decisive \in Event
  BY DEF Init, Plain, Event
<1>3. cancels \in 0..MaxCancels
  BY InvokerAssumption DEF Init
<1>4. /\ at = "read" /\ final = FALSE /\ hit_error = FALSE /\ rate_limit_hit = FALSE
      /\ finish = "error" /\ child = "alive" /\ result = "none"
  BY DEF Init
<1> QED
  BY <1>1, <1>2, <1>3, <1>4 DEF TypeOK, Reasons

\* The reading ends with a reason, and the call goes on to a phase of its end.
LEMMA LeavesReadingType ==
  ASSUME NEW reason \in Reasons, LeavesReading(reason)
  PROVE  finish' \in Reasons /\ at' \in {"wait", "sigint"}
  BY DEF LeavesReading

LEMMA ReadLineType == TypeOK /\ ReadLine => TypeOK'
<1> SUFFICES ASSUME TypeOK, ReadLine PROVE TypeOK'
  OBVIOUS
<1> DEFINE e == Head(pipe)
<1>1. e \in Event /\ Tail(pipe) \in Seq(Event)
  BY HeadTailProperties DEF TypeOK, ReadLine
<1>2. e.limit \in BOOLEAN /\ e.error \in BOOLEAN /\ e.result \in BOOLEAN
  BY <1>1 DEF Event
<1>3. /\ pipe' = Tail(pipe)
      /\ hit_error' = (hit_error \/ e.error)
      /\ rate_limit_hit' = (rate_limit_hit \/ e.limit)
      /\ UNCHANGED <<child, cancels, final, result>>
  BY DEF ReadLine, UnchangedChild
<1>4. hit_error' \in BOOLEAN /\ rate_limit_hit' \in BOOLEAN
  BY <1>2, <1>3 DEF TypeOK
<1>5. CASE e.limit \/ e.result
  <2>1. decisive' = e
    BY <1>5 DEF ReadLine
  <2>2. PICK reason \in Reasons : LeavesReading(reason)
    BY <1>5 DEF ReadLine, Reasons
  <2> QED
    BY <1>1, <1>3, <1>4, <2>1, <2>2, LeavesReadingType DEF TypeOK
<1>6. CASE ~(e.limit \/ e.result)
  BY <1>1, <1>3, <1>4, <1>6 DEF ReadLine, TypeOK
<1> QED
  BY <1>5, <1>6

LEMMA WritesType ==
  ASSUME TypeOK, NEW e \in Event, Writes(e)
  PROVE  TypeOK'
<1>1. Append(pipe, e) \in Seq(Event)
  BY AppendProperties DEF TypeOK
<1> QED
  BY <1>1 DEF TypeOK, Writes, UnchangedParser, Codes

LEMMA InvokerTypeStep == TypeOK /\ [Next]_vars => TypeOK'
<1> SUFFICES ASSUME TypeOK, [Next]_vars PROVE TypeOK'
  OBVIOUS
<1> USE DEF TypeOK, UnchangedChild, UnchangedParser
<1>1. CASE ReadLine
  BY <1>1, ReadLineType
<1>2. CASE OutputEnds
  BY <1>2, LeavesReadingType DEF OutputEnds
<1>3. CASE NoEventTimeout
  BY <1>3, LeavesReadingType DEF NoEventTimeout, Reasons
<1>4. CASE WallTimeout
  BY <1>4, LeavesReadingType DEF WallTimeout, Reasons
<1>5. CASE ChildIsGone
  BY <1>5 DEF ChildIsGone, AfterKill
<1>6. CASE Escalates
  BY <1>6 DEF Escalates, AfterKill, Killing
<1>7. CASE Returns
  BY <1>7 DEF Returns, Classified, Reasons
<1>8. ASSUME NEW e \in Event, Writes(e) PROVE TypeOK'
  BY <1>8, WritesType
<1>9. ASSUME NEW code \in Codes, Exits(code) PROVE TypeOK'
  BY <1>9 DEF Exits
<1>10. CASE Canceled
  BY <1>10, InvokerAssumption DEF Canceled, LeavesToFinally
<1>11. CASE ReadingRaises
  BY <1>11 DEF ReadingRaises, LeavesToFinally
<1>12. CASE UNCHANGED vars
  BY <1>12 DEF vars
<1> QED
  BY <1>1, <1>2, <1>3, <1>4, <1>5, <1>6, <1>7, <1>8, <1>9, <1>10, <1>11, <1>12
     DEF Next, Run

\* Every reachable state of a call has the types of its variables (invoker.py
\* CLIInvoker, stream_parser.py StreamParser).
THEOREM TypeCorrect == Spec => []TypeOK
<1>1. Spec => []TypeOK
  BY InvokerTypeInit, InvokerTypeStep, PTL DEF Spec
<1> QED
  BY <1>1

-----------------------------------------------------------------------------
\* SIGKILL is sent before it is waited for, and the finally block comes last.
KillInv ==
  /\ TypeOK
  /\ at = "sigkill" => child # "alive"
  /\ at \in {"read", "wait"} => ~final

LEMMA KillStep == KillInv /\ [Next]_vars => KillInv'
<1> SUFFICES ASSUME KillInv, [Next]_vars PROVE KillInv'
  OBVIOUS
<1>1. TypeOK'
  BY InvokerTypeStep DEF KillInv
<1> USE <1>1 DEF KillInv, TypeOK, UnchangedChild, UnchangedParser, LeavesReading
<1>2. CASE ReadLine
  BY <1>2 DEF ReadLine
<1>3. CASE OutputEnds \/ NoEventTimeout \/ WallTimeout
  BY <1>3 DEF OutputEnds, NoEventTimeout, WallTimeout
<1>4. CASE ChildIsGone
  BY <1>4 DEF ChildIsGone, AfterKill
<1>5. CASE Escalates
  BY <1>5 DEF Escalates, AfterKill, Killing
<1>6. CASE Returns
  BY <1>6 DEF Returns
<1>7. ASSUME NEW e \in Event, Writes(e) PROVE KillInv'
  BY <1>7 DEF Writes
<1>8. ASSUME NEW code \in Codes, Exits(code) PROVE KillInv'
  BY <1>8 DEF Exits, Codes
<1>9. CASE Canceled \/ ReadingRaises
  BY <1>9 DEF Canceled, ReadingRaises, LeavesToFinally
<1>10. CASE UNCHANGED vars
  BY <1>10 DEF vars
<1> QED
  BY <1>2, <1>3, <1>4, <1>5, <1>6, <1>7, <1>8, <1>9, <1>10 DEF Next, Run

LEMMA KillInvHolds == Spec => []KillInv
<1>1. Init => KillInv
  BY InvokerTypeInit DEF Init, KillInv
<1> QED
  BY <1>1, KillStep, PTL DEF Spec

\* A step that ends the call does so when the child is gone or dying, or is a
\* cancellation of the finally block.
LEMMA EndingStep ==
  KillInv /\ [Next]_vars =>
    (at # "ended" /\ at' = "ended" =>
       child' # "alive" \/ (final /\ cancels' # cancels))
<1> SUFFICES ASSUME KillInv, [Next]_vars, at # "ended", at' = "ended"
             PROVE  child' # "alive" \/ (final /\ cancels' # cancels)
  OBVIOUS
<1> USE DEF KillInv, TypeOK, UnchangedChild, LeavesReading, Codes, Exited
<1>1. CASE ReadLine
  BY <1>1 DEF ReadLine
<1>2. CASE OutputEnds \/ NoEventTimeout \/ WallTimeout
  BY <1>2 DEF OutputEnds, NoEventTimeout, WallTimeout
<1>3. CASE ChildIsGone
  BY <1>3 DEF ChildIsGone
<1>4. CASE Escalates
  BY <1>4 DEF Escalates, AfterKill, Killing
<1>5. CASE Returns
  BY <1>5 DEF Returns
<1>6. CASE Canceled
  BY <1>6, InvokerAssumption DEF Canceled, LeavesToFinally
<1>7. CASE ReadingRaises
  BY <1>7 DEF ReadingRaises, LeavesToFinally
<1>8. ASSUME NEW e \in Event, Writes(e) PROVE FALSE
  BY <1>8 DEF Writes
<1>9. ASSUME NEW code \in Codes, Exits(code) PROVE FALSE
  BY <1>9 DEF Exits
<1>10. CASE UNCHANGED vars
  BY <1>10 DEF vars
<1> QED
  BY <1>1, <1>2, <1>3, <1>4, <1>5, <1>6, <1>7, <1>8, <1>9, <1>10 DEF Next, Run

\* No call leaves its child running, for any child and however it is canceled, but
\* for the cancellation of the last kill (invoker.py run, _kill_proc_tree).
THEOREM NoChildLeftBehind == Spec => NoOrphan
<1>1. KillInv /\ [Next]_vars =>
        [at # "ended" /\ at' = "ended" =>
           child' # "alive" \/ (final /\ cancels' # cancels)]_vars
  BY EndingStep
<1> QED
  BY <1>1, KillInvHolds, PTL DEF Spec, NoOrphan

-----------------------------------------------------------------------------
\* What was read decides the finish.
Decided ==
  /\ finish = "stop" <=> decisive.result /\ ~decisive.limit /\ ~hit_error
  /\ finish = "rate_limit" <=> decisive.limit
  /\ rate_limit_hit => finish = "rate_limit"
  /\ finish # "killed"

ReadInv ==
  /\ KillInv
  /\ at = "read" =>
       /\ decisive = Plain
       /\ finish = "error"
       /\ ~rate_limit_hit
       /\ result = "none"
  /\ at # "read" /\ ~final => Decided
  /\ ~final => result = "none"
  /\ result # "none" =>
       /\ Decided
       /\ result = "stop" <=> finish = "stop"
       /\ result = "rate_limit" <=> finish = "rate_limit"
       /\ result = "killed" => child = "interrupted"

LEMMA ReadLineDecides == ReadInv /\ ReadLine /\ TypeOK' => ReadInv'
<1> SUFFICES ASSUME ReadInv, ReadLine, KillInv' PROVE ReadInv'
  BY KillStep DEF ReadInv, Next, Run
<1> DEFINE e == Head(pipe)
<1>1. e.limit \in BOOLEAN /\ e.error \in BOOLEAN /\ e.result \in BOOLEAN
  <2>1. e \in Event
    BY HeadTailProperties DEF ReadInv, KillInv, TypeOK, ReadLine
  <2> QED
    BY <2>1 DEF Event
<1>2. /\ at = "read"
      /\ ~final
      /\ hit_error' = (hit_error \/ e.error)
      /\ rate_limit_hit' = (rate_limit_hit \/ e.limit)
      /\ UNCHANGED <<child, cancels, final, result>>
  BY DEF ReadLine, UnchangedChild, ReadInv, KillInv
<1>3. ~rate_limit_hit /\ result = "none" /\ hit_error \in BOOLEAN
  BY <1>2 DEF ReadInv, KillInv, TypeOK
<1>4. CASE e.limit \/ e.result
  <2>1. /\ decisive' = e
        /\ finish' = IF e.limit THEN "rate_limit"
                     ELSE IF hit_error' THEN "error" ELSE "stop"
        /\ at' # "read"
    BY <1>4 DEF ReadLine, LeavesReading
  <2>2. Decided'
    BY <1>1, <1>2, <1>3, <1>4, <2>1 DEF Decided
  <2> QED
    BY <1>2, <1>3, <2>1, <2>2 DEF ReadInv
<1>5. CASE ~(e.limit \/ e.result)
  BY <1>1, <1>2, <1>3, <1>5 DEF ReadLine, ReadInv
<1> QED
  BY <1>4, <1>5

LEMMA ReadStep == ReadInv /\ [Next]_vars => ReadInv'
<1> SUFFICES ASSUME ReadInv, [Next]_vars PROVE ReadInv'
  OBVIOUS
<1>1. KillInv' /\ TypeOK'
  BY KillStep DEF ReadInv, KillInv
<1>2. KillInv /\ TypeOK
  BY DEF ReadInv, KillInv
<1> USE <1>1, <1>2
<1>3. CASE ReadLine
  BY <1>3, ReadLineDecides
<1>4. CASE OutputEnds \/ NoEventTimeout \/ WallTimeout
  <2>1. /\ at = "read" /\ at' # "read"
        /\ finish' \in {"error", "timeout"}
        /\ UNCHANGED <<decisive, hit_error, rate_limit_hit, final, result, child>>
    BY <1>4 DEF OutputEnds, NoEventTimeout, WallTimeout, LeavesReading, ReadInv,
                UnchangedChild, UnchangedParser
  <2>2. Decided'
    BY <2>1 DEF Decided, ReadInv, Plain
  <2> QED
    BY <2>1, <2>2 DEF ReadInv
<1>5. CASE ChildIsGone \/ Escalates
  <2>1. /\ at # "read" /\ at' # "read"
        /\ child' # child => child = "alive" \/ at = "sigterm"
        /\ UNCHANGED <<decisive, hit_error, rate_limit_hit, final, result, finish>>
    BY <1>5 DEF ChildIsGone, Escalates, Killing, AfterKill, UnchangedChild,
                UnchangedParser
  <2>2. child = "interrupted" => child' = "interrupted"
    BY <1>5 DEF ChildIsGone, Escalates, UnchangedChild, Exited, Codes
  <2> QED
    BY <2>1, <2>2 DEF ReadInv, Decided
<1>6. CASE Returns
  BY <1>6 DEF Returns, ReadInv, KillInv, TypeOK, Classified, Decided, UnchangedChild,
              UnchangedParser, Exited, Codes, Reasons
<1>7. ASSUME NEW e \in Event, Writes(e) PROVE ReadInv'
  BY <1>7 DEF Writes, ReadInv, Decided, UnchangedParser
<1>8. ASSUME NEW code \in Codes, Exits(code) PROVE ReadInv'
  BY <1>8 DEF Exits, ReadInv, Decided, UnchangedParser, Codes
<1>9. CASE Canceled \/ ReadingRaises
  BY <1>9 DEF Canceled, ReadingRaises, LeavesToFinally, ReadInv
<1>10. CASE UNCHANGED vars
  BY <1>10 DEF vars, ReadInv, Decided
<1> QED
  BY <1>3, <1>4, <1>5, <1>6, <1>7, <1>8, <1>9, <1>10 DEF Next, Run

\* What a call is said to have come to is what its output said, whatever becomes of
\* the child afterwards (invoker.py _read_stdout, classify_finish_reason).
THEOREM OutcomesAreRead == Spec => []OutcomeIsRead
<1>1. Init => ReadInv
  BY InvokerTypeInit DEF Init, ReadInv, KillInv, Decided, Plain
<1>2. ReadInv => OutcomeIsRead
  BY DEF ReadInv, Decided, OutcomeIsRead
<1> QED
  BY <1>1, <1>2, ReadStep, PTL DEF Spec
=============================================================================
