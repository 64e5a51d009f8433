------------------------------ MODULE Invoker ------------------------------
(***************************************************************************)
(* One call of the Claude CLI: a child process that writes lines to a      *)
(* pipe, the loop that reads them, the two timeouts, the kill sequence of  *)
(* three signals, and what the call is said to have come to.               *)
(*                                                                         *)
(* A line is known by what the parser makes of it.  The child owes nothing *)
(* but to die of SIGKILL: it may write for ever, hang, ignore the other    *)
(* signals or answer them with a last line.  The processes that it starts  *)
(* itself are left out.                                                    *)
(***************************************************************************)
EXTENDS Naturals, Sequences

CONSTANTS
  PipeSize,    \* lines that fit into the pipe before the child has to wait
  MaxCancels   \* bound: cancellations of the call

ASSUME InvokerAssumption == PipeSize \in Nat /\ MaxCancels \in Nat

\* ClaudeStreamEvent: is_rate_limit, is_error, is_result.
Event == [limit : BOOLEAN, error : BOOLEAN, result : BOOLEAN]

\* An event of no consequence, or a line that is no event.
Plain == [limit |-> FALSE, error |-> FALSE, result |-> FALSE]

VARIABLES
  at,        \* reading, a phase of _kill_proc_tree, waiting for the code, or ended
  final,     \* the call is in its finally block
  pipe,
  decisive,  \* the event that ended the reading, if one did
  hit_error, \* of the parser
  rate_limit_hit,
  finish,
  child,     \* "alive", "dying" of SIGKILL, or how it ended
  cancels,
  result     \* finish_reason of the LLMResult

vars == <<at, final, pipe, decisive, hit_error, rate_limit_hit, finish, child,
          cancels, result>>

Codes == {"ok", "failed", "interrupted"}

Reasons == {"stop", "rate_limit", "timeout", "error", "killed"}

TypeOK ==
  /\ at \in {"read", "sigint", "sigterm", "sigkill", "wait", "ended"}
  /\ final \in BOOLEAN
  /\ pipe \in Seq(Event)
  /\ decisive \in Event
  /\ hit_error \in BOOLEAN
  /\ rate_limit_hit \in BOOLEAN
  /\ finish \in Reasons
  /\ child \in {"alive", "dying"} \union Codes
  /\ cancels \in 0..MaxCancels
  /\ result \in {"none"} \union Reasons

\* The child has just been started.
Init ==
  /\ at = "read"
  /\ final = FALSE
  /\ pipe = <<>>
  /\ decisive = Plain
  /\ hit_error = FALSE
  /\ rate_limit_hit = FALSE
  /\ finish = "error"
  /\ child = "alive"
  /\ cancels = 0
  /\ result = "none"

Exited == child \in Codes

UnchangedChild == UNCHANGED <<child, cancels>>

UnchangedParser == UNCHANGED <<decisive, hit_error, rate_limit_hit>>

-----------------------------------------------------------------------------
\* The child

Writes(e) ==
  /\ child = "alive"
  /\ Len(pipe) < PipeSize
  /\ pipe' = Append(pipe, e)
  /\ UnchangedParser
  /\ UNCHANGED <<at, final, finish, child, cancels, result>>

\* Of itself, of a signal that it was sent here, or of one from elsewhere.
Exits(code) ==
  /\ child = "alive" \/ (child = "dying" /\ code = "interrupted")
  /\ child' = code
  /\ UnchangedParser
  /\ UNCHANGED <<at, final, pipe, finish, cancels, result>>

-----------------------------------------------------------------------------
\* Reading

\* What comes after the reading: a child that has not exited is sent SIGINT.
LeavesReading(reason) ==
  /\ finish' = reason
  /\ at' = IF Exited THEN "wait" ELSE "sigint"

\* feed_line, and what _read_stdout does with the event.  A rate limit goes before
\* a result, and an error of earlier on makes an error of any result.
ReadLine ==
  /\ at = "read"
  /\ pipe # <<>>
  /\ pipe' = Tail(pipe)
  /\ LET e == Head(pipe) IN
       /\ hit_error' = (hit_error \/ e.error)
       /\ rate_limit_hit' = (rate_limit_hit \/ e.limit)
       /\ IF e.limit \/ e.result
          THEN /\ decisive' = e
               /\ LeavesReading(IF e.limit THEN "rate_limit"
                                ELSE IF hit_error' THEN "error" ELSE "stop")
          ELSE UNCHANGED <<at, decisive, finish>>
  /\ UnchangedChild
  /\ UNCHANGED <<final, result>>

OutputEnds ==
  /\ at = "read"
  /\ pipe = <<>>
  /\ Exited
  /\ LeavesReading(finish)
  /\ UnchangedChild
  /\ UnchangedParser
  /\ UNCHANGED <<final, pipe, result>>

\* cli_no_event_timeout_s without a line.
NoEventTimeout ==
  /\ at = "read"
  /\ pipe = <<>>
  /\ ~Exited
  /\ LeavesReading("timeout")
  /\ UnchangedChild
  /\ UnchangedParser
  /\ UNCHANGED <<final, pipe, result>>

\* Faulty: the wall clock is looked at when there is nothing to read.
WallTimeoutInGaps ==
  /\ at = "read"
  /\ pipe = <<>>
  /\ LeavesReading("timeout")
  /\ UnchangedChild
  /\ UnchangedParser
  /\ UNCHANGED <<final, pipe, result>>

\* cli_wall_clock_timeout_s since the start.  What is in the pipe, or comes as the
\* answer to SIGINT, is never read.
WallTimeout ==
  /\ at = "read"
  /\ LeavesReading("timeout")
  /\ UnchangedChild
  /\ UnchangedParser
  /\ UNCHANGED <<final, pipe, result>>

-----------------------------------------------------------------------------
\* _kill_proc_tree

Killing == at \in {"sigint", "sigterm", "sigkill"}

AfterKill == IF final THEN "ended" ELSE "wait"

ChildIsGone ==
  /\ Killing
  /\ Exited
  /\ at' = AfterKill
  /\ UnchangedChild
  /\ UnchangedParser
  /\ UNCHANGED <<final, pipe, finish, result>>

\* The grace of a phase is over: on to the next signal.
Escalates ==
  /\ Killing
  /\ ~Exited
  /\ at' = IF at = "sigint" THEN "sigterm"
           ELSE IF at = "sigterm" THEN "sigkill" ELSE AfterKill
  /\ child' = IF at = "sigterm" THEN "dying" ELSE child
  /\ UnchangedParser
  /\ UNCHANGED <<final, pipe, finish, cancels, result>>

-----------------------------------------------------------------------------
\* What the call came to

\* Faulty: the code of the child goes before what was read.
ClassifiedByCode(code) ==
  IF code = "ok" THEN finish
  ELSE IF code = "interrupted" THEN "killed"
  ELSE finish

\* classify_finish_reason
Classified(code) ==
  IF finish # "error" \/ code = "ok" THEN finish
  ELSE IF rate_limit_hit THEN "rate_limit"
  ELSE IF code = "interrupted" THEN "killed"
  ELSE "error"

\* A child that is still not gone after another five seconds has a code that is
\* none; the finally block goes after it once more.
Returns ==
  /\ at = "wait"
  /\ result' = Classified(IF Exited THEN child ELSE "failed")
  /\ final' = TRUE
  /\ at' = IF Exited THEN "ended" ELSE "sigint"
  /\ UnchangedChild
  /\ UnchangedParser
  /\ UNCHANGED <<pipe, finish>>

\* Faulty: a call that is canceled leaves its child alone.
LeavesToFinallyAtOnce ==
  /\ result' = "none"
  /\ final' = TRUE
  /\ at' = "ended"

\* An exception on its way through the finally block.
LeavesToFinally ==
  /\ result' = "none"
  /\ final' = TRUE
  /\ at' = IF Exited \/ final THEN "ended" ELSE "sigint"

\* By the cancel watch, the worker's own timeout, or the drain.  The second one may
\* meet the finally block at its kill, which it ends.
Canceled ==
  /\ at # "ended"
  /\ cancels < MaxCancels
  /\ cancels' = cancels + 1
  /\ LeavesToFinally
  /\ UnchangedParser
  /\ UNCHANGED <<pipe, finish, child>>

ReadingRaises ==
  /\ at = "read"
  /\ LeavesToFinally
  /\ UnchangedChild
  /\ UnchangedParser
  /\ UNCHANGED <<pipe, finish>>

-----------------------------------------------------------------------------
Run ==
  \/ ReadLine \/ OutputEnds \/ NoEventTimeout \/ WallTimeout
  \/ ChildIsGone \/ Escalates
  \/ Returns

Next ==
  \/ Run
  \/ \E e \in Event : Writes(e)
  \/ \E code \in Codes : Exits(code)
  \/ Canceled
  \/ ReadingRaises

Spec == Init /\ [][Next]_vars

\* The loop goes on and timers come to their end, also while lines keep coming.
Fairness == WF_vars(Run) /\ WF_vars(WallTimeout)

FairSpec == Spec /\ Fairness

-----------------------------------------------------------------------------
\* No call ends with its child left running: it has exited or was sent SIGKILL,
\* whatever it makes of the gentler signals, and when the call was canceled or
\* raised as well.  Only a cancellation that meets the finally block at its kill
\* may cut that short (invoker.py run, its finally block, _kill_proc_tree).
NoOrphan ==
  [][at # "ended" /\ at' = "ended" =>
       child' # "alive" \/ (final /\ cancels' # cancels)]_vars

\* A call that returns has come to what its output said, though the child is killed
\* as soon as that was read and may then exit with any code: an answer stays one,
\* a rate limit too, neither is made up when time ran out, and a call is only called
\* interrupted when the child was (invoker.py _read_stdout, classify_finish_reason).
OutcomeIsRead ==
  at = "ended" /\ result # "none" =>
    /\ result = "stop" <=> decisive.result /\ ~decisive.limit /\ ~hit_error
    /\ result = "rate_limit" <=> decisive.limit
    /\ result = "killed" => child = "interrupted"

\* A call ends, though the child may hang, write for ever or ignore signals
\* (invoker.py run, _iter_stdout_lines, _kill_proc_tree).
CallEnds == <>(at = "ended")
=============================================================================
