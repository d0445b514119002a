---------------------------- MODULE TimeSyncProofs ----------------------------
(***************************************************************************)
(* Proofs about TimeSync for any number of calls.                          *)
(***************************************************************************)
EXTENDS TimeSync, TLAPS

USE CallAssumption

\* A synchronization is going on exactly while a call is: so the type of the
\* promise, which depends on the first, tells what the next call finds.
IInv ==
  /\ TypeOK
  /\ ongoing <=> pc # "idle"
  /\ pc # "idle" => call > 0

\* A call begins with a fresh promise and retrieves its future.
LEMMA BeginInv ==
  ASSUME IInv, Begin
  PROVE  IInv'
<1>1. ~ongoing /\ promise = "fresh"
  BY DEF IInv, TypeOK, Begin
<1>2. ongoing' /\ promise' = "waited" /\ failed' = failed /\ call' = call + 1
  BY <1>1 DEF Begin
<1>3. answers' \subseteq 1..call' /\ clock' \in 0..call' /\ call' \in 0..MaxCalls
  BY <1>2 DEF IInv, TypeOK, Begin
<1>4. late' \in BOOLEAN /\ result' \in BOOLEAN /\ failed' \in BOOLEAN
  BY <1>2 DEF IInv, TypeOK, Begin
<1>5. ongoing' \in BOOLEAN /\ pc' = "send" /\ promise' \in IF ongoing' THEN {"waited"} \cup Valued ELSE {"fresh"}
  BY <1>2 DEF IInv, TypeOK, Begin
<1>6. call' > 0
  BY <1>2 DEF IInv, TypeOK
<1> QED
  BY <1>2, <1>3, <1>4, <1>5, <1>6 DEF IInv, TypeOK

\* However a call goes on, the cleanup replaces the promise before it returns.
LEMMA ReturnInv ==
  ASSUME IInv, Return
  PROVE  IInv'
<1>1. CASE Send
  <2>1. answers' \subseteq 1..call
    BY <1>1 DEF IInv, TypeOK, Send
  <2> QED
    BY <1>1, <2>1 DEF IInv, TypeOK, Send
<1>2. CASE TimesOut
  BY <1>2 DEF IInv, TypeOK, TimesOut
<1>3. CASE Answered
  BY <1>3 DEF IInv, TypeOK, Answered
<1>4. CASE Cleanup
  BY <1>4 DEF IInv, TypeOK, Cleanup
<1> QED
  BY <1>1, <1>2, <1>3, <1>4 DEF Return

\* A response changes nothing between calls, and gives the promise a value in one.
LEMMA HandleTimeResInv ==
  ASSUME IInv, NEW c \in answers, HandleTimeRes(c)
  PROVE  IInv'
<1>1. c \in 0..call /\ answers' \subseteq 1..call
  BY DEF IInv, TypeOK, HandleTimeRes
<1>2. CASE ~ongoing
  BY <1>1, <1>2 DEF IInv, TypeOK, HandleTimeRes
<1>3. CASE ongoing
  <2>1. /\ promise' \in {"waited"} \cup Valued
        /\ clock' \in 0..call
        /\ failed' \in BOOLEAN
    BY <1>1, <1>3 DEF IInv, TypeOK, HandleTimeRes, Valued
  <2> QED
    BY <1>1, <1>3, <2>1 DEF IInv, TypeOK, HandleTimeRes
<1> QED
  BY <1>2, <1>3

\* The invariant of syncTime() and processTimeRes(): one case per action.
THEOREM InductiveInvariant == Spec => []IInv
<1>1. Init => IInv
  <2> SUFFICES ASSUME Init PROVE IInv
    OBVIOUS
  <2>1. call \in 0..MaxCalls /\ answers \subseteq 1..call /\ clock \in 0..call
    BY DEF Init
  <2>2. ~ongoing /\ promise = "fresh" /\ pc = "idle"
    BY DEF Init
  <2> QED
    BY <2>1, <2>2 DEF Init, IInv, TypeOK
<1>2. IInv /\ [Next]_vars => IInv'
  <2> SUFFICES ASSUME IInv, [Next]_vars PROVE IInv'
    OBVIOUS
  <2>1. CASE Next
    BY <2>1, BeginInv, ReturnInv, HandleTimeResInv DEF Next
  <2>2. CASE UNCHANGED vars
    BY <2>2 DEF vars, IInv, TypeOK
  <2> QED
    BY <2>1, <2>2
<1> QED
  BY <1>1, <1>2, PTL DEF Spec

\* The future of m_timeSyncPromise is retrieved exactly while a call is ongoing.
THEOREM TypeCorrect == Spec => []TypeOK
BY InductiveInvariant, PTL DEF IInv

\* Every call finds a clean state, so get_future() never throws in syncTime().
THEOREM CallsStartClean == Spec => []IdleIsClean
<1>1. IInv => IdleIsClean
  BY DEF IInv, TypeOK, IdleIsClean
<1> QED
  BY <1>1, InductiveInvariant, PTL

\* No response sets the clock between calls, late ones included.
THEOREM ClockOnlyWhenAsked == Spec => ClockSetOnlyWhenAsked
<1>1. IInv /\ [Next]_vars => [clock' # clock => pc # "idle"]_vars
  BY DEF IInv, TypeOK, Next, Begin, Return, Send, TimesOut, Answered, Cleanup, HandleTimeRes
<1> QED
  BY <1>1, InductiveInvariant, PTL DEF Spec, ClockSetOnlyWhenAsked
------------------------------------------------------------------------------
(* As long as no response is late, the promise gets one value per call.   *)

\* The response of the call that is ongoing has been handled once the promise has a
\* value, and is not there before the request is sent, if no other has been handled.
AnswerInv ==
  ~late =>
    /\ ~failed
    /\ pc = "send" => promise = "waited" /\ call \notin answers
    /\ ongoing /\ promise \in Valued => call \notin answers

\* Only the response of the ongoing call gives the promise a value, and goes with it.
LEMMA AnswerStep ==
  ASSUME IInv, AnswerInv, Next
  PROVE  AnswerInv'
<1> USE DEF AnswerInv, Valued
<1> ~failed
  BY DEF Next
<1>1. CASE Begin
  <2>1. ~ongoing /\ promise = "fresh" /\ answers \subseteq 1..call /\ call \in Nat
    BY <1>1 DEF IInv, TypeOK, Begin
  <2>2. call + 1 \notin answers
    BY <2>1
  <2> QED
    BY <1>1, <2>1, <2>2 DEF Begin
<1>2. CASE Send
  BY <1>2 DEF Send
<1>3. CASE TimesOut \/ Answered
  BY <1>3 DEF TimesOut, Answered
<1>4. CASE Cleanup
  BY <1>4 DEF Cleanup
<1>5. ASSUME NEW c \in answers, HandleTimeRes(c) PROVE AnswerInv'
  <2> SUFFICES ASSUME ~late' PROVE AnswerInv'
    OBVIOUS
  <2>1. /\ c = call /\ ~late
        /\ answers' = answers \ {call} /\ pc' = pc /\ ongoing' = ongoing /\ call' = call
    BY <1>5 DEF HandleTimeRes
  <2>2. ongoing => promise = "waited"
    BY <1>5, <2>1 DEF IInv, TypeOK
  <2>3. failed' = failed
    BY <1>5, <2>2 DEF HandleTimeRes
  <2>4. pc # "send"
    BY <1>5, <2>1
  <2> QED
    BY <2>1, <2>3, <2>4
<1> QED
  BY <1>1, <1>2, <1>3, <1>4, <1>5 DEF Next, Return

\* Only a call during which the response of an earlier one is handled may end the program:
\* its own response never throws by itself, nor does whatever became of the calls before.
THEOREM CallsDoNotFail == Spec => [](failed => late)
<1>1. Init => AnswerInv
  BY DEF Init, AnswerInv
<1>2. IInv /\ AnswerInv /\ [Next]_vars => AnswerInv'
  <2>1. UNCHANGED vars /\ AnswerInv => AnswerInv'
    BY DEF vars, AnswerInv
  <2> QED
    BY <2>1, AnswerStep
<1>3. AnswerInv => (failed => late)
  BY DEF AnswerInv
<1> QED
  BY <1>1, <1>2, <1>3, InductiveInvariant, PTL DEF Spec
==============================================================================
