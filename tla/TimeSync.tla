------------------------------- MODULE TimeSync -------------------------------
(***************************************************************************)
(* Client::syncTime() and the TIME_RES it waits for. The calls follow one  *)
(* another in one thread; responses are handled by threads of their own.   *)
(* m_mutex only guards single assignments here, so each step below that    *)
(* touches the shared state is one critical section. A response may be     *)
(* handled after its call has given up: its thread may be held up, not     *)
(* least by m_mutex while the timer thread renews subscriptions.           *)
(***************************************************************************)
EXTENDS Integers, FiniteSets

CONSTANT MaxCalls   \* bound: how often syncTime() is called

ASSUME CallAssumption == MaxCalls \in Nat \ {0}

VARIABLES
  ongoing,   \* m_timeSyncOngoing
  promise,   \* m_timeSyncPromise: "fresh", "waited" for, or its value
  failed,    \* an uncaught std::future_error ended the program
  pc,        \* where the caller is
  call,      \* the number of its call
  result,    \* what the last call that returned returned
  answers,   \* the calls whose response reached the client, to be handled
  clock,     \* the call whose response set the clock last, 0 for none
  late       \* history: since the last call began, an earlier one's response was handled

vars == <<ongoing, promise, failed, pc, call, result, answers, clock, late>>

Valued == {"true", "false"}

\* The future is retrieved exactly while a synchronization is going on.
TypeOK ==
  /\ ongoing \in BOOLEAN
  /\ promise \in IF ongoing THEN {"waited"} \cup Valued ELSE {"fresh"}
  /\ failed \in BOOLEAN
  /\ pc \in {"idle", "send", "wait", "cleanup"}
  /\ call \in 0..MaxCalls
  /\ result \in BOOLEAN
  /\ answers \subseteq 1..call
  /\ clock \in 0..call
  /\ late \in BOOLEAN

Init ==
  /\ ongoing = FALSE /\ promise = "fresh" /\ failed = FALSE
  /\ pc = "idle" /\ call = 0 /\ result = FALSE
  /\ answers = {} /\ clock = 0 /\ late = FALSE
------------------------------------------------------------------------------
(* syncTime() *)

Begin ==
  /\ pc = "idle" /\ call < MaxCalls
  /\ pc' = "send" /\ call' = call + 1
  /\ ongoing' = TRUE
  /\ IF promise = "fresh" THEN promise' = "waited" /\ UNCHANGED failed
     ELSE failed' = TRUE /\ UNCHANGED promise
  /\ late' = FALSE
  /\ UNCHANGED <<result, answers, clock>>

\* The bridge answers a request that reaches it, and the answer may get lost.
\* Without an acknowledgement the call fails, whether the request got there or not.
Send ==
  /\ pc = "send"
  /\ \E answered, delivered \in BOOLEAN :
       /\ answers' = IF answered THEN answers \cup {call} ELSE answers
       /\ pc' = IF delivered THEN "wait" ELSE "cleanup"
  /\ result' = FALSE
  /\ UNCHANGED <<ongoing, promise, failed, call, clock, late>>

\* Mutant: the wait has no timeout.
TimesOut_Never == FALSE

TimesOut ==
  /\ pc = "wait" /\ promise = "waited"
  /\ pc' = "cleanup" /\ result' = FALSE
  /\ UNCHANGED <<ongoing, promise, failed, call, answers, clock, late>>

Answered ==
  /\ pc = "wait" /\ promise \in Valued
  /\ pc' = "cleanup" /\ result' = (promise = "true")
  /\ UNCHANGED <<ongoing, promise, failed, call, answers, clock, late>>

\* Mutant: the promise is not replaced.
Cleanup_KeepsPromise ==
  /\ pc = "cleanup" /\ pc' = "idle"
  /\ ongoing' = FALSE
  /\ UNCHANGED <<promise, failed, call, result, answers, clock, late>>

\* Mutant: the call returns without cleaning up.
Cleanup_Forgotten ==
  /\ pc = "cleanup" /\ pc' = "idle"
  /\ UNCHANGED <<ongoing, promise, failed, call, result, answers, clock, late>>

Cleanup ==
  /\ pc = "cleanup" /\ pc' = "idle"
  /\ ongoing' = FALSE
  /\ promise' = "fresh"
  /\ UNCHANGED <<failed, call, result, answers, clock, late>>
------------------------------------------------------------------------------
(* processTimeRes() *)

\* Mutant: any TIME_RES sets the clock.
HandleTimeRes_Unsolicited(c) ==
  /\ answers' = answers \ {c}
  /\ late' = (late \/ c # call)
  /\ IF promise \in Valued THEN failed' = TRUE /\ UNCHANGED promise
     ELSE promise' = "true" /\ UNCHANGED failed
  /\ clock' = c
  /\ UNCHANGED <<ongoing, pc, call, result>>

\* Without a synchronization going on nothing happens. A time that is not one, or
\* that cannot be set, is an answer, too. A second answer before the cleanup, a late one
\* next to the call's own, makes set_value() throw, and nothing catches that.
HandleTimeRes(c) ==
  /\ answers' = answers \ {c}
  /\ late' = (late \/ c # call)
  /\ IF ~ongoing THEN UNCHANGED <<promise, failed, clock>>
     ELSE \E valid \in BOOLEAN :
            /\ clock' = IF valid THEN c ELSE clock
            /\ IF promise \in Valued THEN failed' = TRUE /\ UNCHANGED promise
               ELSE /\ promise' = IF valid THEN "true" ELSE "false"
                    /\ UNCHANGED failed
  /\ UNCHANGED <<ongoing, pc, call, result>>
------------------------------------------------------------------------------
Return == Send \/ TimesOut \/ Answered \/ Cleanup

Next == ~failed /\ (Begin \/ Return \/ \E c \in answers : HandleTimeRes(c))

Spec == Init /\ [][Next]_vars

\* The caller goes on, and its wait has a timeout.
FairSpec == Spec /\ WF_vars(~failed /\ Return)
------------------------------------------------------------------------------
(* Properties. *)

\* A call finds the state the way the first one did, whatever became of the calls
\* before it: get_future() does not throw, no response is waited for.
IdleIsClean == pc = "idle" => ~ongoing /\ promise = "fresh"

\* A response sets the clock only while the application wants it set.
ClockSetOnlyWhenAsked == [][clock' # clock => pc # "idle"]_vars

\* "true: synchronization successful, false: synchronization failed": syncTime() returns,
\* with or without a response of its own. What may keep it from returning is the response
\* of an earlier call: next to its own it ends the program.
CallReturns == pc # "idle" ~> pc = "idle" \/ late
==============================================================================
