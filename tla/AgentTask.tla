----------------------------- MODULE AgentTask -----------------------------
(***************************************************************************)
(* One run of a customer-service agent on a tau3 task: the harness loop    *)
(* (tau3_harness/harness.py) over the context that makes its calls         *)
(* (_ctxbudget_v2_patch/program_adapter.py), with the proxy that records   *)
(* what the model answered (capture_proxy.py).  Several tasks run at once. *)
(*                                                                         *)
(* A request passes through the proxy, which writes a line of its log      *)
(* before it answers.  What is kept of a run are the events of its log, of *)
(* which only those that tell how it failed are modelled; hurt and marred  *)
(* are not in the log, they say what really happened: some call failed on  *)
(* its way, under a name the study knows for that or under another one.    *)
(***************************************************************************)
EXTENDS Integers, Sequences, SequencesExt

CONSTANTS
  Task,
  MaxTurns,      \* the 50 steps of the harness
  Turns          \* the calls a model may ask for in one turn, a set of sequences

VARIABLES
  run,           \* what the process of a task is doing, and what it did
  request,       \* the request of a task at the proxy
  captured       \* the answers of the current runs in the log of the proxy: task, turn

\* "talk" is a message to the customer, "blank" an empty one, "tool" a call of
\* the environment.
Call == {"talk", "blank", "tool"}

ASSUME TurnsAreCalls == Turns \subseteq Seq(Call)

\* How a request fails.  Only the first is the model's own limit; an exception
\* on the way has one of the names of TRANSPORT in it, or not: ReadError,
\* WriteTimeout and PoolTimeout of the client are not among them, nor are
\* RateLimitError and Timeout of the customer's model.
HttpFailures == {"context", "http"}
Losses == {"transport", "unnamed"}
Failures == HttpFailures \cup Losses

NoRequest == "none"
NoRun == [at |-> "absent", turn |-> 0, calls |-> <<>>, ended |-> FALSE,
          goodbye |-> FALSE, hurt |-> FALSE, marred |-> FALSE, reported |-> FALSE,
          status |-> "none", events |-> <<>>]
Begun == [NoRun EXCEPT !.at = "model", !.turn = 1]

Event(type, error) == [type |-> type, error |-> error]

\* A call of run r has failed on its way.
Lost(r, error) ==
  [r EXCEPT !.hurt = @ \/ error \in {"http", "transport"}, !.marred = @ \/ error = "unnamed"]

\* How a run ends in code that raises: what the model or the customer's model
\* failed with, a reply or a call the harness cannot use, the deadline.
Raised(r, error) ==
  [r EXCEPT !.at = "grade", !.calls = <<>>, !.status = "error",
            !.events = Append(@, Event("agent_error", error))]

\* customer_ended and max_turns.
Finished(r, status) == [r EXCEPT !.at = "grade", !.calls = <<>>, !.status = status]

\* After a turn: the harness stops when the customer has gone, and blocks a
\* premature stop otherwise.
AfterTurn(r) ==
  IF r.ended THEN Finished(r, "customer_ended")
  ELSE IF r.turn = MaxTurns THEN Finished(r, "max_turns")
  ELSE [r EXCEPT !.at = "model", !.turn = @ + 1]

-----------------------------------------------------------------------------
(* The context asks the model.                                             *)

CallModel(t) ==
  /\ run[t].at = "model"
  /\ request[t] = NoRequest
  /\ run' = [run EXCEPT ![t].at = "asked"]
  /\ request' = [request EXCEPT ![t] = "sent"]
  /\ UNCHANGED captured

\* Mutant: the proxy passes the reply on, and writes its record once it is read.
RelayFirst(t) ==
  /\ \/ /\ request[t] = "sent"
        /\ \E f \in HttpFailures \cup {"answered"} : request' = [request EXCEPT ![t] = f]
        /\ UNCHANGED captured
     \/ /\ run[t].at = "call"
        /\ captured' = captured \cup {<<t, run[t].turn>>}
        /\ UNCHANGED request
  /\ UNCHANGED run

\* The proxy has the reply of the server: it writes the record, then answers.
\* A turn too many for the model's context is refused by the server.
Relay(t) ==
  /\ request[t] = "sent"
  /\ \/ /\ captured' = captured \cup {<<t, run[t].turn>>}
        /\ request' = [request EXCEPT ![t] = "answered"]
     \/ /\ \E f \in HttpFailures : request' = [request EXCEPT ![t] = f]
        /\ UNCHANGED captured
  /\ UNCHANGED run

\* The connection or the proxy dies, or the client has waited long enough.
Disconnect(t) ==
  /\ request[t] \in {"sent", "answered"}
  /\ \E loss \in Losses : request' = [request EXCEPT ![t] = loss]
  /\ UNCHANGED <<run, captured>>

\* model_error is logged and the exception goes through the harness.
ModelFails(t) ==
  /\ run[t].at = "asked"
  /\ request[t] \in Failures
  /\ LET logged == [Lost(run[t], request[t]) EXCEPT
                       !.events = Append(@, Event("model_error", request[t]))]
         seen == IF request[t] = "context" THEN "http" ELSE request[t]
     IN  run' = [run EXCEPT ![t] = Raised(logged, seen)]
  /\ request' = [request EXCEPT ![t] = NoRequest]
  /\ UNCHANGED captured

\* A reply that can be used, or one without choices or with arguments that do
\* not parse.
ModelAnswers(t) ==
  /\ run[t].at = "asked"
  /\ request[t] = "answered"
  /\ \/ \E calls \in Turns :
          run' = [run EXCEPT ![t] =
                    IF calls = <<>> THEN AfterTurn(@)
                    ELSE [@ EXCEPT !.at = "call", !.calls = calls]]
     \/ run' = [run EXCEPT ![t] = Raised(@, "program")]
  /\ request' = [request EXCEPT ![t] = NoRequest]
  /\ UNCHANGED captured

-----------------------------------------------------------------------------
(* execute_tool, one call after the other.                                 *)

\* An empty message is an error of the program.
StartCall(t) ==
  /\ run[t].at = "call"
  /\ run' = [run EXCEPT ![t] =
               IF Head(@.calls) = "blank" THEN Raised(@, "program")
               ELSE [@ EXCEPT !.at = Head(run[t].calls)]]
  /\ UNCHANGED <<request, captured>>

Answered(r) ==
  IF Len(r.calls) = 1 THEN AfterTurn([r EXCEPT !.calls = <<>>])
  ELSE [r EXCEPT !.at = "call", !.calls = Tail(@)]

\* The reply of the customer says whether the conversation is over; each reply
\* overwrites what the last one said.
CustomerReplies(t) ==
  /\ run[t].at = "talk"
  /\ \E ended \in BOOLEAN :
       run' = [run EXCEPT ![t] =
                 Answered([run[t] EXCEPT !.ended = ended, !.goodbye = @ \/ ended])]
  /\ UNCHANGED <<request, captured>>

\* The simulated customer's own model fails: logged, and raised.
CustomerFails(t) ==
  /\ run[t].at = "talk"
  /\ \E loss \in Losses :
       LET logged == [Lost(run[t], loss) EXCEPT !.events = Append(@, Event("observation", loss))]
       IN  run' = [run EXCEPT ![t] = Raised(logged, loss)]
  /\ UNCHANGED <<request, captured>>

\* An error of the environment is an observation like any other: the agent goes on.
\* One without a name of TRANSPORT is not told from those of the domain.
ToolReturns(t) ==
  /\ run[t].at = "tool"
  /\ \E error \in {"none", "domain", "transport"} :
       run' = [run EXCEPT ![t] =
                 Answered([Lost(run[t], error) EXCEPT
                   !.events = IF error = "none" THEN @
                              ELSE Append(@, Event("observation", error))])]
  /\ UNCHANGED <<request, captured>>

\* The deadline of the task cancels whatever it awaits; nothing is logged of what
\* is cut off, and a call of the environment goes on, on its thread.
TimeOut(t) ==
  /\ run[t].at \in {"asked", "talk", "tool"}
  /\ run' = [run EXCEPT ![t] = Raised(@, "timeout")]
  /\ request' = [request EXCEPT ![t] = NoRequest]
  /\ UNCHANGED captured

-----------------------------------------------------------------------------
\* However a run ended its trajectory is graded; the grader may raise, and then
\* there is no grading event.  The runner, which is not of this repository, writes
\* the record of the run and may report an error of its own in it.
Over(r, reported) == [r EXCEPT !.at = "over", !.reported = reported]
WithGrading(r) == [r EXCEPT !.events = Append(@, Event("grading", "none"))]

Grade(t) ==
  /\ run[t].at = "grade"
  /\ \E reported \in BOOLEAN :
       run' = [run EXCEPT ![t] = WithGrading(Over(@, reported))]
  /\ UNCHANGED <<request, captured>>

GraderRaises(t) ==
  /\ run[t].at = "grade"
  /\ \E reported \in BOOLEAN : run' = [run EXCEPT ![t] = Over(@, reported)]
  /\ UNCHANGED <<request, captured>>

RunTask(t) ==
  \/ CallModel(t) \/ Relay(t) \/ ModelFails(t) \/ ModelAnswers(t) \/ StartCall(t)
  \/ CustomerReplies(t) \/ CustomerFails(t) \/ ToolReturns(t) \/ TimeOut(t)
  \/ Grade(t) \/ GraderRaises(t)

TaskInit ==
  /\ run = [t \in Task |-> NoRun]
  /\ request = [t \in Task |-> NoRequest]
  /\ captured = {}

=============================================================================
