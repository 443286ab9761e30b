--------------------------- MODULE ClaudeSession ---------------------------
(***************************************************************************)
(* One call of claude_wrapper.run (text_to_sql/claude_wrapper.py): the     *)
(* process of the agent, which works on the harness files and tells of it  *)
(* on its output; the thread that reads the output into a queue; and the   *)
(* caller, which takes lines from the queue until it finds the queue empty *)
(* and the process gone, or its time is up.                                *)
(*                                                                         *)
(* A command the agent has started is a process of its own: it may run on  *)
(* when its agent is gone, holds the same output, and no one kills it.     *)
(***************************************************************************)
EXTENDS Integers, Sequences, SequencesExt, FiniteSets

CONSTANTS
  Name,          \* the names of harness files
  MaxLines,      \* bound on the lines an agent writes
  MaxVersions,   \* bound on the versions of a file
  LateWrites     \* whether what a session leaves running goes on writing

VARIABLES
  session,       \* the call, the agent and what it has written to its output
  stray,         \* the iterations whose sessions left a writer behind
  code,          \* the version of each harness file, 0 if there is none
  pending        \* pending_eval.json

NoSession == [at |-> "off", agent |-> "off", command |-> FALSE, late |-> FALSE,
              lines |-> <<>>, queued |-> 0, taken |-> 0, exit |-> "-"]

NoPending == [state |-> "none", names |-> {}, by |-> 0]
Torn(it) == [state |-> "torn", names |-> {}, by |-> it]
Whole(it, names) == [state |-> "whole", names |-> names, by |-> it]

S(place) == session.at = place

-----------------------------------------------------------------------------
(* The agent and its commands.                                             *)

Up == session.agent = "up"
\* Those who write for an iteration: its agent, and what earlier ones left behind.
Writers(it) == stray \cup (IF Up THEN {it} ELSE {})

\* It says that it writes a file, then writes it.
Announce(editable) ==
  /\ Up
  /\ Len(session.lines) < MaxLines
  /\ \E n \in editable : session' = [session EXCEPT !.lines = Append(@, n)]
  /\ UNCHANGED <<stray, code, pending>>

WriteFile(it, editable) ==
  /\ Writers(it) # {}
  /\ \E n \in editable :
       /\ code[n] < MaxVersions
       /\ code' = [code EXCEPT ![n] = @ + 1]
  /\ UNCHANGED <<session, stray, pending>>

\* The list of candidates is a file like any other: it is opened, then filled,
\* and its writer may be killed in between.
OpenPending(it) ==
  /\ \E by \in Writers(it) : pending' = Torn(by)
  /\ UNCHANGED <<session, stray, code>>

FillPending(it, editable) ==
  /\ \E by \in Writers(it), names \in SUBSET editable :
       pending = Torn(by) /\ pending' = Whole(by, names)
  /\ UNCHANGED <<session, stray, code>>

CommandEnds ==
  /\ session.command
  /\ session' = [session EXCEPT !.command = FALSE]
  /\ UNCHANGED <<stray, code, pending>>

\* It may leave a command running.
AgentExits ==
  /\ Up
  /\ \E left \in BOOLEAN :
       session' = [session EXCEPT !.agent = "down", !.exit = "own", !.command = left]
  /\ UNCHANGED <<stray, code, pending>>

\* The caller is done with a session; what still runs of it is no
\* one's, and may write as long as it likes.
Leave(it) ==
  /\ session' = NoSession
  /\ stray' = IF LateWrites /\ (Up \/ session.command) THEN stray \cup {it} ELSE stray

-----------------------------------------------------------------------------
(* The call.                                                               *)

Open == [NoSession EXCEPT !.at = "loop", !.agent = "up"]

\* There is no program to start; the call goes on to its log all the same.
Missing == [NoSession EXCEPT !.at = "reap", !.agent = "down", !.exit = "missing"]

\* _enqueue_lines, the thread of the output.
Enqueue ==
  /\ session.queued < Len(session.lines)
  /\ session' = [session EXCEPT !.queued = @ + 1]
  /\ UNCHANGED <<stray, code, pending>>

TimePasses ==
  /\ session.at \in {"loop", "poll"} /\ ~session.late
  /\ session' = [session EXCEPT !.late = TRUE]
  /\ UNCHANGED <<stray, code, pending>>

\* The deadline comes first in the loop: the agent is killed, what is in the
\* queue stays there.
KillSession ==
  /\ S("loop") /\ session.late
  /\ \E left \in BOOLEAN :
       session' = [session EXCEPT !.at = "reap", !.agent = "down", !.exit = "killed",
                                  !.command = IF Up THEN left ELSE @]
  /\ UNCHANGED <<stray, code, pending>>

Take ==
  /\ S("loop") /\ ~session.late
  /\ session.taken < session.queued
  /\ session' = [session EXCEPT !.taken = @ + 1]
  /\ UNCHANGED <<stray, code, pending>>

FindEmpty ==
  /\ S("loop") /\ ~session.late
  /\ session.taken = session.queued
  /\ session' = [session EXCEPT !.at = "poll"]
  /\ UNCHANGED <<stray, code, pending>>

\* The queue was empty a moment ago; lines that came since are not looked for.
Poll ==
  /\ S("poll")
  /\ session' = [session EXCEPT !.at = IF Up THEN "loop" ELSE "reap"]
  /\ UNCHANGED <<stray, code, pending>>

\* Mutant: the call waits until its reader has seen the end of the output.
ReapAtEndOfOutput ==
  /\ S("reap") /\ ~Up
  /\ ~session.command /\ session.queued = Len(session.lines)
  /\ session' = [session EXCEPT !.at = "over"]
  /\ UNCHANGED <<stray, code, pending>>

\* The agent is waited for, its lines parsed and the session logged.
Reap ==
  /\ S("reap") /\ ~Up
  /\ session' = [session EXCEPT !.at = "over"]
  /\ UNCHANGED <<stray, code, pending>>

\* The files of the lines taken, and what the log says: how it ended, and those.
FilesWritten(lines) == {lines[i] : i \in DOMAIN lines}
Logged == [exit |-> session.exit,
           files |-> FilesWritten(SubSeq(session.lines, 1, session.taken))]

CallStep == KillSession \/ Take \/ FindEmpty \/ Poll \/ Reap

AgentStep(it, editable) ==
  \/ Announce(editable) \/ WriteFile(it, editable)
  \/ OpenPending(it) \/ FillPending(it, editable)
  \/ CommandEnds \/ AgentExits
=============================================================================
