----------------------------- MODULE ModelCalls -----------------------------
(***************************************************************************)
(* How a harness asks the frozen solver.  Each thread runs one harness; it *)
(* numbers its repetitions of a prompt (harness_base.py), looks the sample *)
(* up in the process's cache (src/ase/solver_cache.py) and on a miss calls *)
(* the model: "pooled" through LLM._complete (src/ase/llm.py; text_to_sql) *)
(* with a permit, a shared worker pool and a hard timeout, or "direct"     *)
(* through the client (lcb_bridge.py, ds1000_bridge.py), which gives up    *)
(* with an empty reply.                                                    *)
(*                                                                         *)
(* A cache is a dictionary in memory and, written whole through a          *)
(* temporary file, one file on disk for all processes.  Every call of the  *)
(* model draws a new reply.  The number of requests is bounded.            *)
(***************************************************************************)
EXTENDS Integers, Sequences, FiniteSets

CONSTANTS
  Deployments,   \* how calls are made, the process of each thread, and a bound on
                 \* how often a process is started
  Prompt,
  Permits,       \* ASE_MAX_CONCURRENCY
  Workers,       \* size of _CALL_POOL
  Retries,       \* of LLM._complete
  MaxRequests    \* bound on the requests of a harness

ASSUME CallsAssumption ==
  /\ {Permits, Workers, Retries, MaxRequests} \subseteq Nat
  /\ \A d \in Deployments :
       d.lives \in Nat /\ IsFiniteSet(DOMAIN d.home) /\ 0 \notin DOMAIN d.home

VARIABLES
  deployment,
  life,          \* of each process
  pc, prompt, sample, attempt, value,   \* a thread's request
  fd,            \* the inode a thread writes
  count,         \* _call_seq: how often a harness has asked a prompt
  permits,       \* the free permits of a process
  queue, running,   \* its calls: waiting for a worker, and on one
  drawn,         \* the number of replies drawn from the model
  data,          \* the dictionary of a process, Unloaded at first
  lock,          \* the thread that holds the lock of a process, or 0
  tmp, file,     \* the inodes under the two names, 0 if there is none
  inode,         \* what is in them
  answers,       \* what harnesses were answered
  raced          \* samples asked for again while a first call was under way

request == <<pc, prompt, sample, attempt, value, fd>>
pool == <<permits, queue, running>>
disk == <<tmp, file, inode>>
vars == <<deployment, life, request, count, pool, drawn, data, lock, disk, answers, raced>>

Thread == DOMAIN deployment.home
Process == {deployment.home[t] : t \in Thread}
Of(t) == deployment.home[t]

Empty == {}      \* a dictionary is a set of keys with their values
Whole(d) == [state |-> "whole", entries |-> d]
Unloaded == [state |-> "unloaded", entries |-> Empty]
Truncated == [state |-> "truncated", entries |-> Empty]  \* opened for writing
HalfWritten == [state |-> "half", entries |-> Empty]     \* by overlapping writers
NoReply == 0                   \* the empty string

\* One more than the threads that can hold one open.
Inode == 1..(Cardinality(Thread) + 1)

-----------------------------------------------------------------------------
(* Asking *)

\* Mutant of KeyOf: the sample is left out.
KeyOfPrompt(x, n) == <<x, 0>>

\* Everything that changes what is asked or which sample of the answer is wanted.
KeyOf(x, n) == <<x, n>>
Key(t) == KeyOf(prompt[t], sample[t])

\* An absent or corrupt file is an empty cache.
Stored == Whole(IF file = 0 THEN Empty ELSE inode[file].entries)
Loaded(p) == IF data[p] = Unloaded THEN Stored ELSE data[p]

Lookup(d, k) == {e[2] : e \in {x \in d : x[1] = k}}
With(d, k, v) == {e \in d : e[1] # k} \cup {<<k, v>>}

Answer(t, x, n, v) ==
  answers' = answers \cup
    {[process |-> Of(t), life |-> life[Of(t)], prompt |-> x, sample |-> n, value |-> v]}

\* What the process of t knows of its next sample of x, and who in it is asking
\* for that sample already.
Hits(t, x) == Lookup(Loaded(Of(t)).entries, KeyOf(x, count[t][x]))
Asking(t, x) ==
  {u \in Thread \ {t} : Of(u) = Of(t) /\ pc[u] # "idle"
                        /\ prompt[u] = x /\ sample[u] = count[t][x]}

\* A harness asks, and is answered at once if its process knows the sample.
AskFor(t, x) ==
  /\ pc[t] = "idle" /\ count[t][x] < MaxRequests
  /\ count' = [count EXCEPT ![t][x] = @ + 1]
  /\ data' = [data EXCEPT ![Of(t)] = Loaded(Of(t))]
  /\ raced' = raced \cup {<<Of(u), x, count[t][x]>> : u \in Asking(t, x)}
  /\ IF Hits(t, x) # {}
     THEN Answer(t, x, count[t][x], CHOOSE v \in Hits(t, x) : TRUE) /\ UNCHANGED request
     ELSE /\ pc' = [pc EXCEPT ![t] = "call"]
          /\ prompt' = [prompt EXCEPT ![t] = x]
          /\ sample' = [sample EXCEPT ![t] = count[t][x]]
          /\ attempt' = [attempt EXCEPT ![t] = 0]
          /\ UNCHANGED <<value, fd, answers>>
  /\ UNCHANGED <<deployment, life, pool, drawn, lock, disk>>

Ask(t) == \E x \in Prompt : AskFor(t, x)

-----------------------------------------------------------------------------
(* A pooled call *)

\* Take a permit and hand the call to the pool.
Submit(t) ==
  /\ deployment.calls = "pooled" /\ pc[t] = "call" /\ permits[Of(t)] > 0
  /\ permits' = [permits EXCEPT ![Of(t)] = @ - 1]
  /\ queue' = [queue EXCEPT ![Of(t)] = Append(@, <<t, count[t], attempt[t]>>)]
  /\ pc' = [pc EXCEPT ![t] = "wait"]
  /\ UNCHANGED <<deployment, life, prompt, sample, attempt, value, fd, count, running, drawn, data,
                 lock, disk, answers, raced>>

\* A free worker takes the next call, also one nobody waits for any more.
StartCall(p) ==
  /\ queue[p] # <<>> /\ Cardinality(running[p]) < Workers
  /\ running' = [running EXCEPT ![p] = @ \cup {Head(queue[p])}]
  /\ queue' = [queue EXCEPT ![p] = Tail(@)]
  /\ UNCHANGED <<deployment, life, request, count, permits, drawn, data, lock, disk, answers, raced>>

Draw(t) == value' = [value EXCEPT ![t] = drawn + 1] /\ drawn' = drawn + 1
Awaited(c) == pc[c[1]] = "wait" /\ c = <<c[1], count[c[1]], attempt[c[1]]>>

\* A call comes back: with a reply, with an error, or to nobody.  It need not.
Return(p, c) ==
  /\ running' = [running EXCEPT ![p] = @ \ {c}]
  /\ IF ~Awaited(c) THEN UNCHANGED <<pc, value, drawn, permits>>
     ELSE \/ /\ pc' = [pc EXCEPT ![c[1]] = "store"] /\ Draw(c[1])
             /\ permits' = [permits EXCEPT ![p] = @ + 1]
          \/ pc' = [pc EXCEPT ![c[1]] = "backoff"] /\ UNCHANGED <<value, drawn, permits>>
  /\ UNCHANGED <<deployment, life, prompt, sample, attempt, fd, count, queue, data, lock, disk,
                 answers, raced>>

EndCall(p) == \E c \in running[p] : Return(p, c)

\* The hard timeout abandons a call, wherever it is.
Expire(t) ==
  /\ pc[t] = "wait"
  /\ pc' = [pc EXCEPT ![t] = "backoff"]
  /\ UNCHANGED <<deployment, life, prompt, sample, attempt, value, fd, count, pool, drawn, data,
                 lock, disk, answers, raced>>

\* Mutant of Released: the permit is kept while the abandoned call may run.
ReleasedUnlessHung(t) ==
  IF <<t, count[t], attempt[t]>> \in running[Of(t)] THEN permits
  ELSE [permits EXCEPT ![Of(t)] = @ + 1]

\* "ALWAYS free the permit, even on a hung/abandoned call".
Released(t) == [permits EXCEPT ![Of(t)] = @ + 1]

\* After a pause with the permit in hand: again, or raise to the harness.
Backoff(t) ==
  /\ pc[t] = "backoff"
  /\ permits' = Released(t)
  /\ attempt' = [attempt EXCEPT ![t] = @ + 1]
  /\ pc' = [pc EXCEPT ![t] = IF attempt[t] < Retries THEN "call" ELSE "idle"]
  /\ UNCHANGED <<deployment, life, prompt, sample, value, fd, count, queue, running, drawn, data,
                 lock, disk, answers, raced>>

(* A direct call: two tries, then the empty reply *)

CallDirect(t) ==
  /\ deployment.calls = "direct" /\ pc[t] = "call"
  /\ \/ pc' = [pc EXCEPT ![t] = "store"] /\ Draw(t) /\ UNCHANGED attempt
     \/ /\ attempt' = [attempt EXCEPT ![t] = @ + 1] /\ UNCHANGED drawn
        /\ IF attempt[t] = 0 THEN UNCHANGED <<pc, value>>
           ELSE pc' = [pc EXCEPT ![t] = "store"] /\ value' = [value EXCEPT ![t] = NoReply]
  /\ UNCHANGED <<deployment, life, prompt, sample, fd, count, pool, data, lock, disk, answers, raced>>

-----------------------------------------------------------------------------
(* Storing *)

Open(t, i) == pc[t] = "dump" /\ fd[t] = i

Temporary ==
  IF tmp # 0 THEN tmp ELSE CHOOSE i \in Inode : i # file /\ \A u \in Thread : ~Open(u, i)

\* Under the lock, the reply enters the dictionary, and the temporary file is
\* opened and emptied; it may be a file another process is writing.
Store(t) ==
  /\ pc[t] = "store" /\ lock[Of(t)] = 0
  /\ lock' = [lock EXCEPT ![Of(t)] = t]
  /\ data' = [data EXCEPT ![Of(t)] = Whole(With(@.entries, Key(t), value[t]))]
  /\ tmp' = Temporary /\ fd' = [fd EXCEPT ![t] = Temporary]
  /\ inode' = [inode EXCEPT ![Temporary] = Truncated]
  /\ pc' = [pc EXCEPT ![t] = "dump"]
  /\ UNCHANGED <<deployment, life, prompt, sample, attempt, value, count, pool, drawn, file,
                 answers, raced>>

\* The dictionary is written; writers that overlap may spoil the file.
Dump(t) ==
  /\ pc[t] = "dump"
  /\ \/ inode' = [inode EXCEPT ![fd[t]] = data[Of(t)]]
     \/ /\ inode[fd[t]] # Truncated \/ \E u \in Thread \ {t} : Open(u, fd[t])
        /\ inode' = [inode EXCEPT ![fd[t]] = HalfWritten]
  /\ pc' = [pc EXCEPT ![t] = "replace"]
  /\ UNCHANGED <<deployment, life, prompt, sample, attempt, value, fd, count, pool, drawn, data,
                 lock, tmp, file, answers, raced>>

\* What is under the temporary name becomes the cache; "a cache that cannot
\* persist must not break the run".  The lock goes and the harness is answered.
Replace(t) ==
  /\ pc[t] = "replace"
  /\ IF tmp # 0 THEN file' = tmp /\ tmp' = 0 ELSE UNCHANGED <<file, tmp>>
  /\ lock' = [lock EXCEPT ![Of(t)] = 0]
  /\ Answer(t, prompt[t], sample[t], value[t])
  /\ pc' = [pc EXCEPT ![t] = "idle"]
  /\ UNCHANGED <<deployment, life, prompt, sample, attempt, value, fd, count, pool, drawn, data,
                 inode, raced>>

-----------------------------------------------------------------------------
(* The end of a process *)

Reset(f, p, v) == [t \in Thread |-> IF Of(t) = p THEN v ELSE f[t]]

\* A process dies anywhere, killed with its group when a solve takes too long,
\* and another takes its place with nothing but the files.
Restart(p) ==
  /\ life[p] < deployment.lives
  /\ life' = [life EXCEPT ![p] = @ + 1]
  /\ pc' = Reset(pc, p, "idle")
  /\ prompt' = Reset(prompt, p, 0) /\ sample' = Reset(sample, p, 0)
  /\ attempt' = Reset(attempt, p, 0) /\ value' = Reset(value, p, NoReply)
  /\ fd' = Reset(fd, p, 0)
  /\ count' = Reset(count, p, [x \in Prompt |-> 0])
  /\ permits' = [permits EXCEPT ![p] = Permits]
  /\ queue' = [queue EXCEPT ![p] = <<>>]
  /\ running' = [running EXCEPT ![p] = {}]
  /\ data' = [data EXCEPT ![p] = Unloaded]
  /\ lock' = [lock EXCEPT ![p] = 0]
  /\ UNCHANGED <<deployment, drawn, disk, answers, raced>>

CallsInit ==
  /\ deployment \in Deployments
  /\ life = [p \in Process |-> 1]
  /\ pc = [t \in Thread |-> "idle"]
  /\ prompt = [t \in Thread |-> 0] /\ sample = [t \in Thread |-> 0]
  /\ attempt = [t \in Thread |-> 0] /\ value = [t \in Thread |-> NoReply]
  /\ fd = [t \in Thread |-> 0]
  /\ count = [t \in Thread |-> [x \in Prompt |-> 0]]
  /\ permits = [p \in Process |-> Permits]
  /\ queue = [p \in Process |-> <<>>] /\ running = [p \in Process |-> {}]
  /\ drawn = 0
  /\ data = [p \in Process |-> Unloaded] /\ lock = [p \in Process |-> 0]
  /\ tmp = 0 /\ file = 0 /\ inode = [i \in Inode |-> Truncated]
  /\ answers = {} /\ raced = {}

\* What a thread does of itself: the timeouts make it come to an end.
Proceed(t) ==
  \/ Submit(t) \/ Expire(t) \/ Backoff(t) \/ CallDirect(t)
  \/ Store(t) \/ Dump(t) \/ Replace(t)

CallsNext ==
  \/ \E t \in Thread : Ask(t) \/ Proceed(t)
  \/ \E p \in Process : StartCall(p) \/ EndCall(p) \/ Restart(p)

\* The endpoint owes nothing: no fairness of StartCall and EndCall.
CallsSpec ==
  /\ CallsInit /\ [][CallsNext]_vars
  /\ \A t \in UNION {DOMAIN d.home : d \in Deployments} : WF_vars(t \in Thread /\ Proceed(t))

-----------------------------------------------------------------------------
(* Properties *)

\* A request comes to an end, with an answer or an error, whatever the endpoint
\* does: calls that hang for ever, fill the workers and wait in the queue take
\* no permit with them (llm.py: "a single hung socket can't pin a semaphore
\* permit forever and freeze the whole run").
EveryCallEnds ==
  \A t \in UNION {DOMAIN d.home : d \in Deployments} :
    (t \in Thread /\ pc[t] # "idle") ~> (pc[t] = "idle")

\* Answers a process gave, and gave again after a restart if it is alone with
\* the file.
Comparable(a, b) ==
  a.process = b.process /\ (a.life = b.life \/ Cardinality(Process) = 1)

\* Unless two threads asked for it at once, one sample of a prompt has one
\* answer, before and after a crash in the middle of a write; and two samples
\* never share one, so that a vote is a vote.
AnswersAgree ==
  \A a \in answers, b \in answers :
    (Comparable(a, b) /\ a.prompt = b.prompt
     /\ \A r \in {a, b} : <<r.process, r.prompt, r.sample>> \notin raced) =>
      /\ (a.sample = b.sample => a.value = b.value)
      /\ (a.sample # b.sample => a.value # b.value \/ a.value = NoReply)

\* What solver_cache.py promises of os.replace: nobody ever finds a half-written
\* cache.  It does not hold: processes share the temporary file.
WholeFile == file # 0 => inode[file].state = "whole"

\* What solver_cache.py promises of its cache: harnesses that ask the same thing
\* get the same answer.  It does not hold of requests that overlap.
OneAnswer ==
  \A a \in answers, b \in answers :
    (a.prompt = b.prompt /\ a.sample = b.sample) => a.value = b.value
=============================================================================
