-------------------------- MODULE ModelCallsProofs --------------------------
(***************************************************************************)
(* Safety of ModelCalls for every deployment, number of permits, workers,  *)
(* retries and requests: how the answers of a harness, the dictionary of   *)
(* its process and the cache file hang together, so that samples agree     *)
(* with themselves and differ from each other.                             *)
(***************************************************************************)
EXTENDS ModelCalls, FiniteSetTheorems, TLAPS

Calling == {"call", "wait", "backoff"}
Writing == {"dump", "replace"}
Holding == Writing \cup {"store"}     \* a reply in hand
Steps == Calling \cup Holding \cup {"idle"}

Entry == (Prompt \X Nat) \X Nat
Dictionary == [state : {"whole", "unloaded", "truncated", "half"}, entries : SUBSET Entry]
Call == Thread \X [Prompt -> Nat] \X Nat
AnswerRow ==
  [process : Process, life : Nat, prompt : Prompt, sample : Nat, value : Nat]

CallsTypeOK ==
  /\ deployment \in Deployments
  /\ life \in [Process -> Nat]
  /\ pc \in [Thread -> Steps]
  /\ prompt \in [Thread -> Prompt \cup {0}]
  /\ \A t \in Thread : pc[t] # "idle" => prompt[t] \in Prompt
  /\ sample \in [Thread -> Nat] /\ attempt \in [Thread -> Nat] /\ value \in [Thread -> Nat]
  /\ fd \in [Thread -> Inode \cup {0}]
  /\ \A t \in Thread : pc[t] = "dump" => fd[t] \in Inode
  /\ count \in [Thread -> [Prompt -> Nat]]
  /\ permits \in [Process -> Int]
  /\ queue \in [Process -> Seq(Call)]
  /\ running \in [Process -> SUBSET Call]
  /\ drawn \in Nat
  /\ data \in [Process -> Dictionary]
  /\ lock \in [Process -> Thread \cup {0}]
  /\ tmp \in Inode \cup {0} /\ file \in Inode \cup {0}
  /\ inode \in [Inode -> Dictionary]
  /\ answers \subseteq AnswerRow

LEMMA ProcessOf == ASSUME NEW t \in Thread PROVE Of(t) \in Process
BY DEF Of, Process

LEMMA DictionariesTyped ==
  /\ Unloaded \in Dictionary /\ Truncated \in Dictionary /\ HalfWritten \in Dictionary
  /\ \A d \in SUBSET Entry : Whole(d) \in Dictionary /\ Whole(d) # Unloaded
BY DEF Unloaded, Truncated, HalfWritten, Whole, Dictionary, Empty

LEMMA LoadedTyped ==
  ASSUME CallsTypeOK, NEW p \in Process
  PROVE  /\ Stored \in Dictionary /\ Stored # Unloaded
         /\ Loaded(p) \in Dictionary /\ Loaded(p) # Unloaded
<1>1. Empty \in SUBSET Entry /\ (file # 0 => inode[file].entries \in SUBSET Entry)
  BY DEF CallsTypeOK, Dictionary, Empty
<1> QED
  BY <1>1, DictionariesTyped DEF Stored, Loaded, CallsTypeOK

LEMMA WithTyped ==
  ASSUME NEW d \in SUBSET Entry, NEW k \in Prompt \X Nat, NEW v \in Nat
  PROVE  With(d, k, v) \in SUBSET Entry
BY DEF With, Entry

LEMMA LookupTyped ==
  ASSUME NEW d \in SUBSET Entry, NEW k, NEW v \in Lookup(d, k)
  PROVE  v \in Nat
BY DEF Lookup, Entry

(* Looking up what was just entered, and anything else.                    *)
LEMMA LookupWith ==
  ASSUME NEW d, NEW k, NEW v
  PROVE  /\ Lookup(With(d, k, v), k) = {v}
         /\ \A j : j # k => Lookup(With(d, k, v), j) = Lookup(d, j)
<1>1. ASSUME NEW j, NEW e
      PROVE  e \in {x \in With(d, k, v) : x[1] = j} <=>
               IF j = k THEN e = <<k, v>> ELSE e \in {x \in d : x[1] = j}
  BY DEF With
<1>2. {x \in With(d, k, v) : x[1] = k} = {<<k, v>>}
  BY <1>1
<1>3. ASSUME NEW j, j # k
      PROVE  {x \in With(d, k, v) : x[1] = j} = {x \in d : x[1] = j}
  BY <1>1, <1>3
<1>4. {e[2] : e \in {<<k, v>>}} = {v}
  OBVIOUS
<1>5. Lookup(With(d, k, v), k) = {v}
  BY <1>2, <1>4 DEF Lookup
<1>6. ASSUME NEW j, j # k
      PROVE  Lookup(With(d, k, v), j) = Lookup(d, j)
  BY <1>3, <1>6 DEF Lookup
<1> QED
  BY <1>5, <1>6

(* There is always a free inode to open, which is not the cache's.         *)
LEMMA FreeInode ==
  ASSUME CallsTypeOK, NEW t \in Thread, pc[t] # "dump"
  PROVE  \E j \in Inode : j # file /\ \A u \in Thread : ~Open(u, j)
<1> DEFINE others == Thread \ {t}
<1> DEFINE opened == {fd[u] : u \in others}
<1>1. IsFiniteSet(Thread)
  BY CallsAssumption DEF CallsTypeOK, Thread
<1>2. IsFiniteSet(others) /\ Cardinality(others) = Cardinality(Thread) - 1
  BY <1>1, FS_RemoveElement
<1>3. IsFiniteSet(opened) /\ Cardinality(opened) <= Cardinality(others)
  <2> DEFINE f == [u \in others |-> fd[u]]
  <2>1. f \in Surjection(others, opened)
    BY DEF Surjection
  <2> HIDE DEF f
  <2> QED
    BY <2>1, <1>2, FS_Surjection
<1>4. /\ IsFiniteSet(opened \cup {file})
      /\ Cardinality(opened \cup {file}) \in {Cardinality(opened), Cardinality(opened) + 1}
  BY <1>3, FS_AddElement
<1>5. Cardinality(Thread) \in Nat /\ Cardinality(opened) \in Nat
  BY <1>1, <1>3, FS_CardinalityType
<1>6. IsFiniteSet(Inode) /\ Cardinality(Inode) = Cardinality(Thread) + 1
  <2> DEFINE n == Cardinality(Thread) + 1
  <2>1. n \in Int /\ ~(1 > n)
    BY <1>5
  <2> HIDE DEF n
  <2>2. IsFiniteSet(1..n) /\ Cardinality(1..n) = n - 1 + 1
    BY <2>1, FS_Interval
  <2> QED
    BY <1>5, <2>2 DEF Inode, n
<1>7. ~ Inode \subseteq opened \cup {file}
  <2>1. Inode \subseteq opened \cup {file} => Cardinality(Inode) <= Cardinality(opened \cup {file})
    BY <1>4, FS_Subset
  <2> QED
    BY <2>1, <1>2, <1>3, <1>4, <1>5, <1>6
<1>8. PICK j \in Inode : j \notin opened /\ j # file
  BY <1>7
<1>9. \A u \in Thread : ~Open(u, j)
  BY <1>8 DEF Open
<1> QED
  BY <1>8, <1>9
(* Nothing changes the deployment, so threads and processes stay.          *)
LEMMA SameThreads ==
  ASSUME UNCHANGED deployment
  PROVE  /\ Thread' = Thread /\ Process' = Process /\ Inode' = Inode
         /\ \A t : Of(t)' = Of(t)
         /\ Call' = Call
<1>1. Thread' = Thread /\ \A t : Of(t)' = Of(t)
  BY DEF Thread, Of
<1>2. Inode' = Inode /\ Call' = Call
  BY <1>1 DEF Inode, Call
<1>3. Process' = Process
  BY <1>1 DEF Process, Thread
<1> QED
  BY <1>1, <1>2, <1>3

LEMMA TypeInit == CallsInit => CallsTypeOK
<1> SUFFICES ASSUME CallsInit PROVE CallsTypeOK
  OBVIOUS
<1>1. Permits \in Int /\ <<>> \in Seq(Call) /\ "idle" \in Steps
  BY CallsAssumption DEF Steps
<1> QED
  BY <1>1, DictionariesTyped DEF CallsInit, CallsTypeOK, NoReply

LEMMA TypeStep == CallsTypeOK /\ [CallsNext]_vars => CallsTypeOK'
<1> SUFFICES ASSUME CallsTypeOK, [CallsNext]_vars PROVE CallsTypeOK'
  OBVIOUS
<1> USE DEF CallsTypeOK
<1>1. CASE UNCHANGED vars
  BY <1>1, SameThreads DEF vars, request, pool, disk, Dictionary, AnswerRow
<1>0. ASSUME UNCHANGED deployment
      PROVE  /\ Thread' = Thread /\ Process' = Process /\ Inode' = Inode /\ Call' = Call
             /\ AnswerRow' = AnswerRow
  BY <1>0, SameThreads DEF AnswerRow
<1>2. ASSUME NEW t \in Thread, Ask(t) PROVE CallsTypeOK'
  <2>1. PICK x \in Prompt : AskFor(t, x)
    BY <1>2 DEF Ask
  <2>2. UNCHANGED deployment /\ Of(t) \in Process /\ count[t][x] \in Nat
    BY <2>1, ProcessOf DEF AskFor
  <2>3. data' \in [Process -> Dictionary]
    BY <2>1, <2>2, LoadedTyped DEF AskFor
  <2>4. count' \in [Thread -> [Prompt -> Nat]]
    BY <2>1, <2>2 DEF AskFor
  <2>5. CASE Hits(t, x) # {}
    <3>1. (CHOOSE v \in Hits(t, x) : TRUE) \in Nat
      <4>1. Loaded(Of(t)).entries \in SUBSET Entry
        BY <2>2, LoadedTyped DEF Dictionary
      <4> QED
        BY <2>5, <4>1, LookupTyped DEF Hits
    <3>2. answers' \subseteq AnswerRow
      <4> DEFINE v == CHOOSE w \in Hits(t, x) : TRUE
      <4>1. answers' = answers \cup {[process |-> Of(t), life |-> life[Of(t)], prompt |-> x,
                                     sample |-> count[t][x], value |-> v]}
        BY <2>1, <2>5 DEF AskFor, Answer
      <4> HIDE DEF v
      <4>2. v \in Nat /\ life[Of(t)] \in Nat
        BY <2>2, <3>1 DEF v
      <4> QED
        BY <2>2, <4>1, <4>2 DEF AnswerRow
    <3> QED
      BY <1>0, <2>1, <2>2, <2>3, <2>4, <2>5, <3>2 DEF AskFor, request, pool, disk
  <2>6. CASE Hits(t, x) = {}
    <3>1. /\ pc' \in [Thread -> Steps] /\ prompt' \in [Thread -> Prompt \cup {0}]
          /\ sample' \in [Thread -> Nat] /\ attempt' \in [Thread -> Nat]
      <4>1. /\ pc' = [pc EXCEPT ![t] = "call"] /\ prompt' = [prompt EXCEPT ![t] = x]
            /\ sample' = [sample EXCEPT ![t] = count[t][x]]
            /\ attempt' = [attempt EXCEPT ![t] = 0]
        BY <2>1, <2>6 DEF AskFor
      <4> QED
        BY <2>2, <4>1 DEF Steps, Calling
    <3>2. /\ \A u \in Thread : pc'[u] # "idle" => prompt'[u] \in Prompt
          /\ \A u \in Thread : pc'[u] = "dump" => pc[u] = "dump"
      BY <2>1, <2>6 DEF AskFor
    <3> QED
      BY <1>0, <2>1, <2>2, <2>3, <2>4, <2>6, <3>1, <3>2 DEF AskFor, pool, disk
  <2> QED
    BY <2>5, <2>6
<1>3. ASSUME NEW t \in Thread, Submit(t) PROVE CallsTypeOK'
  <2>1. <<t, count[t], attempt[t]>> \in Call /\ Of(t) \in Process
    BY ProcessOf DEF Call
  <2>2. queue' \in [Process -> Seq(Call)]
    BY <1>3, <2>1 DEF Submit
  <2> QED
    BY <1>0, <1>3, <2>1, <2>2 DEF Submit, disk, Steps, Calling
<1>4. ASSUME NEW t \in Thread, Expire(t) PROVE CallsTypeOK'
  BY <1>0, <1>4 DEF Expire, pool, disk, Steps, Calling
<1>5. ASSUME NEW t \in Thread, Backoff(t) PROVE CallsTypeOK'
  <2>1. permits' \in [Process -> Int]
    BY <1>5, ProcessOf DEF Backoff, Released
  <2>2. pc' \in [Thread -> Steps] /\ \A u \in Thread : pc'[u] # "idle" => pc[u] # "idle"
    BY <1>5 DEF Backoff, Steps, Calling
  <2>3. attempt' \in [Thread -> Nat]
    BY <1>5 DEF Backoff
  <2>4. \A u \in Thread : pc'[u] = "dump" => pc[u] = "dump"
    BY <1>5 DEF Backoff
  <2> QED
    BY <1>0, <1>5, <2>1, <2>2, <2>3, <2>4 DEF Backoff, disk
<1>6. ASSUME NEW t \in Thread, CallDirect(t) PROVE CallsTypeOK'
  <2>1. /\ pc' \in [Thread -> Steps] /\ attempt' \in [Thread -> Nat]
        /\ value' \in [Thread -> Nat] /\ drawn' \in Nat
    <3>1. CASE /\ pc' = [pc EXCEPT ![t] = "store"] /\ UNCHANGED attempt
               /\ value' = [value EXCEPT ![t] = drawn + 1] /\ drawn' = drawn + 1
      BY <3>1 DEF Steps, Holding
    <3>2. CASE /\ UNCHANGED <<pc, value, drawn>>
               /\ attempt' = [attempt EXCEPT ![t] = @ + 1]
      BY <3>2
    <3>3. CASE /\ pc' = [pc EXCEPT ![t] = "store"] /\ UNCHANGED drawn
               /\ attempt' = [attempt EXCEPT ![t] = @ + 1]
               /\ value' = [value EXCEPT ![t] = NoReply]
      BY <3>3 DEF NoReply, Steps, Holding
    <3> QED
      BY <1>6, <3>1, <3>2, <3>3 DEF CallDirect, Draw
  <2>2. \A u \in Thread : /\ pc'[u] # "idle" => pc[u] # "idle"
                         /\ pc'[u] = "dump" => pc[u] = "dump"
    BY <1>6 DEF CallDirect, Draw
  <2> QED
    BY <1>0, <1>6, <2>1, <2>2 DEF CallDirect, pool, disk
<1>7. ASSUME NEW t \in Thread, Store(t) PROVE CallsTypeOK'
  <2>1. Of(t) \in Process /\ Key(t) \in Prompt \X Nat
    BY <1>7, ProcessOf DEF Store, Key, KeyOf
  <2>2. Temporary \in Inode
    BY <1>7, FreeInode DEF Store, Temporary
  <2>3. data' \in [Process -> Dictionary]
    <3>1. data[Of(t)].entries \in SUBSET Entry /\ value[t] \in Nat
      BY <2>1 DEF Dictionary
    <3>2. With(data[Of(t)].entries, Key(t), value[t]) \in SUBSET Entry
      BY <2>1, <3>1, WithTyped
    <3> QED
      BY <1>7, <2>1, <3>2, DictionariesTyped DEF Store
  <2> QED
    <3>1. /\ pc' \in [Thread -> Steps] /\ fd' \in [Thread -> Inode \cup {0}]
          /\ lock' \in [Process -> Thread \cup {0}] /\ tmp' \in Inode
          /\ inode' \in [Inode -> Dictionary]
      <4> HIDE DEF CallsTypeOK
      <4>1. pc \in [Thread -> Steps] /\ fd \in [Thread -> Inode \cup {0}]
        BY DEF CallsTypeOK
      <4>2. lock \in [Process -> Thread \cup {0}] /\ inode \in [Inode -> Dictionary]
        BY DEF CallsTypeOK
      <4>3. pc' \in [Thread -> Steps] /\ fd' \in [Thread -> Inode \cup {0}]
        BY <1>7, <2>2, <4>1 DEF Store, Steps, Holding, Writing
      <4>4. lock' \in [Process -> Thread \cup {0}]
        BY <1>7, <2>1, <4>2 DEF Store
      <4>5. inode' \in [Inode -> Dictionary] /\ tmp' \in Inode
        BY <1>7, <2>2, <4>2, DictionariesTyped DEF Store
      <4> QED
        BY <4>3, <4>4, <4>5
    <3>2. \A u \in Thread : /\ pc'[u] # "idle" => pc[u] # "idle"
                           /\ pc'[u] = "dump" => fd'[u] \in Inode
      <4>1. pc' = [pc EXCEPT ![t] = "dump"] /\ fd' = [fd EXCEPT ![t] = Temporary] /\ pc[t] = "store"
        BY <1>7 DEF Store
      <4> QED
        BY <2>2, <4>1
    <3> QED
      BY <1>0, <1>7, <2>3, <3>1, <3>2 DEF Store, pool
<1>8. ASSUME NEW t \in Thread, Dump(t) PROVE CallsTypeOK'
  <2>1. inode' \in [Inode -> Dictionary]
    BY <1>8, ProcessOf, DictionariesTyped DEF Dump
  <2> QED
    BY <1>0, <1>8, <2>1 DEF Dump, pool, Steps, Holding, Writing
<1>9. ASSUME NEW t \in Thread, Replace(t) PROVE CallsTypeOK'
  <2>1. Of(t) \in Process
    BY ProcessOf
  <2>2. answers' \subseteq AnswerRow
    BY <1>9, <2>1 DEF Replace, Answer, AnswerRow
  <2> QED
    BY <1>0, <1>9, <2>1, <2>2 DEF Replace, pool, Steps
<1>10. ASSUME NEW p \in Process, StartCall(p) PROVE CallsTypeOK'
  <2>1. Head(queue[p]) \in Call /\ Tail(queue[p]) \in Seq(Call)
    BY <1>10 DEF StartCall
  <2> QED
    BY <1>0, <1>10, <2>1 DEF StartCall, request, disk
<1>11. ASSUME NEW p \in Process, EndCall(p) PROVE CallsTypeOK'
  <2>1. PICK c \in running[p] : Return(p, c)
    BY <1>11 DEF EndCall
  <2>2. c[1] \in Thread
    BY DEF Call
  <2>3. UNCHANGED deployment /\ running' \in [Process -> SUBSET Call]
    BY <2>1 DEF Return
  <2>4. /\ pc' \in [Thread -> Steps] /\ permits' \in [Process -> Int]
        /\ value' \in [Thread -> Nat] /\ drawn' \in Nat
        /\ \A t \in Thread : pc'[t] # "idle" => pc[t] # "idle"
        /\ \A t \in Thread : pc'[t] = "dump" => pc[t] = "dump"
    <3>1. CASE UNCHANGED <<pc, value, drawn, permits>>
      BY <3>1
    <3>2. CASE /\ pc[c[1]] = "wait" /\ pc' = [pc EXCEPT ![c[1]] = "store"]
               /\ value' = [value EXCEPT ![c[1]] = drawn + 1] /\ drawn' = drawn + 1
               /\ permits' = [permits EXCEPT ![p] = @ + 1]
      <4>1. pc' \in [Thread -> Steps] /\ permits' \in [Process -> Int]
        BY <2>2, <3>2 DEF Steps, Holding
      <4>2. value' \in [Thread -> Nat] /\ drawn' \in Nat
        BY <2>2, <3>2
      <4>3. \A t \in Thread : pc'[t] # "idle" => pc[t] # "idle"
        BY <2>2, <3>2
      <4>4. \A t \in Thread : pc'[t] = "dump" => pc[t] = "dump"
        BY <2>2, <3>2
      <4> QED
        BY <4>1, <4>2, <4>3, <4>4
    <3>3. CASE /\ pc[c[1]] = "wait" /\ pc' = [pc EXCEPT ![c[1]] = "backoff"]
               /\ UNCHANGED <<value, drawn, permits>>
      BY <2>2, <3>3 DEF Steps, Calling
    <3> QED
      BY <2>1, <3>1, <3>2, <3>3 DEF Return, Awaited, Draw
  <2> QED
    BY <1>0, <2>1, <2>3, <2>4 DEF Return, disk
<1>12. ASSUME NEW p \in Process, Restart(p) PROVE CallsTypeOK'
  <2>1. <<>> \in Seq(Call) /\ Permits \in Int
    BY CallsAssumption
  <2>2. UNCHANGED deployment
    BY <1>12 DEF Restart
  <2>3. /\ pc' \in [Thread -> Steps]
        /\ \A t \in Thread : pc'[t] # "idle" => pc[t] # "idle" /\ UNCHANGED prompt[t]
        /\ \A t \in Thread : pc'[t] = "dump" => pc[t] = "dump" /\ UNCHANGED fd[t]
    BY <1>12 DEF Restart, Reset, Steps
  <2>4. /\ prompt' \in [Thread -> Prompt \cup {0}] /\ sample' \in [Thread -> Nat]
        /\ attempt' \in [Thread -> Nat] /\ value' \in [Thread -> Nat]
        /\ fd' \in [Thread -> Inode \cup {0}] /\ count' \in [Thread -> [Prompt -> Nat]]
    BY <1>12 DEF Restart, Reset, NoReply
  <2>5. /\ life' \in [Process -> Nat] /\ permits' \in [Process -> Int]
        /\ queue' \in [Process -> Seq(Call)] /\ running' \in [Process -> SUBSET Call]
        /\ data' \in [Process -> Dictionary] /\ lock' \in [Process -> Thread \cup {0}]
    BY <1>12, <2>1, DictionariesTyped DEF Restart
  <2> QED
    BY <1>0, <1>12, <2>2, <2>3, <2>4, <2>5 DEF Restart, disk
<1> QED
  BY <1>1, <1>2, <1>3, <1>4, <1>5, <1>6, <1>7, <1>8, <1>9, <1>10, <1>11, <1>12
  DEF CallsNext, Proceed

-----------------------------------------------------------------------------
(* What a step does to the replies: most only move a request along.        *)

Passes ==
  /\ UNCHANGED <<deployment, life, prompt, sample, value, fd, drawn, data, lock, disk, answers,
                 raced>>
  /\ \A t \in Thread : pc'[t] # pc[t] => pc[t] \in Calling /\ pc'[t] \in Calling \cup {"idle"}

Gets(t) ==
  /\ pc[t] \in Calling /\ pc' = [pc EXCEPT ![t] = "store"]
  /\ \/ value' = [value EXCEPT ![t] = drawn + 1] /\ drawn' = drawn + 1
     \/ value' = [value EXCEPT ![t] = NoReply] /\ drawn' = drawn
  /\ UNCHANGED <<deployment, life, prompt, sample, fd, data, lock, disk, answers, raced>>

LEMMA Effects ==
  ASSUME CallsTypeOK, [CallsNext]_vars
  PROVE  \/ Passes
         \/ \E t \in Thread : Gets(t) \/ Store(t) \/ Dump(t) \/ Replace(t)
         \/ \E t \in Thread, x \in Prompt : AskFor(t, x)
         \/ \E p \in Process : Restart(p)
<1> DEFINE Goal ==
      \/ Passes
      \/ \E t \in Thread : Gets(t) \/ Store(t) \/ Dump(t) \/ Replace(t)
      \/ \E t \in Thread, x \in Prompt : AskFor(t, x)
      \/ \E p \in Process : Restart(p)
<1>0. pc \in [Thread -> Steps]
  BY DEF CallsTypeOK
<1>1. CASE UNCHANGED vars
  BY <1>1 DEF vars, request, pool, disk, Passes
<1>2. ASSUME NEW t \in Thread, Submit(t) \/ Expire(t) \/ Backoff(t) PROVE Passes
  BY <1>0, <1>2 DEF Submit, Expire, Backoff, Passes, Calling, pool, disk
<1>3. ASSUME NEW t \in Thread, CallDirect(t) PROVE Passes \/ Gets(t)
  <2>1. CASE UNCHANGED <<pc, value, drawn>>
    BY <1>3, <2>1 DEF CallDirect, Passes, disk
  <2>2. CASE /\ pc' = [pc EXCEPT ![t] = "store"]
             /\ \/ value' = [value EXCEPT ![t] = drawn + 1] /\ drawn' = drawn + 1
                \/ value' = [value EXCEPT ![t] = NoReply] /\ drawn' = drawn
    BY <1>3, <2>2 DEF CallDirect, Gets, Calling
  <2> QED
    BY <1>3, <2>1, <2>2 DEF CallDirect, Draw
<1>4. ASSUME NEW p \in Process, StartCall(p) PROVE Passes
  BY <1>4 DEF StartCall, Passes, request, disk
<1>5. ASSUME NEW p \in Process, EndCall(p) PROVE Goal
  <2>1. PICK c \in running[p] : Return(p, c)
    BY <1>5 DEF EndCall
  <2>2. c[1] \in Thread
    BY DEF CallsTypeOK, Call
  <2>3. CASE UNCHANGED <<pc, value, drawn>>
    BY <2>1, <2>3 DEF Return, Passes
  <2>4. CASE /\ pc[c[1]] = "wait" /\ pc' = [pc EXCEPT ![c[1]] = "store"]
             /\ value' = [value EXCEPT ![c[1]] = drawn + 1] /\ drawn' = drawn + 1
    <3>1. Gets(c[1])
      BY <2>1, <2>4 DEF Return, Gets, Calling
    <3> QED
      BY <2>2, <3>1
  <2>5. CASE /\ pc[c[1]] = "wait" /\ pc' = [pc EXCEPT ![c[1]] = "backoff"]
             /\ UNCHANGED <<value, drawn>>
    <3>1. \A t \in Thread : pc'[t] # pc[t] => pc[t] \in Calling /\ pc'[t] \in Calling
      BY <1>0, <2>5 DEF Calling
    <3> QED
      BY <2>1, <2>5, <3>1 DEF Return, Passes
  <2> QED
    BY <2>1, <2>3, <2>4, <2>5 DEF Return, Awaited, Draw
<1> QED
  BY <1>1, <1>2, <1>3, <1>4, <1>5 DEF CallsNext, Proceed, Ask

-----------------------------------------------------------------------------
(* One reply, one key: wherever a value shows up, in an answer, a          *)
(* dictionary, a file or a thread's hand, it is the value of one sample of *)
(* one prompt, unless it is the empty reply.                               *)

Claimed(k, v) ==
  \/ \E a \in answers : KeyOf(a.prompt, a.sample) = k /\ a.value = v
  \/ \E p \in Process : <<k, v>> \in data[p].entries
  \/ \E i \in Inode : <<k, v>> \in inode[i].entries
  \/ \E t \in Thread : pc[t] \in Holding /\ Key(t) = k /\ value[t] = v

OneKey ==
  \A k, v : Claimed(k, v) =>
    v \in 0..drawn /\ (v # NoReply => \A j : Claimed(j, v) => j = k)

LEMMA OneKeyKept ==
  ASSUME CallsTypeOK, OneKey, NEW key,
         \/ drawn' = drawn
         \/ drawn' = drawn + 1,
         \A k, v : Claimed(k, v)' =>
           \/ Claimed(k, v)
           \/ k = key /\ v = drawn + 1 /\ drawn' = drawn + 1
           \/ v = NoReply
  PROVE  OneKey'
<1>1. drawn \in Nat /\ drawn' \in Nat /\ drawn <= drawn'
  BY DEF CallsTypeOK
<1> SUFFICES ASSUME NEW k, NEW v, Claimed(k, v)'
             PROVE  /\ v \in 0..drawn'
                    /\ v # NoReply => \A j : Claimed(j, v)' => j = k
  BY DEF OneKey, NoReply
<1>2. v \in 0..drawn'
  BY <1>1 DEF OneKey, NoReply
<1>3. ASSUME v # NoReply, NEW j, Claimed(j, v)' PROVE j = k
  <2>1. CASE v = drawn + 1
    <3>1. ~Claimed(k, v) /\ ~Claimed(j, v)
      BY <1>1, <2>1 DEF OneKey
    <3> QED
      BY <1>3, <3>1
  <2>2. CASE v # drawn + 1
    <3>1. Claimed(k, v) /\ Claimed(j, v)
      BY <1>3, <2>2
    <3> QED
      BY <1>3, <3>1 DEF OneKey
  <2> QED
    BY <2>1, <2>2
<1> QED
  BY <1>2, <1>3

LEMMA OneKeyInit == CallsInit => OneKey
<1> SUFFICES ASSUME CallsInit PROVE OneKey
  OBVIOUS
<1>1. ASSUME NEW k, NEW v PROVE ~Claimed(k, v)
  BY DEF CallsInit, Claimed, Unloaded, Truncated, Empty, Holding, Writing
<1> QED
  BY <1>1 DEF OneKey

LEMMA KeysKept ==
  ASSUME UNCHANGED <<prompt, sample>>, NEW t PROVE Key(t)' = Key(t)
BY DEF Key, KeyOf

LEMMA OneKeyStep ==
  ASSUME CallsTypeOK, OneKey, [CallsNext]_vars
  PROVE  OneKey'
<1> USE DEF KeyOf
<1>1. CASE Passes
  <2>1. \A t \in Thread : pc'[t] \in Holding => pc[t] \in Holding
    BY <1>1 DEF Passes, Calling, Holding, Writing
  <2>2. \A k, v : Claimed(k, v)' => Claimed(k, v)
    BY <1>1, <2>1, SameThreads, KeysKept DEF Passes, Claimed, disk
  <2> QED
    BY <1>1, <2>2, OneKeyKept DEF Passes
<1>2. ASSUME NEW t \in Thread, Gets(t) PROVE OneKey'
  <2>1. UNCHANGED <<deployment, prompt, sample, data, inode, answers>>
    BY <1>2 DEF Gets, disk
  <2>2. ASSUME NEW k, NEW v, Claimed(k, v)'
        PROVE  \/ Claimed(k, v)
               \/ k = Key(t) /\ v = drawn + 1 /\ drawn' = drawn + 1
               \/ v = NoReply
    <3>1. CASE \E u \in Thread : pc'[u] \in Holding /\ Key(u)' = k /\ value'[u] = v
      <4>1. PICK u \in Thread : pc'[u] \in Holding /\ Key(u) = k /\ value'[u] = v
        BY <2>1, <3>1, KeysKept
      <4>2. CASE u = t
        BY <1>2, <4>1, <4>2 DEF Gets, CallsTypeOK
      <4>3. CASE u # t
        <5>1. pc'[u] = pc[u] /\ value'[u] = value[u]
          BY <1>2, <4>3 DEF Gets, CallsTypeOK
        <5> QED
          BY <4>1, <5>1 DEF Claimed
      <4> QED
        BY <4>2, <4>3
    <3>2. CASE ~\E u \in Thread : pc'[u] \in Holding /\ Key(u)' = k /\ value'[u] = v
      BY <2>1, <2>2, <3>2, SameThreads DEF Claimed
    <3> QED
      BY <3>1, <3>2
  <2> QED
    BY <1>2, <2>2, OneKeyKept DEF Gets
<1>3. ASSUME NEW t \in Thread, NEW x \in Prompt, AskFor(t, x) PROVE OneKey'
  <2>1. UNCHANGED <<deployment, value, drawn, inode>>
    BY <1>3 DEF AskFor, disk, request
  <2>2. Of(t) \in Process
    BY ProcessOf
  <2>3. ASSUME NEW k, NEW v, <<k, v>> \in Loaded(Of(t)).entries PROVE Claimed(k, v)
    BY <2>2, <2>3 DEF Loaded, Stored, Whole, Empty, Claimed, CallsTypeOK
  <2>4. ASSUME NEW a \in answers', a \notin answers
        PROVE  Claimed(KeyOf(a.prompt, a.sample), a.value)
    <3> DEFINE v == CHOOSE w \in Hits(t, x) : TRUE
    <3>1. Hits(t, x) # {}
      BY <1>3, <2>4 DEF AskFor
    <3>2. a = [process |-> Of(t), life |-> life[Of(t)], prompt |-> x,
               sample |-> count[t][x], value |-> v]
      BY <1>3, <2>4, <3>1 DEF AskFor, Answer
    <3>3. v \in Hits(t, x)
      BY <3>1
    <3> HIDE DEF v
    <3>4. PICK e \in Loaded(Of(t)).entries : e[1] = KeyOf(x, count[t][x]) /\ e[2] = v
      BY <3>3 DEF Hits, Lookup
    <3>5. e = <<e[1], e[2]>>
      <4>1. Loaded(Of(t)).entries \in SUBSET Entry
        BY <2>2, LoadedTyped DEF Dictionary
      <4> QED
        BY <4>1 DEF Entry
    <3> QED
      BY <2>3, <3>2, <3>4, <3>5
  <2>5. ASSUME NEW u \in Thread, pc'[u] \in Holding
        PROVE  pc[u] = pc'[u] /\ Key(u)' = Key(u)
    BY <1>3, <2>5 DEF AskFor, CallsTypeOK, request, Holding, Writing, Key
  <2>6. ASSUME NEW p \in Process, NEW e \in data'[p].entries
        PROVE  e \in data[p].entries \/ e \in Loaded(Of(t)).entries
    BY <1>3, <2>6 DEF AskFor, CallsTypeOK
  <2>7. \A k, v : Claimed(k, v)' => Claimed(k, v)
    <3> SUFFICES ASSUME NEW k, NEW v, Claimed(k, v)' PROVE Claimed(k, v)
      OBVIOUS
    <3>1. CASE \E a \in answers' : KeyOf(a.prompt, a.sample) = k /\ a.value = v
      BY <2>4, <3>1 DEF Claimed
    <3>2. CASE \E p \in Process : <<k, v>> \in data'[p].entries
      BY <2>3, <2>6, <3>2 DEF Claimed
    <3>3. CASE \E j \in Inode : <<k, v>> \in inode[j].entries
      BY <3>3 DEF Claimed
    <3>4. CASE \E u \in Thread : pc'[u] \in Holding /\ Key(u)' = k /\ value'[u] = v
      BY <2>1, <2>5, <3>4 DEF Claimed
    <3> QED
      BY <2>1, <3>1, <3>2, <3>3, <3>4, SameThreads DEF Claimed
  <2> QED
    BY <2>1, <2>7, OneKeyKept
<1>4. ASSUME NEW t \in Thread, Store(t) PROVE OneKey'
  <2>1. UNCHANGED <<deployment, prompt, sample, value, drawn, answers>>
    BY <1>4 DEF Store
  <2>2. Of(t) \in Process
    BY ProcessOf
  <2>3. Claimed(Key(t), value[t])
    BY <1>4 DEF Store, Claimed, Holding
  <2>4. ASSUME NEW p \in Process, NEW e \in data'[p].entries
        PROVE  e \in data[p].entries \/ e = <<Key(t), value[t]>>
    BY <1>4, <2>2, <2>4 DEF Store, CallsTypeOK, Whole, With
  <2>5. ASSUME NEW i \in Inode, NEW e \in inode'[i].entries
        PROVE  e \in inode[i].entries
    BY <1>4, <2>5 DEF Store, CallsTypeOK, Truncated, Empty
  <2>6. ASSUME NEW u \in Thread, pc'[u] \in Holding PROVE pc[u] \in Holding
    BY <1>4, <2>6 DEF Store, CallsTypeOK, Holding
  <2>7. \A k, v : Claimed(k, v)' => Claimed(k, v)
    <3> SUFFICES ASSUME NEW k, NEW v, Claimed(k, v)' PROVE Claimed(k, v)
      OBVIOUS
    <3>1. CASE \E p \in Process : <<k, v>> \in data'[p].entries
      BY <2>3, <2>4, <3>1 DEF Claimed
    <3>2. CASE \E j \in Inode : <<k, v>> \in inode'[j].entries
      BY <2>5, <3>2 DEF Claimed
    <3>3. CASE \E u \in Thread : pc'[u] \in Holding /\ Key(u)' = k /\ value'[u] = v
      BY <2>1, <2>6, <3>3, KeysKept DEF Claimed
    <3> QED
      BY <2>1, <3>1, <3>2, <3>3, SameThreads DEF Claimed
  <2> QED
    BY <2>1, <2>7, OneKeyKept
<1>5. ASSUME NEW t \in Thread, Dump(t) PROVE OneKey'
  <2>1. UNCHANGED <<deployment, prompt, sample, value, drawn, answers, data>>
    BY <1>5 DEF Dump
  <2>2. Of(t) \in Process
    BY ProcessOf
  <2>3. ASSUME NEW i \in Inode, NEW e \in inode'[i].entries
        PROVE  e \in inode[i].entries \/ e \in data[Of(t)].entries
    <3>1. \/ inode' = [inode EXCEPT ![fd[t]] = data[Of(t)]]
          \/ inode' = [inode EXCEPT ![fd[t]] = HalfWritten]
      BY <1>5 DEF Dump
    <3>2. inode \in [Inode -> Dictionary]
      BY DEF CallsTypeOK
    <3> QED
      BY <2>3, <3>1, <3>2 DEF HalfWritten, Empty
  <2>4. ASSUME NEW u \in Thread, pc'[u] \in Holding PROVE pc[u] \in Holding
    BY <1>5, <2>4 DEF Dump, CallsTypeOK, Holding, Writing
  <2>5. \A k, v : Claimed(k, v)' => Claimed(k, v)
    <3> SUFFICES ASSUME NEW k, NEW v, Claimed(k, v)' PROVE Claimed(k, v)
      OBVIOUS
    <3>1. CASE \E j \in Inode : <<k, v>> \in inode'[j].entries
      BY <2>2, <2>3, <3>1 DEF Claimed
    <3>2. CASE \E u \in Thread : pc'[u] \in Holding /\ Key(u)' = k /\ value'[u] = v
      BY <2>1, <2>4, <3>2, KeysKept DEF Claimed
    <3> QED
      BY <2>1, <3>1, <3>2, SameThreads DEF Claimed
  <2> QED
    BY <2>1, <2>5, OneKeyKept
<1>6. ASSUME NEW t \in Thread, Replace(t) PROVE OneKey'
  <2>1. UNCHANGED <<deployment, prompt, sample, value, drawn, data, inode>>
    BY <1>6 DEF Replace
  <2>2. ASSUME NEW a \in answers', a \notin answers
        PROVE  KeyOf(a.prompt, a.sample) = Key(t) /\ a.value = value[t]
    BY <1>6, <2>2 DEF Replace, Answer, Key
  <2>3. Claimed(Key(t), value[t])
    BY <1>6 DEF Replace, Claimed, Holding, Writing
  <2>4. ASSUME NEW u \in Thread, pc'[u] \in Holding PROVE pc[u] \in Holding
    BY <1>6, <2>4 DEF Replace, CallsTypeOK, Holding, Writing
  <2>5. \A k, v : Claimed(k, v)' => Claimed(k, v)
    <3> SUFFICES ASSUME NEW k, NEW v, Claimed(k, v)' PROVE Claimed(k, v)
      OBVIOUS
    <3>1. CASE \E a \in answers' : KeyOf(a.prompt, a.sample) = k /\ a.value = v
      BY <2>2, <2>3, <3>1 DEF Claimed
    <3>2. CASE \E u \in Thread : pc'[u] \in Holding /\ Key(u)' = k /\ value'[u] = v
      BY <2>1, <2>4, <3>2, KeysKept DEF Claimed
    <3> QED
      BY <2>1, <3>1, <3>2, SameThreads DEF Claimed
  <2> QED
    BY <2>1, <2>5, OneKeyKept
<1>7. ASSUME NEW p \in Process, Restart(p) PROVE OneKey'
  <2>1. UNCHANGED <<deployment, drawn, inode, answers>>
    BY <1>7 DEF Restart, disk
  <2>2. ASSUME NEW q \in Process, NEW e \in data'[q].entries PROVE e \in data[q].entries
    BY <1>7, <2>2 DEF Restart, CallsTypeOK, Unloaded, Empty
  <2>3. ASSUME NEW u \in Thread, pc'[u] \in Holding
        PROVE  pc[u] = pc'[u] /\ Key(u)' = Key(u) /\ value'[u] = value[u]
    BY <1>7, <2>3 DEF Restart, Reset, CallsTypeOK, Holding, Writing, Key
  <2>4. \A k, v : Claimed(k, v)' => Claimed(k, v)
    <3> SUFFICES ASSUME NEW k, NEW v, Claimed(k, v)' PROVE Claimed(k, v)
      OBVIOUS
    <3>1. CASE \E q \in Process : <<k, v>> \in data'[q].entries
      BY <2>2, <3>1 DEF Claimed
    <3>2. CASE \E u \in Thread : pc'[u] \in Holding /\ Key(u)' = k /\ value'[u] = v
      BY <2>3, <3>2 DEF Claimed
    <3> QED
      BY <2>1, <3>1, <3>2, SameThreads DEF Claimed
  <2> QED
    BY <2>1, <2>4, OneKeyKept
<1> QED
  BY <1>1, <1>2, <1>3, <1>4, <1>5, <1>6, <1>7, Effects

-----------------------------------------------------------------------------
(* Why answers agree.  An answer binds its process as long as it lives, and *)
(* for ever if no other process writes the file.                            *)

Alone == Cardinality(Process) = 1
Binding(a) == Alone \/ a.life = life[a.process]

SampleOf(t) == <<Of(t), prompt[t], sample[t]>>
Asked(a) == <<a.process, a.prompt, a.sample>>
KeyOfAnswer(a) == KeyOf(a.prompt, a.sample)

(* Two requests for a sample at once are known, and so is a request for a  *)
(* sample that has an answer.                                              *)
OverlapsKnown ==
  \A t, u \in Thread :
    (t # u /\ pc[t] # "idle" /\ pc[u] # "idle" /\ SampleOf(t) = SampleOf(u)) =>
      SampleOf(t) \in raced
Unanswered ==
  \A t \in Thread, a \in answers :
    (pc[t] # "idle" /\ Binding(a) /\ Asked(a) = SampleOf(t)) => SampleOf(t) \in raced

(* The dictionary knows the answers, and alone the file does.              *)
Remembered ==
  \A a \in answers :
    (Binding(a) /\ Asked(a) \notin raced) =>
      Lookup(Loaded(a.process).entries, KeyOfAnswer(a)) = {a.value}
Persisted ==
  Alone => \A a \in answers :
    Asked(a) \notin raced => Lookup(Stored.entries, KeyOfAnswer(a)) = {a.value}

(* A process that has not read the file has done nothing yet.              *)
Unborn ==
  \A p \in Process : data[p] = Unloaded =>
    /\ \A t \in Thread : Of(t) = p => pc[t] = "idle"
    /\ \A a \in answers : a.process = p => a.life < life[p]
LivesPast == \A a \in answers : a.life <= life[a.process]

(* The thread that writes has the lock and its reply in the dictionary.    *)
Locked ==
  \A t \in Thread : pc[t] \in Writing =>
    /\ lock[Of(t)] = t /\ data[Of(t)] # Unloaded
    /\ Lookup(data[Of(t)].entries, Key(t)) = {value[t]}

(* Alone, the file lacks nothing of the dictionary but what is being       *)
(* written, and nobody else touches the temporary file.                    *)
Synced ==
  Alone => \A p \in Process : data[p] # Unloaded => \A k :
    \/ Lookup(data[p].entries, k) = Lookup(Stored.entries, k)
    \/ \E t \in Thread : pc[t] \in Writing /\ Key(t) = k
FilesApart ==
  /\ tmp # 0 => tmp # file
  /\ Alone => \A t \in Thread :
       /\ pc[t] = "dump" => fd[t] = tmp /\ tmp # 0 /\ inode[tmp] = Truncated
       /\ pc[t] = "replace" => fd[t] = tmp /\ tmp # 0 /\ inode[tmp] = data[Of(t)]

(* A dictionary has one value for a key.                                   *)
OneValue(d) == \A e, f \in d : e[1] = f[1] => e = f
OneValueEach ==
  /\ \A p \in Process : OneValue(data[p].entries)
  /\ \A i \in Inode : OneValue(inode[i].entries)

Agreed ==
  \A a, b \in answers :
    (Comparable(a, b) /\ Asked(a) = Asked(b) /\ Asked(a) \notin raced) => a.value = b.value

AgreeInv ==
  /\ OverlapsKnown /\ Unanswered /\ Remembered /\ Persisted /\ Unborn /\ LivesPast
  /\ Locked /\ Synced /\ FilesApart /\ OneValueEach /\ Agreed

LEMMA AloneOne ==
  ASSUME CallsTypeOK, Alone, NEW p \in Process, NEW q \in Process PROVE p = q
<1>1. IsFiniteSet(Thread)
  BY CallsAssumption DEF CallsTypeOK, Thread
<1>2. IsFiniteSet(Process)
  <2> DEFINE f == [t \in Thread |-> Of(t)]
  <2>1. f \in Surjection(Thread, Process)
    BY DEF Surjection, Process, Of
  <2> HIDE DEF f
  <2> QED
    BY <1>1, <2>1, FS_Surjection
<1>3. PICK x : Process = {x}
  BY <1>2, FS_Singleton DEF Alone
<1> QED
  BY <1>3

LEMMA OneValueWith ==
  ASSUME NEW d, OneValue(d), NEW k, NEW v PROVE OneValue(With(d, k, v))
BY DEF OneValue, With

LEMMA OneLookup ==
  ASSUME NEW d, OneValue(d), NEW k, NEW v \in Lookup(d, k) PROVE Lookup(d, k) = {v}
BY DEF OneValue, Lookup

LEMMA LoadedOneValue ==
  ASSUME CallsTypeOK, OneValueEach, NEW p \in Process PROVE OneValue(Loaded(p).entries)
BY DEF CallsTypeOK, OneValueEach, OneValue, Loaded, Stored, Whole, Empty

LEMMA AgreeInit == CallsInit => AgreeInv
<1> SUFFICES ASSUME CallsInit PROVE AgreeInv
  OBVIOUS
<1>1. answers = {} /\ tmp = 0 /\ data = [p \in Process |-> Unloaded]
  BY DEF CallsInit
<1>2. \A t \in Thread : pc[t] = "idle"
  BY DEF CallsInit
<1>3. OneValueEach
  BY DEF CallsInit, OneValueEach, OneValue, Unloaded, Truncated, Empty
<1>4. OverlapsKnown /\ Unanswered /\ Remembered /\ Persisted /\ Unborn /\ LivesPast /\ Agreed
  BY <1>1, <1>2 DEF OverlapsKnown, Unanswered, Remembered, Persisted, Unborn, LivesPast, Agreed
<1>5. Locked /\ Synced /\ FilesApart
  BY <1>1, <1>2 DEF Locked, Synced, FilesApart, Writing
<1> QED
  BY <1>3, <1>4, <1>5 DEF AgreeInv

(* Nobody else writes while a thread may take the lock, or has it.         *)
LEMMA OneWriter ==
  ASSUME CallsTypeOK, Locked, NEW t \in Thread, NEW u \in Thread, t # u, Of(u) = Of(t),
         \/ lock[Of(t)] = 0
         \/ pc[t] \in Writing
  PROVE  pc[u] \notin Writing
<1>1. 0 \notin Thread
  BY CallsAssumption DEF CallsTypeOK, Thread
<1> QED
  BY <1>1 DEF Locked

(* What only depends on the request, the dictionaries and the files.       *)
LEMMA SameAsked ==
  ASSUME UNCHANGED deployment
  PROVE  /\ Alone' = Alone
         /\ \A a, b : Comparable(a, b)' = Comparable(a, b)
         /\ \A a : Asked(a)' = Asked(a) /\ KeyOfAnswer(a)' = KeyOfAnswer(a)
BY SameThreads DEF Alone, Comparable, Asked, KeyOfAnswer

LEMMA SameSample ==
  ASSUME UNCHANGED <<deployment, prompt, sample>>, NEW t PROVE SampleOf(t)' = SampleOf(t)
BY SameThreads DEF SampleOf

(* A request that moves along, or gets its reply.                          *)
LEMMA AgreePasses ==
  ASSUME CallsTypeOK, AgreeInv, Passes \/ \E t \in Thread : Gets(t)
  PROVE  AgreeInv'
<1>0. /\ UNCHANGED <<deployment, life, prompt, sample, fd, data, lock, answers, raced>>
      /\ UNCHANGED <<tmp, file, inode>>
  BY DEF Passes, Gets, disk
<1>1. ASSUME NEW t \in Thread
      PROVE  /\ pc'[t] # "idle" => pc[t] # "idle"
             /\ pc'[t] \in Writing => pc'[t] = pc[t] /\ value'[t] = value[t]
             /\ pc[t] \in Writing => pc'[t] = pc[t]
  BY DEF Passes, Gets, Calling, Writing, CallsTypeOK
<1>2. /\ Stored' = Stored /\ \A p : Loaded(p)' = Loaded(p)
      /\ \A a : Binding(a)' = Binding(a)
  BY <1>0, SameAsked DEF Stored, Loaded, Binding
<1>3. OverlapsKnown'
  BY <1>0, <1>1, SameThreads, SameSample DEF AgreeInv, OverlapsKnown
<1>4. Unanswered'
  BY <1>0, <1>1, <1>2, SameThreads, SameSample, SameAsked DEF AgreeInv, Unanswered
<1>5. Remembered' /\ Persisted'
  BY <1>0, <1>2, SameAsked DEF AgreeInv, Remembered, Persisted
<1>6. Unborn' /\ LivesPast'
  BY <1>0, <1>1, SameThreads DEF AgreeInv, Unborn, LivesPast
<1>7. Locked'
  BY <1>0, <1>1, SameThreads, KeysKept DEF AgreeInv, Locked
<1>8. Synced'
  BY <1>0, <1>1, <1>2, SameThreads, SameAsked, KeysKept DEF AgreeInv, Synced
<1>9. FilesApart'
  BY <1>0, <1>1, SameThreads, SameAsked DEF AgreeInv, FilesApart, Writing
<1>10. OneValueEach' /\ Agreed'
  BY <1>0, SameThreads, SameAsked DEF AgreeInv, OneValueEach, Agreed
<1> QED
  BY <1>3, <1>4, <1>5, <1>6, <1>7, <1>8, <1>9, <1>10 DEF AgreeInv

LEMMA AgreeAsk ==
  ASSUME CallsTypeOK, AgreeInv, NEW t \in Thread, NEW x \in Prompt, AskFor(t, x)
  PROVE  AgreeInv'
<1> DEFINE p == Of(t)
           n == count[t][x]
           known == CHOOSE v \in Hits(t, x) : TRUE
           new == [process |-> p, life |-> life[p], prompt |-> x, sample |-> n, value |-> known]
<1>0. /\ UNCHANGED <<deployment, life, value, fd, lock, tmp, file, inode>>
      /\ pc[t] = "idle" /\ data' = [data EXCEPT ![p] = Loaded(p)]
      /\ raced' = raced \cup {<<Of(u), x, n>> : u \in Asking(t, x)}
  BY DEF AskFor, disk, request
<1>1. p \in Process /\ n \in Nat
  BY ProcessOf DEF CallsTypeOK
<1>2. /\ Stored' = Stored
      /\ data' \in [Process -> Dictionary] /\ data'[p] = Loaded(p) /\ data'[p] # Unloaded
      /\ \A q \in Process : q # p => data'[q] = data[q]
      /\ \A q \in Process : data[q] # Unloaded => data'[q] = data[q]
  BY <1>0, <1>1, LoadedTyped DEF Stored, Loaded, CallsTypeOK
<1>3. \A q \in Process : Loaded(q)' = Loaded(q)
  BY <1>2 DEF Loaded
<1>4. ASSUME NEW u \in Thread, u # t
      PROVE  pc'[u] = pc[u] /\ SampleOf(u)' = SampleOf(u) /\ Key(u)' = Key(u)
  <2>1. \/ UNCHANGED request
        \/ /\ pc' = [pc EXCEPT ![t] = "call"] /\ prompt' = [prompt EXCEPT ![t] = x]
           /\ sample' = [sample EXCEPT ![t] = n]
    BY DEF AskFor
  <2>2. pc'[u] = pc[u] /\ prompt'[u] = prompt[u] /\ sample'[u] = sample[u]
    BY <1>4, <2>1 DEF request, CallsTypeOK
  <2> QED
    BY <1>0, <2>2, SameThreads DEF SampleOf, Key, KeyOf
<1>5. pc'[t] # "idle" => /\ pc'[t] = "call" /\ SampleOf(t)' = <<p, x, n>>
                         /\ Hits(t, x) = {} /\ answers' = answers
  <2>1. CASE Hits(t, x) # {}
    BY <1>0, <2>1 DEF AskFor, request
  <2>2. CASE Hits(t, x) = {}
    <3>1. /\ pc' = [pc EXCEPT ![t] = "call"] /\ prompt' = [prompt EXCEPT ![t] = x]
          /\ sample' = [sample EXCEPT ![t] = n] /\ answers' = answers
      BY <2>2 DEF AskFor
    <3> QED
      BY <1>0, <2>2, <3>1, SameThreads DEF SampleOf, CallsTypeOK
  <2> QED
    BY <2>1, <2>2
<1>6. ASSUME NEW u \in Thread, u # t, pc[u] # "idle", SampleOf(u) = <<p, x, n>>
      PROVE  <<p, x, n>> \in raced'
  BY <1>0, <1>6 DEF Asking, SampleOf
<1>7. ASSUME NEW a \in answers', a \notin answers
      PROVE  /\ a = new /\ Asked(a) = <<p, x, n>> /\ KeyOfAnswer(a) = KeyOf(x, n)
             /\ Hits(t, x) = {known}
  <2>1. Hits(t, x) # {}
    BY <1>7 DEF AskFor
  <2>2. a = new
    BY <1>7, <2>1 DEF AskFor, Answer
  <2>3. Hits(t, x) = {known}
    BY <1>1, <2>1, LoadedOneValue, OneLookup DEF AgreeInv, Hits
  <2> HIDE DEF known
  <2> QED
    BY <2>2, <2>3 DEF Asked, KeyOfAnswer
<1> HIDE DEF known
<1>8. OverlapsKnown'
  <2> SUFFICES ASSUME NEW u \in Thread, NEW w \in Thread, u # w, pc'[u] # "idle", pc'[w] # "idle",
                      SampleOf(u)' = SampleOf(w)'
               PROVE  SampleOf(u)' \in raced'
    BY <1>0, SameThreads DEF OverlapsKnown
  <2> QED
    BY <1>0, <1>4, <1>5, <1>6 DEF AgreeInv, OverlapsKnown
<1>9. Unanswered'
  <2> SUFFICES ASSUME NEW u \in Thread, NEW a \in answers', pc'[u] # "idle", Binding(a)',
                      Asked(a) = SampleOf(u)'
               PROVE  SampleOf(u)' \in raced'
    BY <1>0, SameThreads, SameAsked DEF Unanswered
  <2>1. Binding(a)
    BY <1>0, SameAsked DEF Binding
  <2>2. CASE u = t
    <3>1. a \in answers /\ Asked(a) = <<p, x, n>> /\ Hits(t, x) = {}
      BY <1>5, <2>2
    <3>2. KeyOfAnswer(a) = KeyOf(x, n) /\ a.process = p
      BY <3>1 DEF Asked, KeyOfAnswer, KeyOf
    <3>3. Asked(a) \in raced
      BY <2>1, <3>1, <3>2 DEF AgreeInv, Remembered, Hits
    <3> QED
      BY <1>0, <3>3
  <2>3. CASE u # t /\ a \in answers
    BY <1>0, <1>4, <2>1, <2>3 DEF AgreeInv, Unanswered
  <2>4. CASE u # t /\ a \notin answers
    BY <1>4, <1>6, <1>7, <2>4
  <2> QED
    BY <2>2, <2>3, <2>4
<1>10. Remembered'
  <2> SUFFICES ASSUME NEW a \in answers', Binding(a)', Asked(a) \notin raced'
               PROVE  Lookup(Loaded(a.process)'.entries, KeyOfAnswer(a)) = {a.value}
    BY <1>0, SameThreads, SameAsked DEF Remembered
  <2>1. Binding(a)
    BY <1>0, SameAsked DEF Binding
  <2>2. CASE a \in answers
    <3>1. a.process \in Process
      BY <2>2 DEF CallsTypeOK, AnswerRow
    <3> QED
      BY <1>0, <1>3, <2>1, <2>2, <3>1 DEF AgreeInv, Remembered
  <2>3. CASE a \notin answers
    <3>1. a.process = p /\ a.value = known
      BY <1>7, <2>3
    <3> QED
      BY <1>1, <1>3, <1>7, <2>3, <3>1 DEF Hits
  <2> QED
    BY <2>2, <2>3
<1>11. Persisted'
  <2> SUFFICES ASSUME Alone, NEW a \in answers', Asked(a) \notin raced'
               PROVE  Lookup(Stored.entries, KeyOfAnswer(a)) = {a.value}
    BY <1>0, <1>2, SameAsked DEF Persisted
  <2>1. CASE a \in answers
    BY <1>0, <2>1 DEF AgreeInv, Persisted
  <2>2. CASE a \notin answers
    <3>1. a.value = known /\ KeyOfAnswer(a) = KeyOf(x, n) /\ Hits(t, x) = {known}
      BY <1>7, <2>2
    <3>2. CASE data[p] = Unloaded
      BY <3>1, <3>2 DEF Hits, Loaded
    <3>3. CASE data[p] # Unloaded
      <4>1. ASSUME NEW u \in Thread, pc[u] \in Writing, Key(u) = KeyOf(x, n) PROVE FALSE
        <5>1. Of(u) = p /\ u # t /\ pc[u] # "idle"
          BY <1>0, <4>1, AloneOne, ProcessOf DEF Writing
        <5>2. SampleOf(u) = <<p, x, n>>
          BY <4>1, <5>1 DEF SampleOf, Key, KeyOf
        <5> QED
          BY <1>6, <1>7, <2>2, <5>1, <5>2
      <4>2. Lookup(data[p].entries, KeyOf(x, n)) = Lookup(Stored.entries, KeyOf(x, n))
        BY <1>1, <3>3, <4>1 DEF AgreeInv, Synced
      <4> QED
        BY <3>1, <3>3, <4>2 DEF Hits, Loaded
    <3> QED
      BY <3>2, <3>3
  <2> QED
    BY <2>1, <2>2
<1>12. Unborn'
  <2> SUFFICES ASSUME NEW q \in Process, data'[q] = Unloaded
               PROVE  /\ \A u \in Thread : Of(u) = q => pc'[u] = "idle"
                      /\ \A a \in answers' : a.process = q => a.life < life[q]
    BY <1>0, SameThreads DEF Unborn
  <2>1. q # p /\ data[q] = Unloaded
    BY <1>2
  <2>2. \A u \in Thread : Of(u) = q => pc'[u] = "idle"
    BY <1>4, <2>1 DEF AgreeInv, Unborn
  <2>3. \A a \in answers' : a.process = q => a.life < life[q]
    BY <1>7, <2>1 DEF AgreeInv, Unborn
  <2> QED
    BY <2>2, <2>3
<1>13. LivesPast'
  <2>1. \A a \in answers' : a.life <= life[a.process]
    BY <1>1, <1>7 DEF AgreeInv, LivesPast, CallsTypeOK
  <2> QED
    BY <1>0, <2>1 DEF LivesPast
<1>14. \A u \in Thread : pc'[u] \in Writing => u # t /\ pc[u] = pc'[u]
  BY <1>4, <1>5 DEF Writing
<1>15. Locked'
  <2> SUFFICES ASSUME NEW u \in Thread, pc'[u] \in Writing
               PROVE  /\ lock[Of(u)] = u /\ data'[Of(u)] # Unloaded
                      /\ Lookup(data'[Of(u)].entries, Key(u)') = {value[u]}
    BY <1>0, SameThreads DEF Locked
  <2> QED
    BY <1>2, <1>4, <1>14, ProcessOf DEF AgreeInv, Locked
<1>16. Synced'
  <2> SUFFICES ASSUME Alone, NEW k
               PROVE  \/ Lookup(data'[p].entries, k) = Lookup(Stored.entries, k)
                      \/ \E u \in Thread : pc'[u] \in Writing /\ Key(u)' = k
    BY <1>0, <1>1, <1>2, SameThreads, SameAsked, AloneOne DEF Synced
  <2>1. CASE data[p] = Unloaded
    BY <1>2, <2>1 DEF Loaded
  <2>2. CASE data[p] # Unloaded
    <3>1. \/ Lookup(data[p].entries, k) = Lookup(Stored.entries, k)
          \/ \E u \in Thread : pc[u] \in Writing /\ Key(u) = k
      BY <1>1, <2>2 DEF AgreeInv, Synced
    <3>2. \A u \in Thread : pc[u] \in Writing => pc'[u] = pc[u] /\ Key(u)' = Key(u)
      BY <1>0, <1>4 DEF Writing
    <3> QED
      BY <1>1, <1>2, <2>2, <3>1, <3>2
  <2> QED
    BY <2>1, <2>2
<1>17. FilesApart'
  <2>1. ASSUME Alone, NEW u \in Thread
        PROVE  /\ pc'[u] = "dump" => fd[u] = tmp /\ tmp # 0 /\ inode[tmp] = Truncated
               /\ pc'[u] = "replace" => fd[u] = tmp /\ tmp # 0 /\ inode[tmp] = data'[Of(u)]
    <3>1. pc'[u] \in Writing => pc[u] = pc'[u] /\ data'[Of(u)] = data[Of(u)]
      BY <1>2, <1>14, ProcessOf DEF AgreeInv, Locked
    <3> QED
      BY <2>1, <3>1 DEF AgreeInv, FilesApart, Writing
  <2> QED
    BY <1>0, <2>1, SameThreads, SameAsked DEF AgreeInv, FilesApart
<1>18. OneValueEach'
  <2>1. OneValue(Loaded(p).entries)
    BY <1>1, LoadedOneValue DEF AgreeInv
  <2>2. \A q \in Process : OneValue(data'[q].entries)
    BY <1>2, <2>1 DEF AgreeInv, OneValueEach
  <2> QED
    BY <1>0, <2>2, SameThreads DEF AgreeInv, OneValueEach
<1>19. Agreed'
  <2> SUFFICES ASSUME NEW a \in answers', NEW b \in answers', Comparable(a, b),
                      Asked(a) = Asked(b), Asked(a) \notin raced'
               PROVE  a.value = b.value
    BY <1>0, SameAsked DEF Agreed
  <2>1. ASSUME NEW c \in answers, NEW d \in answers', d \notin answers,
               Comparable(c, d) \/ Comparable(d, c), Asked(c) = Asked(d), Asked(d) \notin raced'
        PROVE  c.value = d.value
    <3>1. d = new /\ d.value = known /\ Hits(t, x) = {known} /\ KeyOfAnswer(d) = KeyOf(x, n)
      BY <1>7, <2>1
    <3>2. c.process = p /\ KeyOfAnswer(c) = KeyOf(x, n)
      BY <2>1, <3>1 DEF Asked, KeyOfAnswer, KeyOf
    <3>3. Binding(c)
      BY <2>1, <3>1, <3>2 DEF Comparable, Binding, Alone
    <3> QED
      BY <1>0, <2>1, <3>1, <3>2, <3>3 DEF AgreeInv, Remembered, Hits
  <2>2. CASE a \in answers /\ b \in answers
    BY <1>0, <2>2 DEF AgreeInv, Agreed
  <2>3. CASE a \notin answers /\ b \notin answers
    BY <1>7, <2>3
  <2> QED
    BY <2>1, <2>2, <2>3
<1> QED
  BY <1>8, <1>9, <1>10, <1>11, <1>12, <1>13, <1>15, <1>16, <1>17, <1>18, <1>19 DEF AgreeInv

LEMMA AgreeStore ==
  ASSUME CallsTypeOK, AgreeInv, NEW t \in Thread, Store(t)
  PROVE  AgreeInv'
<1> DEFINE p == Of(t)
           d == With(data[p].entries, Key(t), value[t])
<1>0. /\ UNCHANGED <<deployment, life, prompt, sample, value, file, answers, raced>>
      /\ pc[t] = "store" /\ lock[p] = 0 /\ pc' = [pc EXCEPT ![t] = "dump"]
      /\ lock' = [lock EXCEPT ![p] = t] /\ data' = [data EXCEPT ![p] = Whole(d)]
      /\ tmp' = Temporary /\ fd' = [fd EXCEPT ![t] = Temporary]
      /\ inode' = [inode EXCEPT ![Temporary] = Truncated]
  BY DEF Store
<1>1. p \in Process
  BY ProcessOf
<1>2. /\ data'[p] = Whole(d) /\ data'[p] # Unloaded /\ data[p] # Unloaded
      /\ \A q \in Process : q # p => data'[q] = data[q]
  <2>1. data'[p] = Whole(d) /\ \A q \in Process : q # p => data'[q] = data[q]
    BY <1>0, <1>1 DEF CallsTypeOK
  <2>2. data[p] # Unloaded
    BY <1>0, <1>1 DEF AgreeInv, Unborn
  <2> HIDE DEF d
  <2> QED
    BY <2>1, <2>2 DEF Whole, Unloaded
<1>3. Temporary \in Inode /\ Temporary # file /\ Temporary # 0
  <2>1. \E j \in Inode : j # file /\ \A u \in Thread : ~Open(u, j)
    BY <1>0, FreeInode
  <2>2. Temporary \in Inode /\ Temporary # file
    BY <2>1 DEF Temporary, AgreeInv, FilesApart, CallsTypeOK
  <2> QED
    BY <2>2 DEF Inode
<1>4. Stored' = Stored
  <2>1. file # 0 => inode'[file] = inode[file]
    BY <1>0, <1>3 DEF CallsTypeOK
  <2> QED
    BY <1>0, <2>1 DEF Stored
<1>5. ASSUME NEW u \in Thread
      PROVE  /\ pc'[u] # "idle" => pc[u] # "idle"
             /\ u # t => pc'[u] = pc[u] /\ fd'[u] = fd[u]
             /\ pc'[t] = "dump" /\ fd'[t] = Temporary
  BY <1>0 DEF CallsTypeOK
<1>6. ASSUME NEW u \in Thread, u # t, Of(u) = p PROVE pc[u] \notin Writing
  BY <1>0, <1>6, OneWriter DEF AgreeInv
<1> HIDE DEF d
<1>7. Lookup(d, Key(t)) = {value[t]} /\ \A k : k # Key(t) => Lookup(d, k) = Lookup(data[p].entries, k)
  BY LookupWith DEF d
<1>8. OverlapsKnown'
  BY <1>0, <1>5, SameThreads, SameSample DEF AgreeInv, OverlapsKnown
<1>9. \A a : Binding(a)' = Binding(a)
  BY <1>0, SameAsked DEF Binding
<1>10. Unanswered'
  BY <1>0, <1>5, <1>9, SameThreads, SameSample, SameAsked DEF AgreeInv, Unanswered
<1>11. Remembered'
  <2> SUFFICES ASSUME NEW a \in answers, Binding(a), Asked(a) \notin raced
               PROVE  Lookup(Loaded(a.process)'.entries, KeyOfAnswer(a)) = {a.value}
    BY <1>0, <1>9, SameThreads, SameAsked DEF Remembered
  <2>1. Lookup(Loaded(a.process).entries, KeyOfAnswer(a)) = {a.value} /\ a.process \in Process
    BY DEF AgreeInv, Remembered, CallsTypeOK, AnswerRow
  <2>2. CASE a.process # p
    BY <1>2, <1>4, <2>1, <2>2 DEF Loaded
  <2>3. CASE a.process = p
    <3>1. Asked(a) # SampleOf(t)
      BY <1>0 DEF AgreeInv, Unanswered
    <3>2. KeyOfAnswer(a) # Key(t)
      BY <2>3, <3>1 DEF Asked, SampleOf, KeyOfAnswer, Key, KeyOf
    <3> QED
      BY <1>2, <1>7, <2>1, <2>3, <3>2 DEF Loaded, Whole
  <2> QED
    BY <2>2, <2>3
<1>12. Persisted'
  BY <1>0, <1>4, SameAsked DEF AgreeInv, Persisted
<1>13. Unborn' /\ LivesPast'
  <2>1. Unborn'
    <3> SUFFICES ASSUME NEW q \in Process, data'[q] = Unloaded
                 PROVE  /\ \A u \in Thread : Of(u) = q => pc'[u] = "idle"
                        /\ \A a \in answers : a.process = q => a.life < life[q]
      BY <1>0, SameThreads DEF Unborn
    <3> QED
      BY <1>2, <1>5 DEF AgreeInv, Unborn
  <2> QED
    BY <1>0, <2>1 DEF AgreeInv, LivesPast
<1>14. Locked'
  <2> SUFFICES ASSUME NEW u \in Thread, pc'[u] \in Writing
               PROVE  /\ lock'[Of(u)] = u /\ data'[Of(u)] # Unloaded
                      /\ Lookup(data'[Of(u)].entries, Key(u)) = {value[u]}
    BY <1>0, SameThreads, KeysKept DEF Locked
  <2>1. CASE u = t
    BY <1>0, <1>1, <1>2, <1>7, <2>1 DEF Whole, CallsTypeOK
  <2>2. CASE u # t
    <3>1. pc[u] \in Writing /\ Of(u) # p /\ Of(u) \in Process
      BY <1>5, <1>6, <2>2, ProcessOf
    <3>2. lock'[Of(u)] = lock[Of(u)]
      BY <1>0, <3>1 DEF CallsTypeOK
    <3> QED
      BY <1>2, <3>1, <3>2 DEF AgreeInv, Locked
  <2> QED
    BY <2>1, <2>2
<1>15. Synced'
  <2> SUFFICES ASSUME Alone, NEW k
               PROVE  \/ Lookup(data'[p].entries, k) = Lookup(Stored.entries, k)
                      \/ \E u \in Thread : pc'[u] \in Writing /\ Key(u)' = k
    BY <1>0, <1>1, <1>4, SameThreads, SameAsked, AloneOne DEF Synced
  <2>1. CASE k = Key(t)
    BY <1>0, <1>5, <2>1, KeysKept DEF Writing
  <2>2. CASE k # Key(t)
    <3>1. \A u \in Thread : pc[u] \notin Writing
      BY <1>0, <1>6, AloneOne, ProcessOf DEF Writing
    <3>2. Lookup(data[p].entries, k) = Lookup(Stored.entries, k)
      BY <1>1, <1>2, <3>1 DEF AgreeInv, Synced
    <3> QED
      BY <1>2, <1>7, <2>2, <3>2 DEF Whole
  <2> QED
    BY <2>1, <2>2
<1>16. FilesApart'
  <2>1. ASSUME Alone, NEW u \in Thread
        PROVE  /\ pc'[u] = "dump" => fd'[u] = tmp' /\ tmp' # 0 /\ inode'[tmp'] = Truncated
               /\ pc'[u] = "replace" => fd'[u] = tmp' /\ tmp' # 0 /\ inode'[tmp'] = data'[Of(u)]
    <3>1. CASE u = t
      BY <1>0, <1>3, <1>5, <3>1 DEF CallsTypeOK
    <3>2. CASE u # t
      BY <1>5, <1>6, <2>1, <3>2, AloneOne, ProcessOf DEF Writing
    <3> QED
      BY <3>1, <3>2
  <2> QED
    BY <1>0, <1>3, <2>1, SameThreads, SameAsked DEF FilesApart
<1>17. OneValueEach'
  <2>1. OneValue(d)
    BY <1>1, OneValueWith DEF AgreeInv, OneValueEach, d
  <2>2. OneValue(Truncated.entries)
    BY DEF OneValue, Truncated, Empty
  <2>3. \A q \in Process : OneValue(data'[q].entries)
    BY <1>2, <2>1 DEF AgreeInv, OneValueEach, Whole
  <2>4. \A i \in Inode : OneValue(inode'[i].entries)
    BY <1>0, <2>2 DEF AgreeInv, OneValueEach, CallsTypeOK
  <2> QED
    BY <1>0, <2>3, <2>4, SameThreads DEF OneValueEach
<1>18. Agreed'
  BY <1>0, SameAsked DEF AgreeInv, Agreed
<1> QED
  BY <1>8, <1>10, <1>11, <1>12, <1>13, <1>14, <1>15, <1>16, <1>17, <1>18 DEF AgreeInv

(* The dictionary is written into the file that was opened, or, by writers *)
(* that overlap, into the cache itself.                                    *)
LEMMA AgreeDump ==
  ASSUME CallsTypeOK, AgreeInv, NEW t \in Thread, Dump(t)
  PROVE  AgreeInv'
<1> DEFINE p == Of(t)
<1>0. /\ UNCHANGED <<deployment, life, prompt, sample, value, fd, data, lock, tmp, file, answers,
                     raced>>
      /\ pc[t] = "dump" /\ pc' = [pc EXCEPT ![t] = "replace"]
      /\ \/ inode' = [inode EXCEPT ![fd[t]] = data[p]]
         \/ /\ inode[fd[t]] # Truncated \/ \E u \in Thread \ {t} : Open(u, fd[t])
            /\ inode' = [inode EXCEPT ![fd[t]] = HalfWritten]
  BY DEF Dump
<1>1. p \in Process /\ fd[t] \in Inode
  BY <1>0, ProcessOf DEF CallsTypeOK
<1>2. ASSUME NEW u \in Thread
      PROVE  /\ pc'[u] # "idle" <=> pc[u] # "idle"
             /\ pc'[u] \in Writing <=> pc[u] \in Writing
             /\ u # t => pc'[u] = pc[u]
             /\ pc'[t] = "replace"
  BY <1>0 DEF CallsTypeOK, Writing
<1>3. ASSUME NEW u \in Thread, u # t, Of(u) = p PROVE pc[u] \notin Writing
  BY <1>0, <1>3, OneWriter DEF AgreeInv, Writing
<1>4. ASSUME Alone
      PROVE  /\ inode' = [inode EXCEPT ![tmp] = data[p]] /\ tmp # 0 /\ tmp \in Inode
             /\ fd[t] = tmp /\ Stored' = Stored
  <2>1. fd[t] = tmp /\ tmp # 0 /\ inode[tmp] = Truncated /\ tmp # file
    BY <1>0, <1>4 DEF AgreeInv, FilesApart
  <2>2. \A u \in Thread \ {t} : ~Open(u, fd[t])
    BY <1>3, <1>4, AloneOne, ProcessOf DEF Open, Writing
  <2>3. inode' = [inode EXCEPT ![tmp] = data[p]]
    BY <1>0, <2>1, <2>2
  <2>4. Stored' = Stored
    BY <1>0, <2>1, <2>3 DEF Stored, CallsTypeOK
  <2> QED
    BY <1>1, <2>1, <2>3, <2>4
<1>5. OverlapsKnown'
  BY <1>0, <1>2, SameThreads, SameSample DEF AgreeInv, OverlapsKnown
<1>6. \A a : Binding(a)' = Binding(a)
  BY <1>0, SameAsked DEF Binding
<1>7. Unanswered'
  BY <1>0, <1>2, <1>6, SameThreads, SameSample, SameAsked DEF AgreeInv, Unanswered
<1>8. Remembered'
  <2> SUFFICES ASSUME NEW a \in answers, Binding(a), Asked(a) \notin raced
               PROVE  Lookup(Loaded(a.process)'.entries, KeyOfAnswer(a)) = {a.value}
    BY <1>0, <1>6, SameThreads, SameAsked DEF Remembered
  <2>1. /\ Lookup(Loaded(a.process).entries, KeyOfAnswer(a)) = {a.value}
        /\ a.process \in Process /\ a.life \in Nat
    BY DEF AgreeInv, Remembered, CallsTypeOK, AnswerRow
  <2>2. CASE Alone
    BY <1>0, <1>4, <2>1, <2>2 DEF Loaded
  <2>3. CASE data[a.process] # Unloaded
    BY <1>0, <2>1, <2>3 DEF Loaded
  <2>4. CASE ~Alone /\ data[a.process] = Unloaded
    BY <2>1, <2>4 DEF AgreeInv, Unborn, Binding
  <2> QED
    BY <2>2, <2>3, <2>4
<1>9. Persisted'
  BY <1>0, <1>4, SameAsked DEF AgreeInv, Persisted
<1>10. Unborn' /\ LivesPast'
  BY <1>0, <1>2, SameThreads DEF AgreeInv, Unborn, LivesPast
<1>11. Locked'
  BY <1>0, <1>2, SameThreads, KeysKept DEF AgreeInv, Locked
<1>12. Synced'
  <2> SUFFICES ASSUME Alone, NEW q \in Process, data[q] # Unloaded, NEW k
               PROVE  \/ Lookup(data[q].entries, k) = Lookup(Stored.entries, k)
                      \/ \E u \in Thread : pc'[u] \in Writing /\ Key(u)' = k
    BY <1>0, <1>4, SameThreads, SameAsked DEF Synced
  <2>1. \/ Lookup(data[q].entries, k) = Lookup(Stored.entries, k)
        \/ \E u \in Thread : pc[u] \in Writing /\ Key(u) = k
    BY DEF AgreeInv, Synced
  <2> QED
    BY <1>0, <1>2, <2>1, KeysKept
<1>13. FilesApart'
  <2>1. ASSUME Alone, NEW u \in Thread
        PROVE  /\ pc'[u] = "dump" => fd[u] = tmp /\ tmp # 0 /\ inode'[tmp] = Truncated
               /\ pc'[u] = "replace" => fd[u] = tmp /\ tmp # 0 /\ inode'[tmp] = data[Of(u)]
    <3>1. CASE u = t
      BY <1>2, <1>4, <2>1, <3>1 DEF CallsTypeOK
    <3>2. CASE u # t
      BY <1>2, <1>3, <2>1, <3>2, AloneOne, ProcessOf DEF Writing
    <3> QED
      BY <3>1, <3>2
  <2> QED
    BY <1>0, <2>1, SameThreads, SameAsked DEF AgreeInv, FilesApart
<1>14. OneValueEach'
  <2>1. OneValue(HalfWritten.entries) /\ OneValue(data[p].entries)
    BY <1>1 DEF AgreeInv, OneValueEach, OneValue, HalfWritten, Empty
  <2>2. \A i \in Inode : OneValue(inode'[i].entries)
    BY <1>0, <1>1, <2>1 DEF AgreeInv, OneValueEach, CallsTypeOK
  <2> QED
    BY <1>0, <2>2, SameThreads DEF AgreeInv, OneValueEach
<1>15. Agreed'
  BY <1>0, SameAsked DEF AgreeInv, Agreed
<1> QED
  BY <1>5, <1>7, <1>8, <1>9, <1>10, <1>11, <1>12, <1>13, <1>14, <1>15 DEF AgreeInv

(* The file takes the place of the cache, and the harness has its answer.  *)
LEMMA AgreeReplace ==
  ASSUME CallsTypeOK, AgreeInv, NEW t \in Thread, Replace(t)
  PROVE  AgreeInv'
<1> DEFINE p == Of(t)
           new == [process |-> p, life |-> life[p], prompt |-> prompt[t],
                   sample |-> sample[t], value |-> value[t]]
<1>0. /\ UNCHANGED <<deployment, life, prompt, sample, value, fd, data, inode, raced>>
      /\ pc[t] = "replace" /\ pc' = [pc EXCEPT ![t] = "idle"]
      /\ lock' = [lock EXCEPT ![p] = 0]
      /\ answers' = answers \cup {new}
      /\ IF tmp # 0 THEN file' = tmp /\ tmp' = 0 ELSE UNCHANGED <<file, tmp>>
  BY DEF Replace, Answer
<1>1. p \in Process
  BY ProcessOf
<1>2. ASSUME NEW u \in Thread
      PROVE  /\ pc'[u] # "idle" => u # t /\ pc'[u] = pc[u]
             /\ u # t => pc'[u] = pc[u]
  BY <1>0 DEF CallsTypeOK
<1>3. ASSUME NEW u \in Thread, u # t, Of(u) = p PROVE pc[u] \notin Writing
  BY <1>0, <1>3, OneWriter DEF AgreeInv, Writing
<1>4. data[p] # Unloaded /\ Lookup(data[p].entries, Key(t)) = {value[t]}
  BY <1>0 DEF AgreeInv, Locked, Writing
<1>5. Alone => Stored'.entries = data[p].entries
  BY <1>0 DEF AgreeInv, FilesApart, Stored, Whole, CallsTypeOK
<1>6. new.process = p /\ Asked(new) = SampleOf(t) /\ KeyOfAnswer(new) = Key(t) /\ new.value = value[t]
  BY DEF Asked, SampleOf, KeyOfAnswer, Key
<1> HIDE DEF new
<1>7. \A a : Binding(a)' = Binding(a)
  BY <1>0, SameAsked DEF Binding
<1>8. OverlapsKnown'
  BY <1>0, <1>2, SameThreads, SameSample DEF AgreeInv, OverlapsKnown
<1>9. Unanswered'
  <2> SUFFICES ASSUME NEW u \in Thread, NEW a \in answers', pc'[u] # "idle", Binding(a),
                      Asked(a) = SampleOf(u)
               PROVE  SampleOf(u) \in raced
    BY <1>0, <1>7, SameThreads, SameSample, SameAsked DEF Unanswered
  <2>1. CASE a \in answers
    BY <1>2, <2>1 DEF AgreeInv, Unanswered
  <2>2. CASE a = new
    BY <1>0, <1>2, <1>6, <2>2 DEF AgreeInv, OverlapsKnown
  <2> QED
    BY <1>0, <2>1, <2>2
<1>10. Remembered'
  <2> SUFFICES ASSUME NEW a \in answers', Binding(a), Asked(a) \notin raced
               PROVE  Lookup(Loaded(a.process)'.entries, KeyOfAnswer(a)) = {a.value}
    BY <1>0, <1>7, SameThreads, SameAsked DEF Remembered
  <2>1. CASE a = new
    BY <1>0, <1>4, <1>6, <2>1 DEF Loaded
  <2>2. CASE a \in answers
    <3>1. /\ Lookup(Loaded(a.process).entries, KeyOfAnswer(a)) = {a.value}
          /\ a.process \in Process /\ a.life \in Nat
      BY <2>2 DEF AgreeInv, Remembered, CallsTypeOK, AnswerRow
    <3>2. data[a.process] # Unloaded
      BY <1>1, <1>4, <2>2, <3>1, AloneOne DEF AgreeInv, Unborn, Binding
    <3> QED
      BY <1>0, <3>1, <3>2 DEF Loaded
  <2> QED
    BY <1>0, <2>1, <2>2
<1>11. Persisted'
  <2> SUFFICES ASSUME Alone, NEW a \in answers', Asked(a) \notin raced
               PROVE  Lookup(data[p].entries, KeyOfAnswer(a)) = {a.value}
    BY <1>0, <1>5, SameAsked DEF Persisted
  <2>1. CASE a = new
    BY <1>4, <1>6, <2>1
  <2>2. CASE a \in answers
    <3>1. Lookup(Loaded(a.process).entries, KeyOfAnswer(a)) = {a.value} /\ a.process = p
      BY <1>1, <2>2, AloneOne DEF AgreeInv, Remembered, Binding, CallsTypeOK, AnswerRow
    <3> QED
      BY <1>4, <3>1 DEF Loaded
  <2> QED
    BY <1>0, <2>1, <2>2
<1>12. Unborn'
  <2> SUFFICES ASSUME NEW q \in Process, data[q] = Unloaded
               PROVE  /\ \A u \in Thread : Of(u) = q => pc'[u] = "idle"
                      /\ \A a \in answers' : a.process = q => a.life < life[q]
    BY <1>0, SameThreads DEF Unborn
  <2> QED
    BY <1>0, <1>2, <1>4, <1>6 DEF AgreeInv, Unborn
<1>13. LivesPast'
  <2>1. new.life <= life[new.process]
    BY <1>1 DEF new, CallsTypeOK
  <2> QED
    BY <1>0, <2>1 DEF AgreeInv, LivesPast
<1>14. Locked'
  <2> SUFFICES ASSUME NEW u \in Thread, pc'[u] \in Writing
               PROVE  /\ lock'[Of(u)] = u /\ data[Of(u)] # Unloaded
                      /\ Lookup(data[Of(u)].entries, Key(u)) = {value[u]}
    BY <1>0, SameThreads, KeysKept DEF Locked
  <2>1. u # t /\ pc[u] \in Writing
    BY <1>2 DEF Writing
  <2>2. Of(u) # p /\ Of(u) \in Process
    BY <1>3, <2>1, ProcessOf
  <2>3. lock'[Of(u)] = lock[Of(u)]
    BY <1>0, <2>2 DEF CallsTypeOK
  <2> QED
    BY <2>1, <2>3 DEF AgreeInv, Locked
<1>15. Synced'
  <2> SUFFICES ASSUME Alone, NEW q \in Process, NEW k
               PROVE  Lookup(data[q].entries, k) = Lookup(data[p].entries, k)
    BY <1>0, <1>5, SameThreads, SameAsked DEF Synced
  <2> QED
    BY <1>1, AloneOne
<1>16. FilesApart'
  <2>1. tmp' = 0
    BY <1>0
  <2>2. ASSUME Alone, NEW u \in Thread PROVE pc'[u] \notin Writing
    BY <1>2, <1>3, <2>2, AloneOne, ProcessOf DEF Writing
  <2> QED
    BY <1>0, <2>1, <2>2, SameThreads, SameAsked DEF FilesApart, Writing
<1>17. OneValueEach'
  BY <1>0, SameThreads DEF AgreeInv, OneValueEach
<1>18. Agreed'
  <2> SUFFICES ASSUME NEW a \in answers', NEW b \in answers', Comparable(a, b),
                      Asked(a) = Asked(b), Asked(a) \notin raced
               PROVE  a.value = b.value
    BY <1>0, SameAsked DEF Agreed
  <2>1. ASSUME NEW c \in answers, Comparable(c, new) \/ Comparable(new, c), Asked(c) = Asked(new)
        PROVE  Asked(c) \in raced
    <3>1. Binding(c)
      BY <2>1 DEF Comparable, Binding, Alone, new
    <3>2. pc[t] # "idle" /\ Asked(c) = SampleOf(t)
      BY <1>0, <1>6, <2>1
    <3> QED
      BY <3>1, <3>2 DEF AgreeInv, Unanswered
  <2>2. CASE a \in answers /\ b \in answers
    BY <2>2 DEF AgreeInv, Agreed
  <2> QED
    BY <1>0, <2>1, <2>2
<1> QED
  BY <1>8, <1>9, <1>10, <1>11, <1>12, <1>13, <1>14, <1>15, <1>16, <1>17, <1>18 DEF AgreeInv

LEMMA AgreeRestart ==
  ASSUME CallsTypeOK, AgreeInv, NEW p \in Process, Restart(p)
  PROVE  AgreeInv'
<1>0. /\ UNCHANGED <<deployment, tmp, file, inode, answers, raced>>
      /\ life' = [life EXCEPT ![p] = @ + 1] /\ data' = [data EXCEPT ![p] = Unloaded]
      /\ lock' = [lock EXCEPT ![p] = 0]
  BY DEF Restart, disk
<1>1. ASSUME NEW u \in Thread
      PROVE  /\ pc'[u] # "idle" => Of(u) # p
             /\ Of(u) # p => /\ pc'[u] = pc[u] /\ SampleOf(u)' = SampleOf(u)
                             /\ Key(u)' = Key(u) /\ value'[u] = value[u]
  <2>1. Of(u) = p => pc'[u] = "idle"
    BY DEF Restart, Reset
  <2>2. Of(u) # p => /\ pc'[u] = pc[u] /\ prompt'[u] = prompt[u] /\ sample'[u] = sample[u]
                     /\ value'[u] = value[u]
    BY DEF Restart, Reset
  <2> QED
    BY <1>0, <2>1, <2>2, SameThreads DEF SampleOf, Key, KeyOf
<1>2. /\ Stored' = Stored /\ data'[p] = Unloaded /\ life'[p] = life[p] + 1 /\ life[p] \in Nat
      /\ \A q \in Process : q # p => /\ data'[q] = data[q] /\ life'[q] = life[q]
                                     /\ lock'[q] = lock[q]
  BY <1>0 DEF Stored, CallsTypeOK
<1>3. ASSUME NEW a \in answers
      PROVE  /\ a.process \in Process /\ a.life \in Nat
             /\ Binding(a)' => Alone \/ (Binding(a) /\ a.process # p)
  <2>1. a.process \in Process /\ a.life \in Nat
    BY DEF CallsTypeOK, AnswerRow
  <2> QED
    BY <1>0, <1>2, <2>1, SameAsked DEF AgreeInv, LivesPast, Binding
<1>4. ASSUME Alone, NEW u \in Thread PROVE pc'[u] = "idle"
  BY <1>1, <1>4, AloneOne, ProcessOf
<1>5. OverlapsKnown'
  BY <1>0, <1>1, SameThreads DEF AgreeInv, OverlapsKnown
<1>6. Unanswered'
  <2> SUFFICES ASSUME NEW u \in Thread, NEW a \in answers, pc'[u] # "idle", Binding(a)',
                      Asked(a) = SampleOf(u)'
               PROVE  SampleOf(u)' \in raced
    BY <1>0, SameThreads, SameAsked DEF Unanswered
  <2> QED
    BY <1>1, <1>3, <1>4 DEF AgreeInv, Unanswered
<1>7. Remembered'
  <2> SUFFICES ASSUME NEW a \in answers, Binding(a)', Asked(a) \notin raced
               PROVE  Lookup(Loaded(a.process)'.entries, KeyOfAnswer(a)) = {a.value}
    BY <1>0, SameThreads, SameAsked DEF Remembered
  <2>1. CASE Alone
    <3>1. Loaded(a.process)' = Stored
      BY <1>2, <1>3, <2>1, AloneOne DEF Loaded
    <3> QED
      BY <2>1, <3>1 DEF AgreeInv, Persisted
  <2>2. CASE ~Alone
    BY <1>2, <1>3, <2>2 DEF AgreeInv, Remembered, Loaded
  <2> QED
    BY <2>1, <2>2
<1>8. Persisted'
  BY <1>0, <1>2, SameAsked DEF AgreeInv, Persisted
<1>9. Unborn'
  <2> SUFFICES ASSUME NEW q \in Process, data'[q] = Unloaded
               PROVE  /\ \A u \in Thread : Of(u) = q => pc'[u] = "idle"
                      /\ \A a \in answers : a.process = q => a.life < life'[q]
    BY <1>0, SameThreads DEF Unborn
  <2>1. CASE q = p
    <3>1. \A a \in answers : a.process = q => a.life < life'[q]
      BY <1>2, <1>3, <2>1 DEF AgreeInv, LivesPast
    <3> QED
      BY <1>1, <2>1, <3>1
  <2>2. CASE q # p
    BY <1>1, <1>2, <2>2 DEF AgreeInv, Unborn
  <2> QED
    BY <2>1, <2>2
<1>10. LivesPast'
  <2>1. ASSUME NEW a \in answers PROVE a.life <= life'[a.process]
    BY <1>2, <1>3 DEF AgreeInv, LivesPast
  <2> QED
    BY <1>0, <2>1 DEF LivesPast
<1>11. Locked'
  <2> SUFFICES ASSUME NEW u \in Thread, pc'[u] \in Writing
               PROVE  /\ lock'[Of(u)] = u /\ data'[Of(u)] # Unloaded
                      /\ Lookup(data'[Of(u)].entries, Key(u)') = {value'[u]}
    BY <1>0, SameThreads DEF Locked
  <2> QED
    BY <1>1, <1>2, ProcessOf DEF AgreeInv, Locked, Writing
<1>12. Synced'
  <2>1. ASSUME Alone, NEW q \in Process PROVE data'[q] = Unloaded
    BY <1>2, <2>1, AloneOne
  <2> QED
    BY <1>0, <2>1, SameThreads, SameAsked DEF Synced
<1>13. FilesApart'
  BY <1>0, <1>4, SameThreads, SameAsked DEF AgreeInv, FilesApart
<1>14. OneValueEach'
  <2>1. \A q \in Process : OneValue(data'[q].entries)
    BY <1>2 DEF AgreeInv, OneValueEach, OneValue, Unloaded, Empty
  <2> QED
    BY <1>0, <2>1, SameThreads DEF AgreeInv, OneValueEach
<1>15. Agreed'
  BY <1>0, SameAsked DEF AgreeInv, Agreed
<1> QED
  BY <1>5, <1>6, <1>7, <1>8, <1>9, <1>10, <1>11, <1>12, <1>13, <1>14, <1>15 DEF AgreeInv

-----------------------------------------------------------------------------
(* What solver_cache.py keeps: its types, the invariants above, and what   *)
(* they are for.                                                           *)

CallsInv == CallsTypeOK /\ OneKey /\ AgreeInv

(* Types, one key for a reply, and dictionaries that know the answers      *)
(* (SolverCache, LLM._complete).                                           *)
THEOREM CallsSound == CallsSpec => []CallsInv
<1>1. CallsInit => CallsInv
  BY TypeInit, OneKeyInit, AgreeInit DEF CallsInv
<1>2. CallsInv /\ [CallsNext]_vars => CallsInv'
  <2> SUFFICES ASSUME CallsInv, [CallsNext]_vars PROVE CallsInv'
    OBVIOUS
  <2>1. CallsTypeOK' /\ OneKey'
    BY TypeStep, OneKeyStep DEF CallsInv
  <2>2. AgreeInv'
    BY Effects, AgreePasses, AgreeAsk, AgreeStore, AgreeDump, AgreeReplace, AgreeRestart
    DEF CallsInv
  <2> QED
    BY <2>1, <2>2 DEF CallsInv
<1> QED
  BY <1>1, <1>2, PTL DEF CallsSpec

(* Whatever process, whatever overlaps: two samples never share a reply.   *)
SamplesDiffer ==
  \A a, b \in answers :
    (a.value = b.value /\ a.value # NoReply) => KeyOfAnswer(a) = KeyOfAnswer(b)

LEMMA Unshared == CallsInv => SamplesDiffer
BY DEF CallsInv, OneKey, Claimed, SamplesDiffer, KeyOfAnswer

(* A vote over repeated samples counts distinct calls, in one process and  *)
(* across processes (harness_base.py, SolverCache.key).                    *)
THEOREM RepliesNotShared == CallsSpec => []SamplesDiffer
BY CallsSound, Unshared, PTL

(* For any number of harnesses and processes: unless two threads asked for *)
(* it at once, a sample has one answer, also after a crash in the middle   *)
(* of a write by the only process, and two samples have two                *)
(* (SolverCache.get_or_call).                                              *)
THEOREM AnswersDoAgree == CallsSpec => []AnswersAgree
<1>1. CallsInv => AnswersAgree
  <2> SUFFICES ASSUME CallsInv, NEW a \in answers, NEW b \in answers, Comparable(a, b),
                      a.prompt = b.prompt,
                      \A r \in {a, b} : <<r.process, r.prompt, r.sample>> \notin raced
               PROVE  /\ a.sample = b.sample => a.value = b.value
                      /\ a.sample # b.sample => a.value # b.value \/ a.value = NoReply
    BY DEF AnswersAgree
  <2>1. a.sample = b.sample => a.value = b.value
    BY DEF CallsInv, AgreeInv, Agreed, Asked, Comparable
  <2>2. a.sample # b.sample => a.value # b.value \/ a.value = NoReply
    BY Unshared DEF SamplesDiffer, KeyOfAnswer, KeyOf
  <2> QED
    BY <2>1, <2>2
<1> QED
  BY <1>1, CallsSound, PTL
=============================================================================
