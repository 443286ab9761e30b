------------------------ MODULE TaskEvaluationProofs ------------------------
(***************************************************************************)
(* For every set of tasks, every number of turns, attempts and starts, and *)
(* whatever fails, times out or dies: no score comes from a run in which a *)
(* call failed under a name the study knows, or whose record reports an    *)
(* error, no run with a grade is left out but these, and the proxy has     *)
(* every answer an agent acted on.                                         *)
(***************************************************************************)
EXTENDS TaskEvaluation, SequenceTheorems, TLAPS

-----------------------------------------------------------------------------
(* The events of a run *)

EventRecord ==
  [type : {"model_error", "agent_error", "observation", "grading"},
   error : Failures \cup {"none", "domain", "program", "timeout"}]

\* The failures whose names TRANSPORT has.
Named == {"http", "transport"}

\* An event tells that a call failed on its way.
TellsOfHurt(events, i) ==
  /\ TransportNamed(events[i].error)
  /\ \/ events[i].type = "observation"
     \/ events[i].type = "agent_error" /\ ~ContextExhausted(events, i)

Damaged(events) == \E i \in DOMAIN events : TellsOfHurt(events, i)

\* What inspect_record excludes: a run that was hurt, whose record reports an
\* error or that has no grade.
LEMMA InspectRecordIs ==
  ASSUME NEW r
  PROVE  InspectRecord(r) <=> Damaged(r.events) \/ r.reported \/ ~Graded(r)
BY DEF InspectRecord, ClassifyError, Damaged, TellsOfHurt

\* What precedes an event is not changed by what is logged after it.
LEMMA EarlierModelError ==
  ASSUME NEW events \in Seq(EventRecord), NEW e \in EventRecord, NEW i \in 1..Len(events)
  PROVE  ModelErrorBefore(Append(events, e), i) = ModelErrorBefore(events, i)
<1> DEFINE last(s) == {j \in 1..(i - 1) :
                         /\ s[j].type = "model_error"
                         /\ \A k \in (j + 1)..(i - 1) : s[k].type # "model_error"}
           chosen(s) == CHOOSE j \in last(s) : TRUE
<1>1. \A j \in 1..i : Append(events, e)[j] = events[j]
  OBVIOUS
<1>2. last(Append(events, e)) = last(events)
  BY <1>1
<1>3. last(events) # {} => chosen(events) \in 1..i
  OBVIOUS
<1>4. chosen(Append(events, e)) = chosen(events)
  BY <1>2
<1>5. last(events) # {} => Append(events, e)[chosen(Append(events, e))].error = events[chosen(events)].error
  BY <1>1, <1>3, <1>4
<1> HIDE DEF chosen
<1>6. \A s : ModelErrorBefore(s, i) = IF last(s) = {} THEN "none" ELSE s[chosen(s)].error
  BY DEF ModelErrorBefore, chosen
<1> HIDE DEF last
<1> QED
  BY <1>2, <1>5, <1>6

\* The error that was logged last is the last one.
LEMMA LatestModelError ==
  ASSUME NEW events \in Seq(EventRecord), NEW e \in EventRecord, NEW d \in EventRecord,
         e.type = "model_error"
  PROVE  ModelErrorBefore(Append(Append(events, e), d), Len(events) + 2) = e.error
<1> DEFINE s == Append(Append(events, e), d)
           n == Len(events) + 1
           last == {j \in 1..(Len(events) + 2 - 1) :
                      /\ s[j].type = "model_error"
                      /\ \A k \in (j + 1)..(Len(events) + 2 - 1) : s[k].type # "model_error"}
<1>1. s[n] = e
  OBVIOUS
<1>2. last = {n}
  BY <1>1
<1>3. (CHOOSE j \in last : TRUE) = n
  BY <1>2
<1>4. ModelErrorBefore(s, Len(events) + 2) =
        IF last = {} THEN "none" ELSE s[CHOOSE j \in last : TRUE].error
  BY DEF ModelErrorBefore
<1> HIDE DEF last, s
<1>5. ModelErrorBefore(s, Len(events) + 2) = s[n].error
  BY <1>2, <1>3, <1>4
<1> QED
  BY <1>1, <1>5 DEF s

\* One more event: the log tells of damage if it did before, or if this one does.
LEMMA DamagedAppend ==
  ASSUME NEW events \in Seq(EventRecord), NEW e \in EventRecord
  PROVE  Damaged(Append(events, e)) <=>
           Damaged(events) \/ TellsOfHurt(Append(events, e), Len(events) + 1)
<1> DEFINE longer == Append(events, e)
<1>1. /\ DOMAIN longer = 1..(Len(events) + 1)
      /\ DOMAIN events = 1..Len(events)
      /\ \A i \in 1..Len(events) : longer[i] = events[i]
  OBVIOUS
<1>2. \A i \in 1..Len(events) : TellsOfHurt(longer, i) <=> TellsOfHurt(events, i)
  BY <1>1, EarlierModelError DEF TellsOfHurt, ContextExhausted
<1> HIDE DEF longer
<1>3. Len(events) \in Nat
  OBVIOUS
<1> QED
  BY <1>1, <1>2, <1>3 DEF Damaged, longer

-----------------------------------------------------------------------------
(* One run *)

Place == {"absent", "model", "asked", "call", "grade", "over"} \cup Call

RunRecord ==
  [at : Place, turn : Nat, calls : Seq(Call),
   ended : BOOLEAN, goodbye : BOOLEAN, hurt : BOOLEAN,
   marred : BOOLEAN, reported : BOOLEAN,
   status : {"none", "error", "customer_ended", "max_turns"},
   events : Seq(EventRecord)]

\* A turn that is being executed has calls left, and the log of a run tells of
\* damage if and only if a call did fail.
RunOK(r) ==
  /\ r \in RunRecord
  /\ r.at \in {"call"} \cup Call => r.calls # <<>>
  /\ r.hurt <=> Damaged(r.events)

\* A run that has not begun, and one that begins.
LEMMA NewRuns == RunOK(NoRun) /\ RunOK(Begun)
<1>1. ~Damaged(<<>>)
  BY DEF Damaged
<1>2. <<>> \in Seq(Call) /\ <<>> \in Seq(EventRecord)
  OBVIOUS
<1>3. NoRun \in RunRecord
  BY <1>2 DEF NoRun, RunRecord, Place
<1>4. Begun \in RunRecord
  BY <1>3 DEF Begun, RunRecord, Place
<1>5. /\ NoRun.at = "absent" /\ NoRun.hurt = FALSE /\ NoRun.events = <<>>
  BY DEF NoRun
<1>6. /\ Begun.at = "model" /\ Begun.hurt = FALSE /\ Begun.events = <<>>
  BY DEF Begun, NoRun
<1> QED
  BY <1>1, <1>3, <1>4, <1>5, <1>6 DEF RunOK, Call

\* An event that does not tell of hurt may be logged.
LEMMA HarmlessEvent ==
  ASSUME NEW events \in Seq(EventRecord), NEW e \in EventRecord,
         ~TransportNamed(e.error) \/ e.type \notin {"observation", "agent_error"}
  PROVE  /\ Append(events, e) \in Seq(EventRecord)
         /\ Damaged(Append(events, e)) <=> Damaged(events)
<1>1. Append(events, e)[Len(events) + 1] = e
  OBVIOUS
<1>2. ~TellsOfHurt(Append(events, e), Len(events) + 1)
  BY <1>1 DEF TellsOfHurt
<1> QED
  BY <1>2, DamagedAppend

\* A run that raises for a reason the study takes for the agent's is no more hurt
\* than it was.
LEMMA RaisedOK ==
  ASSUME NEW r, RunOK(r), NEW error \in {"program", "timeout", "unnamed"}
  PROVE  RunOK(Raised(r, error)) /\ Raised(r, error).at = "grade"
<1> DEFINE e == Event("agent_error", error)
           s == Raised(r, error)
<1>1. r \in RunRecord /\ r.events \in Seq(EventRecord) /\ e \in EventRecord
  BY DEF RunOK, RunRecord, EventRecord, Event, Failures, HttpFailures, Losses
<1>2. ~TransportNamed(e.error)
  BY DEF TransportNamed, Event
<1>3. /\ Append(r.events, e) \in Seq(EventRecord)
      /\ Damaged(Append(r.events, e)) <=> Damaged(r.events)
  BY <1>1, <1>2, HarmlessEvent
<1>4. /\ s.at = "grade" /\ s.hurt = r.hurt /\ s.events = Append(r.events, e)
  BY <1>1 DEF Raised, RunRecord
<1>5. <<>> \in Seq(Call) /\ "grade" \in Place
  BY DEF Place
<1>6. s \in RunRecord
  BY <1>1, <1>3, <1>5 DEF Raised, RunRecord
<1> QED
  BY <1>3, <1>4, <1>6 DEF RunOK, Call

\* After a turn a run goes on with the next, or to the grader.
LEMMA AfterTurnOK ==
  ASSUME NEW r, r \in RunRecord, r.hurt <=> Damaged(r.events)
  PROVE  RunOK(AfterTurn(r)) /\ AfterTurn(r).at \in {"grade", "model"}
<1> DEFINE s == AfterTurn(r)
<1>1. <<>> \in Seq(Call) /\ {"grade", "model"} \subseteq Place
  BY DEF Place
<1>2. s.at \in {"grade", "model"} /\ s.hurt = r.hurt /\ s.events = r.events
  BY DEF AfterTurn, Finished, RunRecord
<1>3. ASSUME NEW status \in {"customer_ended", "max_turns"}
      PROVE  Finished(r, status) \in RunRecord
  BY <1>1 DEF Finished, RunRecord
<1>4. ASSUME NEW n \in Nat  PROVE [r EXCEPT !.at = "model", !.turn = n] \in RunRecord
  BY <1>1 DEF RunRecord
<1>5. r.turn + 1 \in Nat
  BY DEF RunRecord
<1>6. [r EXCEPT !.at = "model", !.turn = @ + 1] \in RunRecord
  BY <1>4, <1>5
<1>7. s \in RunRecord
  BY <1>3, <1>6 DEF AfterTurn
<1> QED
  BY <1>2, <1>7 DEF RunOK, Call

\* A call is answered: the next one of the turn, or the end of the turn.
LEMMA AnsweredOK ==
  ASSUME NEW r, RunOK(r), r.at \in Call
  PROVE  /\ RunOK(Answered(r))
         /\ Answered(r).at \in {"grade", "model", "call"}
         /\ Answered(r).at = "call" => Answered(r).turn = r.turn
<1>1. r \in RunRecord /\ r.calls \in Seq(Call) /\ r.calls # <<>>
  BY DEF RunOK, RunRecord
<1>2. CASE Len(r.calls) = 1
  <2> DEFINE s == [r EXCEPT !.calls = <<>>]
  <2>1. s.hurt = r.hurt /\ s.events = r.events
    BY <1>1 DEF RunRecord
  <2>2. <<>> \in Seq(Call)
    OBVIOUS
  <2>3. s \in RunRecord
    BY <1>1, <2>2 DEF RunRecord
  <2> HIDE DEF s
  <2>4. RunOK(AfterTurn(s)) /\ AfterTurn(s).at \in {"grade", "model"}
    BY <2>1, <2>3, AfterTurnOK DEF RunOK
  <2> QED
    BY <1>2, <2>4 DEF Answered, s
<1>3. CASE Len(r.calls) # 1
  <2> DEFINE s == Answered(r)
  <2>1. Len(r.calls) \in Nat /\ Len(r.calls) # 0
    BY <1>1, EmptySeq, LenProperties
  <2>2. Tail(r.calls) \in Seq(Call) /\ Tail(r.calls) # <<>>
    <3>1. /\ Tail(r.calls) \in Seq(Call)
          /\ Len(Tail(r.calls)) = Len(r.calls) - 1
      BY <1>1, HeadTailProperties
    <3>2. Len(Tail(r.calls)) # 0
      BY <1>3, <2>1, <3>1
    <3>3. Len(<<>>) = 0
      OBVIOUS
    <3> QED
      BY <3>1, <3>2, <3>3, Zenon
  <2>3. /\ s.at = "call" /\ s.turn = r.turn /\ s.hurt = r.hurt /\ s.events = r.events
        /\ s.calls = Tail(r.calls)
    BY <1>1, <1>3 DEF Answered, RunRecord
  <2>4. s \in RunRecord
    BY <1>1, <1>3, <2>2 DEF Answered, RunRecord, Place
  <2> QED
    BY <2>2, <2>3, <2>4 DEF RunOK
<1> QED
  BY <1>2, <1>3

\* A failure on the way hurts a run if its name is known, and changes nothing else
\* that the log is compared with.
LEMMA LostRun ==
  ASSUME NEW r \in RunRecord, NEW error
  PROVE  /\ Lost(r, error) \in RunRecord
         /\ Lost(r, error).hurt = (r.hurt \/ error \in Named)
         /\ Lost(r, error).at = r.at /\ Lost(r, error).turn = r.turn
         /\ Lost(r, error).calls = r.calls /\ Lost(r, error).events = r.events
<1> DEFINE h == r.hurt \/ error \in {"http", "transport"}
           m == r.marred \/ error = "unnamed"
<1>1. h \in BOOLEAN /\ m \in BOOLEAN
  BY DEF RunRecord
<1>2. Lost(r, error) = [r EXCEPT !.hurt = h, !.marred = m]
  BY DEF Lost
<1>3. h = (r.hurt \/ error \in Named)
  BY DEF Named
<1> HIDE DEF h, m
<1> QED
  BY <1>1, <1>2, <1>3 DEF RunRecord

\* Every failure of the model's call is in the log, and of those with a name the
\* study knows only a context that is exhausted is not taken for one.
LEMMA ModelFailedOK ==
  ASSUME NEW r, RunOK(r), NEW f \in Failures, NEW logged,
         logged = [Lost(r, f) EXCEPT !.events = Append(@, Event("model_error", f))],
         NEW seen, seen = IF f = "context" THEN "http" ELSE f
  PROVE  RunOK(Raised(logged, seen)) /\ Raised(logged, seen).at = "grade"
<1> DEFINE m == Event("model_error", f)
           a == Event("agent_error", seen)
           n == Len(r.events)
           long == Append(Append(r.events, m), a)
           s == Raised(logged, seen)
           l == Lost(r, f)
<1>1. /\ r \in RunRecord /\ r.events \in Seq(EventRecord) /\ n \in Nat
      /\ r.hurt \in BOOLEAN /\ r.hurt <=> Damaged(r.events)
  BY DEF RunOK, RunRecord
<1>2. m \in EventRecord /\ a \in EventRecord
  BY DEF EventRecord, Event, Failures, HttpFailures, Losses
<1>3. /\ Append(r.events, m) \in Seq(EventRecord)
      /\ Damaged(Append(r.events, m)) <=> Damaged(r.events)
  BY <1>1, <1>2, HarmlessEvent DEF Event
<1>4. long \in Seq(EventRecord) /\ Len(Append(r.events, m)) = n + 1
  BY <1>1, <1>2, <1>3
<1>5. long[n + 2] = a
  BY <1>1, <1>2, <1>3
<1>6. ModelErrorBefore(long, n + 2) = f
  BY <1>1, <1>2, LatestModelError DEF Event
<1>7. TellsOfHurt(long, n + 2) <=> f \in Named
  BY <1>5, <1>6
     DEF TellsOfHurt, TransportNamed, ContextExhausted, Event, Failures, HttpFailures, Losses, Named
<1>8. Damaged(long) <=> r.hurt \/ f \in Named
  <2>1. n + 2 = Len(Append(r.events, m)) + 1
    BY <1>1, <1>4
  <2>2. Damaged(long) <=> Damaged(Append(r.events, m)) \/ TellsOfHurt(long, n + 2)
    BY <1>2, <1>3, <2>1, DamagedAppend
  <2> QED
    BY <1>1, <1>3, <1>7, <2>2
<1>9. l \in RunRecord /\ l.events = r.events /\ l.hurt = (r.hurt \/ f \in Named)
  BY <1>1, LostRun
<1>10. logged = [l EXCEPT !.events = Append(r.events, m)]
  BY <1>9
<1> HIDE DEF m, a, long, l
<1>11. logged \in RunRecord /\ logged.events = Append(r.events, m) /\ logged.hurt = l.hurt
  BY <1>3, <1>9, <1>10 DEF RunRecord
<1>12. s.at = "grade" /\ s.hurt = (r.hurt \/ f \in Named) /\ s.events = long
  <2>1. s.at = "grade" /\ s.hurt = logged.hurt /\ s.events = Append(logged.events, a)
    BY <1>11 DEF Raised, RunRecord, a
  <2> QED
    BY <1>9, <1>11, <2>1 DEF long
<1>13. s \in RunRecord
  <2>1. Append(logged.events, a) = long /\ <<>> \in Seq(Call) /\ "grade" \in Place
    BY <1>11 DEF Place, long
  <2>2. Append(logged.events, a) \in Seq(EventRecord)
    BY <1>4, <2>1
  <2> QED
    BY <1>11, <2>1, <2>2 DEF Raised, RunRecord, a
<1> QED
  BY <1>8, <1>12, <1>13 DEF RunOK, Call

\* An observation that failed on its way is in the log as one.
LEMMA ObservedOK ==
  ASSUME NEW r, RunOK(r), NEW error \in {"domain"} \cup Losses, NEW s,
         s = [Lost(r, error) EXCEPT !.events = Append(@, Event("observation", error))]
  PROVE  /\ RunOK(s) /\ s.at = r.at /\ s.turn = r.turn
         /\ error = "transport" => s.hurt
<1> DEFINE o == Event("observation", error)
           n == Len(r.events)
           long == Append(r.events, o)
           l == Lost(r, error)
<1>1. /\ r \in RunRecord /\ r.events \in Seq(EventRecord) /\ n \in Nat
      /\ r.hurt \in BOOLEAN /\ r.hurt <=> Damaged(r.events)
  BY DEF RunOK, RunRecord
<1>2. o \in EventRecord
  BY DEF EventRecord, Event, Failures, HttpFailures, Losses
<1>3. long \in Seq(EventRecord) /\ long[n + 1] = o
  BY <1>1, <1>2
<1>4. TellsOfHurt(long, n + 1) <=> error \in Named
  BY <1>3 DEF TellsOfHurt, TransportNamed, Event, Named
<1>5. Damaged(long) <=> r.hurt \/ error \in Named
  BY <1>1, <1>2, <1>4, DamagedAppend
<1>6. /\ l \in RunRecord /\ l.events = r.events /\ l.hurt = (r.hurt \/ error \in Named)
      /\ l.at = r.at /\ l.turn = r.turn /\ l.calls = r.calls
  BY <1>1, LostRun
<1>7. s = [l EXCEPT !.events = long]
  BY <1>6
<1> HIDE DEF o, long, l
<1>8. /\ s \in RunRecord
      /\ s.at = l.at /\ s.turn = l.turn /\ s.hurt = l.hurt /\ s.events = long
      /\ s.calls = l.calls
  BY <1>3, <1>6, <1>7 DEF RunRecord
<1>9. RunOK(s)
  BY <1>5, <1>6, <1>8 DEF RunOK
<1> QED
  BY <1>6, <1>8, <1>9 DEF Named

\* A run that is hurt stays hurt in its log when it raises.
LEMMA HurtRaisedOK ==
  ASSUME NEW r, RunOK(r), r.hurt
  PROVE  RunOK(Raised(r, "transport")) /\ Raised(r, "transport").at = "grade"
<1> DEFINE a == Event("agent_error", "transport")
           s == Raised(r, "transport")
           long == Append(r.events, a)
<1>1. r \in RunRecord /\ r.events \in Seq(EventRecord) /\ a \in EventRecord
  BY DEF RunOK, RunRecord, EventRecord, Event, Failures, HttpFailures, Losses
<1>2. long \in Seq(EventRecord)
  BY <1>1
<1>3. Damaged(long)
  BY <1>1, DamagedAppend DEF RunOK
<1> HIDE DEF a, long
<1>4. s.at = "grade" /\ s.hurt = r.hurt /\ s.events = long
  BY <1>1 DEF Raised, RunRecord, a, long
<1>5. s \in RunRecord
  <2>1. <<>> \in Seq(Call) /\ "grade" \in Place
    BY DEF Place
  <2> QED
    BY <1>1, <1>2, <2>1 DEF Raised, RunRecord, a, long
<1> QED
  BY <1>3, <1>4, <1>5 DEF RunOK, Call

\* A grade tells nothing of hurt.
LEMMA GradedOK ==
  ASSUME NEW r, RunOK(r), NEW reported \in BOOLEAN
  PROVE  LET s == Over(r, reported)
             u == WithGrading(Over(r, reported))
         IN  RunOK(s) /\ s.at = "over" /\ RunOK(u) /\ u.at = "over"
<1> DEFINE g == Event("grading", "none")
           long == Append(r.events, g)
           s == Over(r, reported)
           u == WithGrading(Over(r, reported))
<1>1. r \in RunRecord /\ r.events \in Seq(EventRecord) /\ g \in EventRecord
  BY DEF RunOK, RunRecord, EventRecord, Event
<1>2. long \in Seq(EventRecord) /\ (Damaged(long) <=> Damaged(r.events))
  BY <1>1, HarmlessEvent DEF Event
<1>3. s \in RunRecord /\ s.at = "over" /\ s.hurt = r.hurt /\ s.events = r.events
  BY <1>1 DEF Over, RunRecord, Place
<1>4. u = [s EXCEPT !.events = long]
  BY <1>3 DEF WithGrading
<1> HIDE DEF long, s, u
<1>5. u \in RunRecord /\ u.at = "over" /\ u.hurt = r.hurt /\ u.events = long
  BY <1>2, <1>3, <1>4 DEF RunRecord
<1>6. RunOK(s) /\ RunOK(u)
  BY <1>2, <1>3, <1>5 DEF RunOK, Call
<1> QED
  BY <1>3, <1>5, <1>6 DEF s, u

-----------------------------------------------------------------------------
(* The runs, their requests and the log of the proxy *)

Reply == {NoRequest, "sent", "answered"} \cup Failures

\* Only a run that asked has a request, and an answer that is on its way, or that
\* the run has taken, is in the log.
RequestOK(t) ==
  /\ request[t] # NoRequest => run[t].at = "asked"
  /\ request[t] = "answered" => <<t, run[t].turn>> \in captured

TaskInv ==
  /\ run \in [Task -> RunRecord] /\ request \in [Task -> Reply]
  /\ \A t \in Task : RunOK(run[t]) /\ RequestOK(t)
  /\ AnswersCaptured

\* A step of a run that keeps what is said of that run keeps it all: the log of
\* the proxy only grows while runs go on.
LEMMA RunUpdated ==
  ASSUME TaskInv, NEW t \in Task, NEW r, NEW q \in Reply,
         run' = [run EXCEPT ![t] = r], request' = [request EXCEPT ![t] = q],
         captured \subseteq captured', RunOK(r),
         q # NoRequest => r.at = "asked",
         q = "answered" => <<t, r.turn>> \in captured',
         r.at \in {"call"} \cup Call => <<t, r.turn>> \in captured'
  PROVE  TaskInv'
<1>1. r \in RunRecord
  BY DEF RunOK
<1>2. run' \in [Task -> RunRecord] /\ request' \in [Task -> Reply]
  BY <1>1 DEF TaskInv
<1>3. run'[t] = r /\ request'[t] = q
  BY DEF TaskInv
<1>4. ASSUME NEW u \in Task, u # t
      PROVE  run'[u] = run[u] /\ request'[u] = request[u]
  BY <1>4 DEF TaskInv
<1>5. ASSUME NEW u \in Task  PROVE RunOK(run'[u]) /\ RequestOK(u)'
  BY <1>3, <1>4 DEF TaskInv, RequestOK
<1>6. AnswersCaptured'
  BY <1>3, <1>4 DEF TaskInv, AnswersCaptured
<1> QED
  BY <1>2, <1>5, <1>6 DEF TaskInv

\* The places of a step that is not the model's.
LEMMA RunGoesOn ==
  ASSUME TaskInv, NEW t \in Task, NEW r,
         run' = [run EXCEPT ![t] = r], UNCHANGED <<request, captured>>,
         run[t].at # "asked", RunOK(r),
         r.at \in {"call"} \cup Call => <<t, r.turn>> \in captured
  PROVE  TaskInv'
<1>1. request[t] = NoRequest /\ NoRequest \in Reply
  BY DEF TaskInv, RequestOK, Reply
<1>2. request' = [request EXCEPT ![t] = NoRequest]
  BY <1>1 DEF TaskInv
<1>3. NoRequest # "answered"
  BY DEF NoRequest
<1> QED
  BY <1>1, <1>2, <1>3, RunUpdated

\* Whatever a run does, its log and that of the proxy keep up with it.
LEMMA TaskStepKeeps ==
  ASSUME TaskInv, NEW t \in Task, RunTask(t) \/ Disconnect(t)
  PROVE  TaskInv'
<1> DEFINE r == run[t]
<1>1. r \in RunRecord /\ RunOK(r) /\ RequestOK(t)
  BY DEF TaskInv
<1>2. CASE CallModel(t)
  <2> DEFINE s == [r EXCEPT !.at = "asked"]
  <2>1. s \in RunRecord
    BY <1>1 DEF RunRecord, Place
  <2>2. s.at = "asked" /\ s.hurt = r.hurt /\ s.events = r.events
    BY <1>1 DEF RunRecord
  <2>3. RunOK(s)
    BY <1>1, <2>1, <2>2 DEF RunOK, Call
  <2>4. run' = [run EXCEPT ![t] = s]
    BY <1>2 DEF CallModel
  <2>5. "sent" \in Reply /\ "asked" \notin {"call"} \cup Call
    BY DEF Reply, Call
  <2> HIDE DEF s
  <2> QED
    BY <1>2, <2>2, <2>3, <2>4, <2>5, RunUpdated DEF CallModel
<1>3. CASE Relay(t) \/ Disconnect(t)
  <2>1. /\ run' = [run EXCEPT ![t] = r] /\ captured \subseteq captured'
        /\ r.at = "asked"
    BY <1>3, <1>1 DEF Relay, Disconnect, TaskInv, RequestOK, NoRequest
  <2>2. PICK q \in Reply : /\ request' = [request EXCEPT ![t] = q]
                           /\ q = "answered" => <<t, r.turn>> \in captured'
    BY <1>3 DEF Relay, Disconnect, Reply, Failures, HttpFailures, Losses
  <2>3. "asked" \notin {"call"} \cup Call
    BY DEF Call
  <2> QED
    BY <1>1, <2>1, <2>2, <2>3, RunUpdated
<1>4. CASE ModelAnswers(t)
  <2>1. captured' = captured /\ <<t, r.turn>> \in captured
    BY <1>1, <1>4 DEF ModelAnswers, RequestOK
  <2>2. /\ request' = [request EXCEPT ![t] = NoRequest] /\ NoRequest \in Reply
        /\ NoRequest # "answered"
    BY <1>4 DEF ModelAnswers, Reply, NoRequest
  <2>3. ASSUME NEW s, run' = [run EXCEPT ![t] = s], RunOK(s), s.at = "call" => s.turn = r.turn,
               s.at \notin Call
        PROVE  TaskInv'
    BY <2>1, <2>2, <2>3, RunUpdated
  <2>4. RunOK(AfterTurn(r)) /\ AfterTurn(r).at \in {"grade", "model"}
    BY <1>1, AfterTurnOK DEF RunOK
  <2>5. RunOK(Raised(r, "program")) /\ Raised(r, "program").at = "grade"
    BY <1>1, RaisedOK
  <2>6. ASSUME NEW calls \in Turns, calls # <<>>
        PROVE  /\ RunOK([r EXCEPT !.at = "call", !.calls = calls])
               /\ [r EXCEPT !.at = "call", !.calls = calls].at = "call"
               /\ [r EXCEPT !.at = "call", !.calls = calls].turn = r.turn
    <3> DEFINE s == [r EXCEPT !.at = "call", !.calls = calls]
    <3>1. calls \in Seq(Call)
      BY TurnsAreCalls
    <3>2. s \in RunRecord
      BY <1>1, <3>1 DEF RunRecord, Place
    <3>3. s.at = "call" /\ s.turn = r.turn /\ s.hurt = r.hurt /\ s.events = r.events /\ s.calls = calls
      BY <1>1 DEF RunRecord
    <3> QED
      BY <1>1, <2>6, <3>2, <3>3 DEF RunOK
  <2>7. {"grade", "model", "call"} \cap Call = {}
    BY DEF Call
  <2>8. \/ \E calls \in Turns :
             run' = [run EXCEPT ![t] = IF calls = <<>> THEN AfterTurn(r)
                                       ELSE [r EXCEPT !.at = "call", !.calls = calls]]
        \/ run' = [run EXCEPT ![t] = Raised(r, "program")]
    BY <1>4 DEF ModelAnswers
  <2> QED
    BY <2>3, <2>4, <2>5, <2>6, <2>7, <2>8
<1>5. CASE ModelFails(t)
  <2> DEFINE f == request[t]
             logged == [Lost(r, f) EXCEPT !.events = Append(@, Event("model_error", f))]
             seen == IF f = "context" THEN "http" ELSE f
             s == Raised(logged, seen)
  <2>1. run' = [run EXCEPT ![t] = s]
    BY <1>5 DEF ModelFails
  <2>2. f \in Failures
    BY <1>5 DEF ModelFails
  <2>3. /\ logged = [Lost(r, f) EXCEPT !.events = Append(@, Event("model_error", f))]
        /\ seen = IF f = "context" THEN "http" ELSE f
    OBVIOUS
  <2> HIDE DEF f, r, logged, seen
  <2>4. RunOK(s) /\ s.at = "grade"
    BY <1>1, <2>2, <2>3, ModelFailedOK
  <2>5. /\ request' = [request EXCEPT ![t] = NoRequest] /\ NoRequest \in Reply
        /\ NoRequest # "answered" /\ captured' = captured /\ "grade" \notin {"call"} \cup Call
    BY <1>5 DEF ModelFails, Reply, NoRequest, Call
  <2> HIDE DEF s
  <2> QED
    BY <2>1, <2>4, <2>5, RunUpdated
<1>6. CASE StartCall(t)
  <2>1. r.at = "call" /\ r.calls \in Seq(Call) /\ r.calls # <<>> /\ <<t, r.turn>> \in captured
    BY <1>1, <1>6 DEF StartCall, RunOK, RunRecord, TaskInv, AnswersCaptured
  <2>2. Head(r.calls) \in Call
    BY <2>1, HeadTailProperties
  <2>3. /\ RunOK([r EXCEPT !.at = Head(r.calls)])
        /\ [r EXCEPT !.at = Head(r.calls)].turn = r.turn
    <3> DEFINE s == [r EXCEPT !.at = Head(r.calls)]
    <3>1. s \in RunRecord
      BY <1>1, <2>2 DEF RunRecord, Place
    <3>2. s.turn = r.turn /\ s.hurt = r.hurt /\ s.events = r.events /\ s.calls = r.calls
      BY <1>1 DEF RunRecord
    <3> QED
      BY <1>1, <2>1, <3>1, <3>2 DEF RunOK
  <2>4. RunOK(Raised(r, "program")) /\ Raised(r, "program").at = "grade"
    BY <1>1, RaisedOK
  <2>5. /\ run' = [run EXCEPT ![t] = IF Head(r.calls) = "blank" THEN Raised(r, "program")
                                     ELSE [r EXCEPT !.at = Head(r.calls)]]
        /\ UNCHANGED <<request, captured>>
    BY <1>6 DEF StartCall
  <2>6. r.at # "asked" /\ "grade" \notin {"call"} \cup Call
    BY <2>1 DEF Call
  <2> QED
    BY <2>1, <2>3, <2>4, <2>5, <2>6, RunGoesOn
<1>7. ASSUME NEW s, RunOK(s), s.at = r.at, s.turn = r.turn, r.at \in Call,
             run' = [run EXCEPT ![t] = Answered(s)], UNCHANGED <<request, captured>>
      PROVE  TaskInv'
  <2>1. <<t, r.turn>> \in captured
    BY <1>7 DEF TaskInv, AnswersCaptured
  <2>2. /\ RunOK(Answered(s)) /\ Answered(s).at \in {"grade", "model", "call"}
        /\ Answered(s).at = "call" => Answered(s).turn = r.turn
    BY <1>7, AnsweredOK
  <2>3. r.at # "asked" /\ {"grade", "model"} \cap ({"call"} \cup Call) = {}
    BY <1>7 DEF Call
  <2> QED
    BY <1>7, <2>1, <2>2, <2>3, RunGoesOn
<1>8. CASE CustomerReplies(t)
  <2>1. PICK ended \in BOOLEAN :
          run' = [run EXCEPT ![t] =
                    Answered([r EXCEPT !.ended = ended, !.goodbye = @ \/ ended])]
    BY <1>8 DEF CustomerReplies
  <2> DEFINE goodbye == r.goodbye \/ ended
             s == [r EXCEPT !.ended = ended, !.goodbye = goodbye]
  <2>2. goodbye \in BOOLEAN
    BY <1>1 DEF RunRecord
  <2>3. run' = [run EXCEPT ![t] = Answered(s)]
    BY <2>1
  <2> HIDE DEF goodbye
  <2>4. /\ s.at = r.at /\ s.turn = r.turn /\ s.hurt = r.hurt /\ s.events = r.events
        /\ s.calls = r.calls
    BY <1>1 DEF RunRecord
  <2>5. s \in RunRecord
    BY <1>1, <2>2 DEF RunRecord
  <2>6. RunOK(s)
    BY <1>1, <2>4, <2>5 DEF RunOK
  <2> HIDE DEF s
  <2> QED
    BY <1>7, <1>8, <2>3, <2>4, <2>6 DEF CustomerReplies, Call
<1>9. CASE CustomerFails(t)
  <2>1. PICK loss \in Losses :
          run' = [run EXCEPT ![t] =
            Raised([Lost(r, loss) EXCEPT !.events = Append(@, Event("observation", loss))], loss)]
    BY <1>9 DEF CustomerFails
  <2> DEFINE logged == [Lost(r, loss) EXCEPT !.events = Append(@, Event("observation", loss))]
  <2>2. RunOK(logged) /\ (loss = "transport" => logged.hurt)
    BY <1>1, ObservedOK
  <2>3. /\ run' = [run EXCEPT ![t] = Raised(logged, loss)]
        /\ UNCHANGED <<request, captured>> /\ r.at = "talk"
    BY <1>9, <2>1 DEF CustomerFails
  <2> HIDE DEF logged
  <2>4. RunOK(Raised(logged, loss)) /\ Raised(logged, loss).at = "grade"
    BY <2>2, HurtRaisedOK, RaisedOK DEF Losses
  <2>5. r.at # "asked" /\ "grade" \notin {"call"} \cup Call
    BY <2>3 DEF Call
  <2> QED
    BY <2>3, <2>4, <2>5, RunGoesOn
<1>10. CASE ToolReturns(t)
  <2>1. r.at = "tool" /\ UNCHANGED <<request, captured>> /\ "tool" \in Call
    BY <1>10 DEF ToolReturns, Call
  <2>2. PICK error \in {"none", "domain", "transport"} :
          run' = [run EXCEPT ![t] =
                    Answered([Lost(r, error) EXCEPT
                      !.events = IF error = "none" THEN @
                                 ELSE Append(@, Event("observation", error))])]
    BY <1>10 DEF ToolReturns
  <2> DEFINE s == [Lost(r, error) EXCEPT
                     !.events = IF error = "none" THEN @
                                ELSE Append(@, Event("observation", error))]
  <2>3. run' = [run EXCEPT ![t] = Answered(s)]
    BY <2>2
  <2>4. RunOK(s) /\ s.at = r.at /\ s.turn = r.turn
    <3>1. CASE error = "none"
      <4> DEFINE l == Lost(r, error)
      <4>1. /\ l \in RunRecord /\ l.hurt = (r.hurt \/ error \in Named)
            /\ l.at = r.at /\ l.turn = r.turn /\ l.calls = r.calls /\ l.events = r.events
        BY <1>1, LostRun
      <4>2. s = [l EXCEPT !.events = l.events]
        BY <3>1
      <4> HIDE DEF l
      <4>3. s = l
        BY <4>1, <4>2 DEF RunRecord
      <4>4. l.hurt = r.hurt
        BY <1>1, <3>1, <4>1 DEF Named, RunRecord
      <4> HIDE DEF s
      <4> QED
        BY <1>1, <4>1, <4>3, <4>4 DEF RunOK
    <3>2. CASE error # "none"
      <4>1. s = [Lost(r, error) EXCEPT !.events = Append(@, Event("observation", error))]
        BY <3>2
      <4>2. error \in {"domain"} \cup Losses
        BY <3>2 DEF Losses
      <4> HIDE DEF s, r
      <4> QED
        BY <1>1, <4>1, <4>2, ObservedOK
    <3> QED
      BY <3>1, <3>2
  <2> HIDE DEF s
  <2> QED
    BY <1>7, <2>1, <2>3, <2>4
<1>11. CASE TimeOut(t)
  <2>1. RunOK(Raised(r, "timeout")) /\ Raised(r, "timeout").at = "grade"
    BY <1>1, RaisedOK
  <2>2. /\ request' = [request EXCEPT ![t] = NoRequest] /\ NoRequest \in Reply
        /\ NoRequest # "answered" /\ captured' = captured /\ "grade" \notin {"call"} \cup Call
        /\ run' = [run EXCEPT ![t] = Raised(r, "timeout")]
    BY <1>11 DEF TimeOut, Reply, NoRequest, Call
  <2> QED
    BY <2>1, <2>2, RunUpdated
<1>12. CASE Grade(t) \/ GraderRaises(t)
  <2>1. UNCHANGED <<request, captured>> /\ r.at # "asked" /\ "over" \notin {"call"} \cup Call
    BY <1>12 DEF Grade, GraderRaises, Call
  <2>2. ASSUME NEW s, run' = [run EXCEPT ![t] = s], RunOK(s), s.at = "over"
        PROVE  TaskInv'
    BY <2>1, <2>2, RunGoesOn
  <2>3. CASE Grade(t)
    <3>1. PICK reported \in BOOLEAN :
            run' = [run EXCEPT ![t] = WithGrading(Over(@, reported))]
      BY <2>3 DEF Grade
    <3> DEFINE s == WithGrading(Over(r, reported))
    <3>2. run' = [run EXCEPT ![t] = s]
      BY <3>1
    <3>3. RunOK(s) /\ s.at = "over"
      BY <1>1, GradedOK
    <3> QED
      BY <2>2, <3>2, <3>3
  <2>4. CASE GraderRaises(t)
    <3>1. PICK reported \in BOOLEAN : run' = [run EXCEPT ![t] = Over(@, reported)]
      BY <2>4 DEF GraderRaises
    <3> DEFINE s == Over(r, reported)
    <3>2. run' = [run EXCEPT ![t] = s]
      BY <3>1
    <3>3. RunOK(s) /\ s.at = "over"
      BY <1>1, GradedOK
    <3> QED
      BY <2>2, <3>2, <3>3
  <2> QED
    BY <1>12, <2>3, <2>4
<1> QED
  BY <1>2, <1>3, <1>4, <1>5, <1>6, <1>8, <1>9, <1>10, <1>11, <1>12 DEF RunTask

-----------------------------------------------------------------------------
(* The evaluation *)

Score == [start : Nat, attempt : Nat, failed : BOOLEAN, marred : BOOLEAN]
Studying == {"idle", "loop", "running", "inspect", "returned", "failed"}

ScoresClean(scores) ==
  scores \in [Task -> Score] /\ \A t \in Task : ~scores[t].failed

\* Nothing runs when the child process does not.
Quiet == study.at \notin {"running", "inspect"} => \A t \in Task : run[t].at = "absent"

EvaluationInv ==
  /\ TaskInv
  /\ study \in [at : Studying, attempt : Nat, start : Nat]
  /\ ScoresClean(completed) /\ ScoresClean(partial)
  /\ ExclusionsJustified
  /\ Quiet

\* When the child process ends, so do its runs.
LEMMA RunsEnded ==
  ASSUME EndRuns
  PROVE  TaskInv' /\ ExclusionsJustified' /\ Quiet'
<1>1. run' \in [Task -> RunRecord] /\ request' \in [Task -> Reply]
  BY NewRuns DEF EndRuns, RunOK, Reply
<1>2. \A t \in Task : run'[t] = NoRun /\ request'[t] = NoRequest
  BY DEF EndRuns
<1>3. NoRun.at = "absent" /\ "absent" \notin {"call"} \cup Call /\ NoRequest # "answered"
  BY DEF NoRun, Call, NoRequest
<1>4. \A t \in Task : RunOK(run'[t]) /\ RequestOK(t)'
  BY <1>2, <1>3, NewRuns DEF RequestOK
<1>5. AnswersCaptured' /\ Quiet'
  BY <1>2, <1>3 DEF AnswersCaptured, Quiet
<1>6. ExclusionsJustified'
  BY DEF EndRuns, ExclusionsJustified
<1> QED
  BY <1>1, <1>4, <1>5, <1>6 DEF TaskInv

\* A study without scores has no bad ones.
LEMMA NoScoresClean == ScoresClean(NoScores)
BY DEF ScoresClean, NoScores, NoScore, Score

\* A study that has not begun.
LEMMA EvaluationInit == Init => EvaluationInv
<1> SUFFICES ASSUME Init  PROVE EvaluationInv
  OBVIOUS
<1>1. run \in [Task -> RunRecord] /\ request \in [Task -> Reply]
  BY NewRuns DEF Init, TaskInit, RunOK, Reply
<1>2. \A t \in Task : run[t] = NoRun /\ request[t] = NoRequest
  BY DEF Init, TaskInit
<1>3. NoRun.at = "absent" /\ "absent" \notin {"call"} \cup Call /\ NoRequest # "answered"
  BY DEF NoRun, Call, NoRequest
<1>4. \A t \in Task : RunOK(run[t]) /\ RequestOK(t)
  BY <1>2, <1>3, NewRuns DEF RequestOK
<1>5. AnswersCaptured /\ Quiet
  BY <1>2, <1>3 DEF AnswersCaptured, Quiet
<1>6. /\ study \in [at : Studying, attempt : Nat, start : Nat]
      /\ ScoresClean(completed) /\ ScoresClean(partial) /\ ExclusionsJustified
  BY NoScoresClean DEF Init, Studying, ExclusionsJustified
<1> QED
  BY <1>1, <1>4, <1>5, <1>6 DEF EvaluationInv, TaskInv

\* What a step that leaves the runs alone keeps.
LEMMA RunsUnchanged ==
  ASSUME TaskInv, UNCHANGED <<run, request, captured>>
  PROVE  TaskInv'
BY DEF TaskInv, RequestOK, AnswersCaptured

\* A run that is inspected counts, or it is left out, with a reason.
LEMMA InspectKeeps ==
  ASSUME EvaluationInv, NEW t \in Task, Inspect(t)
  PROVE  EvaluationInv'
<1>1. /\ run[t].at = "over" /\ RunOK(run[t]) /\ run[t] \in RunRecord /\ request[t] \in Reply
      /\ study.at = "inspect" /\ UNCHANGED <<request, captured, study, partial, result>>
  BY DEF Inspect, EvaluationInv, TaskInv, At, files
<1>2. TaskInv'
  <2>1. RunOK(NoRun) /\ NoRun.at \notin {"asked", "call"} \cup Call
    BY NewRuns DEF NoRun, Call
  <2>2. request[t] = NoRequest /\ NoRequest # "answered"
    BY <1>1 DEF EvaluationInv, TaskInv, RequestOK, NoRequest
  <2>3. run' = [run EXCEPT ![t] = NoRun] /\ request' = [request EXCEPT ![t] = NoRequest]
    BY <1>1, <2>2 DEF Inspect, EvaluationInv, TaskInv
  <2> QED
    BY <1>1, <2>1, <2>2, <2>3, RunUpdated DEF EvaluationInv
<1>3. Quiet'
  BY <1>1 DEF Quiet
<1>4. ScoresClean(completed') /\ ExclusionsJustified'
  <2>1. CASE InspectRecord(run[t])
    <3> DEFINE e == [failed |-> Failed(run[t]), graded |-> Graded(run[t])]
    <3>1. excluded' = excluded \cup {e} /\ completed' = completed
      BY <2>1 DEF Inspect
    <3>2. Failed(run[t]) \/ ~Graded(run[t])
      BY <1>1, <2>1, InspectRecordIs DEF RunOK, Failed
    <3>3. e.failed = Failed(run[t]) /\ e.graded = Graded(run[t])
      OBVIOUS
    <3> HIDE DEF e
    <3> QED
      BY <3>1, <3>2, <3>3 DEF EvaluationInv, ExclusionsJustified
  <2>2. CASE ~InspectRecord(run[t])
    <3>1. completed' = [completed EXCEPT ![t] = Record(t)] /\ excluded' = excluded
      BY <2>2 DEF Inspect
    <3>2. ~Failed(run[t])
      BY <1>1, <2>2, InspectRecordIs DEF RunOK, Failed
    <3>3. Record(t).failed = Failed(run[t]) /\ Record(t) \in Score
      <4>1. Failed(run[t]) \in BOOLEAN /\ run[t].marred \in BOOLEAN
        BY <1>1 DEF Failed, RunRecord
      <4> QED
        BY <4>1 DEF Record, Score, EvaluationInv
    <3> QED
      BY <3>1, <3>2, <3>3 DEF EvaluationInv, ExclusionsJustified, ScoresClean
  <2> QED
    BY <2>1, <2>2
<1> QED
  BY <1>1, <1>2, <1>3, <1>4 DEF EvaluationInv

\* Every step of the study, and of a run, keeps the scores in keeping with the runs.
LEMMA EvaluationStep ==
  ASSUME EvaluationInv, [Next]_vars
  PROVE  EvaluationInv'
<1>1. /\ TaskInv /\ study \in [at : Studying, attempt : Nat, start : Nat]
      /\ ScoresClean(completed) /\ ScoresClean(partial) /\ ExclusionsJustified /\ Quiet
  BY DEF EvaluationInv
<1>2. ASSUME NEW place \in Studying
      PROVE  /\ [study EXCEPT !.at = place] \in [at : Studying, attempt : Nat, start : Nat]
             /\ [study EXCEPT !.at = place].at = place
  BY <1>1
<1>3. [study EXCEPT !.at = "loop", !.attempt = @ + 1]
        \in [at : Studying, attempt : Nat, start : Nat]
  <2>1. ASSUME NEW n \in Nat
        PROVE  [study EXCEPT !.at = "loop", !.attempt = n]
                 \in [at : Studying, attempt : Nat, start : Nat]
    BY <1>1 DEF Studying
  <2>2. study.attempt + 1 \in Nat
    BY <1>1
  <2> QED
    BY <2>1, <2>2
<1>4. CASE Evaluate
  <2>1. TaskInv' /\ ExclusionsJustified'
    BY <1>1, <1>4, RunsUnchanged DEF Evaluate, ExclusionsJustified
  <2>2. Quiet'
    BY <1>1, <1>4 DEF Evaluate, Quiet, At
  <2>3. study' \in [at : Studying, attempt : Nat, start : Nat]
    <3>1. [study EXCEPT !.at = "loop", !.attempt = 1] \in [at : Studying, attempt : Nat, start : Nat]
      BY <1>1 DEF Studying
    <3> QED
      BY <1>2, <1>4, <3>1 DEF Evaluate, GoTo, Studying
  <2>4. ScoresClean(completed') /\ ScoresClean(partial')
    BY <1>1, <1>4 DEF Evaluate, files
  <2> QED
    BY <2>1, <2>2, <2>3, <2>4 DEF EvaluationInv
<1>5. CASE Attempt
  <2>1. /\ run' \in [Task -> RunRecord] /\ request' \in [Task -> Reply]
        /\ \A t \in Task : /\ RunOK(run'[t]) /\ run'[t].at \in {"absent", "model"}
                            /\ request'[t] = NoRequest
    <3>1. \A t \in Task : run[t] \in RunRecord /\ RunOK(run[t]) /\ run[t].at = "absent"
                          /\ request[t] = NoRequest
      BY <1>1, <1>5 DEF Attempt, At, Quiet, TaskInv, RequestOK
    <3>2. Begun \in RunRecord /\ RunOK(Begun) /\ Begun.at = "model"
      BY NewRuns DEF RunOK, Begun, NoRun
    <3>3. \A t \in Task : run'[t] = run[t] \/ run'[t] = Begun
      BY <1>5 DEF Attempt
    <3>4. run' = [t \in Task |-> run'[t]] /\ request' = request
      BY <1>5 DEF Attempt
    <3> QED
      BY <1>1, <3>1, <3>2, <3>3, <3>4 DEF TaskInv
  <2>2. TaskInv'
    <3>1. {"absent", "model"} \cap ({"call"} \cup Call) = {} /\ NoRequest # "answered"
      BY DEF Call, NoRequest
    <3> QED
      BY <2>1, <3>1 DEF TaskInv, RequestOK, AnswersCaptured
  <2>3. study' = [study EXCEPT !.at = "running"] /\ excluded' = {}
        /\ UNCHANGED <<completed, partial>>
    BY <1>5 DEF Attempt, GoTo
  <2>4. Quiet' /\ ExclusionsJustified' /\ study' \in [at : Studying, attempt : Nat, start : Nat]
    BY <1>2, <2>3 DEF Quiet, ExclusionsJustified, Studying
  <2> QED
    BY <1>1, <2>2, <2>3, <2>4 DEF EvaluationInv
<1>6. CASE Scored
  <2>1. study' = [study EXCEPT !.at = "inspect"]
        /\ UNCHANGED <<run, request, captured, completed, partial, excluded>>
    BY <1>6 DEF Scored, GoTo, files
  <2>2. TaskInv' /\ ExclusionsJustified'
    BY <1>1, <2>1, RunsUnchanged DEF ExclusionsJustified
  <2>3. Quiet' /\ study' \in [at : Studying, attempt : Nat, start : Nat]
    BY <1>2, <2>1 DEF Quiet, Studying
  <2> QED
    BY <1>1, <2>1, <2>2, <2>3 DEF EvaluationInv
<1>7. CASE SavePartial
  <2>1. TaskInv' /\ ExclusionsJustified'
    BY <1>1, <1>7, RunsUnchanged DEF SavePartial, ExclusionsJustified
  <2>2. Quiet'
    BY <1>7 DEF SavePartial, Quiet
  <2>3. study' \in [at : Studying, attempt : Nat, start : Nat]
    BY <1>3, <1>7 DEF SavePartial
  <2> QED
    BY <1>1, <1>7, <2>1, <2>2, <2>3 DEF EvaluationInv, SavePartial
<1>8. CASE Conclude
  <2>1. TaskInv' /\ ExclusionsJustified'
    BY <1>1, <1>8, RunsUnchanged DEF Conclude, ExclusionsJustified
  <2>2. Quiet'
    BY <1>1, <1>8 DEF Conclude, Quiet, At
  <2>3. study' \in [at : Studying, attempt : Nat, start : Nat]
    BY <1>2, <1>8 DEF Conclude, GoTo, Studying
  <2> QED
    BY <1>1, <1>8, <2>1, <2>2, <2>3 DEF EvaluationInv, Conclude
<1>9. CASE ScoresMissing \/ ChildTimesOut \/ RewardMissing \/ Restart
  <2>1. TaskInv' /\ ExclusionsJustified' /\ Quiet'
    BY <1>9, RunsEnded DEF ScoresMissing, ChildTimesOut, RewardMissing, Restart
  <2>2. study' \in [at : Studying, attempt : Nat, start : Nat]
    <3>1. [at |-> "idle", attempt |-> 0, start |-> study.start + 1]
            \in [at : Studying, attempt : Nat, start : Nat]
      BY <1>1 DEF Studying
    <3> QED
      BY <1>2, <1>3, <1>9, <3>1
      DEF ScoresMissing, ChildTimesOut, RewardMissing, Restart, GoTo, Studying
  <2>3. ScoresClean(completed') /\ ScoresClean(partial')
    BY <1>1, <1>9, NoScoresClean
    DEF ScoresMissing, ChildTimesOut, RewardMissing, Restart, files
  <2> QED
    BY <2>1, <2>2, <2>3 DEF EvaluationInv
<1>10. ASSUME NEW t \in Task, TaskStep(t) \/ TaskLoss(t)
       PROVE  EvaluationInv'
  <2>1. TaskInv' /\ UNCHANGED <<study, completed, excluded, partial>>
    BY <1>1, <1>10, TaskStepKeeps DEF TaskStep, TaskLoss, files
  <2>2. run[t].at # "absent"
    <3>1. request[t] # NoRequest => run[t].at # "absent"
      BY <1>1 DEF TaskInv, RequestOK
    <3> QED
      BY <1>10, <3>1
      DEF TaskStep, TaskLoss, RunTask, Disconnect, CallModel, Relay, ModelFails, ModelAnswers,
          StartCall, CustomerReplies, CustomerFails, ToolReturns, TimeOut, Grade, GraderRaises,
          NoRequest
  <2>3. Quiet'
    BY <1>1, <2>1, <2>2 DEF Quiet
  <2> QED
    BY <1>1, <2>1, <2>3 DEF EvaluationInv, ExclusionsJustified
<1>11. CASE UNCHANGED vars
  <2>1. TaskInv'
    BY <1>1, <1>11, RunsUnchanged DEF vars
  <2> QED
    BY <1>1, <1>11, <2>1 DEF EvaluationInv, ExclusionsJustified, Quiet, vars
<1> QED
  BY <1>4, <1>5, <1>6, <1>7, <1>8, <1>9, <1>10, <1>11, InspectKeeps DEF Next, StudyStep

\* The runs, the scores and the exclusions agree with what the runs went through.
THEOREM EvaluationSound == Spec => []EvaluationInv
<1>1. Init => EvaluationInv
  BY EvaluationInit
<1>2. EvaluationInv /\ [Next]_vars => EvaluationInv'
  BY EvaluationStep
<1> QED
  BY <1>1, <1>2, PTL DEF Spec

\* No run in which a call failed on its way under a name TRANSPORT has, and none whose
\* record reports an error, has a score, however the agent went on, how often the runs
\* are tried again and whenever the study is started again (inspect_record,
\* full_study.py).
THEOREM ScoresAreClean == Spec => []ScoredRunsClean
<1>1. EvaluationInv => ScoredRunsClean
  BY DEF EvaluationInv, ScoresClean, ScoredRunsClean
<1> QED
  BY <1>1, EvaluationSound, PTL

\* A run is left out of the scores only when it was hurt so, its record reports an
\* error or it has no grade: what the agent itself did wrong is never tried again.
THEOREM ExclusionsAreJustified == Spec => []ExclusionsJustified
<1>1. EvaluationInv => ExclusionsJustified
  BY DEF EvaluationInv
<1> QED
  BY <1>1, EvaluationSound, PTL

\* Whatever dies between two steps, an answer that an agent acts on is in the log
\* of the proxy (capture_proxy.py).
THEOREM AnswersAreCaptured == Spec => []AnswersCaptured
<1>1. EvaluationInv => AnswersCaptured
  BY DEF EvaluationInv, TaskInv
<1> QED
  BY <1>1, EvaluationSound, PTL
=============================================================================
