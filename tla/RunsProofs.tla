----------------------------- MODULE RunsProofs -----------------------------
(***************************************************************************)
(* A run in progress has a worker that will write what becomes of it, and  *)
(* a thread has its session behind it, for any number of calls, threads'   *)
(* starts and faults; runs follow their state machine, the assistant is    *)
(* the current one, and a list of messages misses nothing it could show.   *)
(***************************************************************************)
EXTENDS Runs, FiniteSetTheorems, TLAPS

IsCall(f) == f = [w \in Workers |-> f[w]]

\* What is kept for each call is kept for all of them.
Calls == IsCall(op) /\ IsCall(pc) /\ IsCall(outcome) /\ IsCall(verb)

\* A call that has answered is over.
Settled == \A w \in Workers : outcome[w] # "pending" => pc[w] = "done"

\* Who is inside the executor, or about to start a run, executes one.
BegunBy(w) ==
    /\ Working(w) => w \in past
    /\ pc[w] = "writeRun" /\ verb[w] \in {"start", "submit"} =>
          w \in past /\ op[w] \in Executes
    /\ pc[w] = "readRun" /\ verb[w] \in {"start", "submit"} => op[w] \in Executes
    /\ pc[w] = "getThread" => op[w] \in DOMAIN AfterGet
    /\ pc[w] \in {"getAssistant", "getRow", "refill"} =>
          op[w] = "getAssistant" \/ op[w] \in DOMAIN AfterAssistant
    /\ pc[w] \in {"readRun", "writeRun"} => verb[w] \in {"none"} \cup DOMAIN Takes
    /\ pc[w] = "writeRun" => verb[w] # "none"
    /\ pc[w] \in {"scan", "scanMore", "getMany"} => op[w] \in Executes \cup Lists
    /\ pc[w] \in {"sdk", "addAnswer"} => op[w] \in Executes
Begun == \A w \in Workers : BegunBy(w)

\* Who will write the run in progress, or is excused.
Answers(w) == \/ Working(w) \/ outcome[w] = "failed"
              \/ op[w] = "streamRun" /\ outcome[w] # "pending"

RunInv ==
    /\ Calls /\ Settled /\ Begun
    /\ run \in Statuses \cup {None}
    /\ past \subseteq Workers
    /\ InProgressHasWorker

\* A worker takes a step: its place and its answer change, no one else's do.
LEMMA GotoMoves ==
    ASSUME Calls, NEW w \in Workers, NEW step, Goto(w, step)
    PROVE  /\ pc'[w] = step /\ \A v \in Workers \ {w} : pc'[v] = pc[v]
           /\ op' = op /\ outcome' = outcome
           /\ IsCall(pc') /\ IsCall(outcome')
BY DEF Goto, Calls, IsCall

LEMMA AnswerMoves ==
    ASSUME Calls, NEW w \in Workers, NEW result, Answer(w, result)
    PROVE  /\ pc'[w] = "done" /\ \A v \in Workers \ {w} : pc'[v] = pc[v]
           /\ outcome'[w] = result /\ \A v \in Workers \ {w} : outcome'[v] = outcome[v]
           /\ op' = op
           /\ IsCall(pc') /\ IsCall(outcome')
BY DEF Answer, Calls, IsCall

LEMMA CallMoves ==
    ASSUME Calls, NEW w \in Workers, NEW method, Call(w, method)
    PROVE  /\ pc'[w] = "readRun" /\ \A v \in Workers \ {w} : pc'[v] = pc[v]
           /\ op' = op /\ outcome' = outcome
           /\ verb'[w] = method /\ \A v \in Workers \ {w} : verb'[v] = verb[v]
           /\ IsCall(pc') /\ IsCall(outcome') /\ IsCall(verb')
BY DEF Call, Goto, Calls, IsCall

\* What a step of one worker changes of what the invariant speaks of.
Moves(w) ==
    /\ op' = op
    /\ \A v \in Workers \ {w} :
          pc'[v] = pc[v] /\ outcome'[v] = outcome[v] /\ verb'[v] = verb[v]
    /\ IsCall(pc') /\ IsCall(outcome') /\ IsCall(verb')
    /\ past \subseteq past' /\ past' \subseteq Workers

\* A step keeps the invariant if the worker that takes it keeps its own part, and
\* a run it leaves or puts in progress keeps who answers for it.
LEMMA OneStep ==
    ASSUME RunInv, NEW w \in Workers, Moves(w),
           outcome'[w] # "pending" => pc'[w] = "done",
           BegunBy(w)',
           run' \in Statuses \cup {None},
           run' = "in_progress" =>
              \/ w \in past' /\ Answers(w)'
              \/ run = "in_progress" /\ (w \in past /\ Answers(w) => Answers(w)')
    PROVE  RunInv'
<1>1. Calls'
  BY DEF RunInv, Calls, IsCall, Moves
<1>2. Settled'
  BY DEF RunInv, Settled, Moves
<1>3. ASSUME NEW v \in Workers \ {w}
      PROVE  /\ Answers(v)' <=> Answers(v)
             /\ BegunBy(v) => BegunBy(v)'
  <2>1. pc'[v] = pc[v] /\ outcome'[v] = outcome[v] /\ verb'[v] = verb[v] /\ op' = op
    BY DEF Moves
  <2>2. Working(v)' <=> Working(v)
    BY <2>1 DEF Working
  <2>3. Answers(v)' <=> Answers(v)
    BY <2>1, <2>2 DEF Answers
  <2>4. past \subseteq past'
    BY DEF Moves
  <2>5. BegunBy(v) => BegunBy(v)'
    BY <2>1, <2>2, <2>4 DEF BegunBy
  <2> QED
    BY <2>3, <2>5
<1>4. Begun'
  BY <1>3 DEF RunInv, Begun
<1>5. InProgressHasWorker'
  <2> SUFFICES ASSUME run' = "in_progress" PROVE \E v \in past' : Answers(v)'
    BY DEF InProgressHasWorker, Answers
  <2>1. CASE w \in past' /\ Answers(w)'
    BY <2>1 DEF Answers, Working
  <2>2. CASE run = "in_progress" /\ (w \in past /\ Answers(w) => Answers(w)')
    <3>1. PICK v \in past : Answers(v)
      BY <2>2 DEF RunInv, InProgressHasWorker, Answers
    <3>2. v \in Workers /\ past \subseteq past'
      BY DEF RunInv, Moves
    <3>3. CASE v = w
      BY <2>2, <3>1, <3>2, <3>3 DEF Answers, Working
    <3>4. CASE v # w
      <4>1. Answers(v)'
        BY <1>3, <3>1, <3>2, <3>4
      <4> QED
        BY <3>1, <3>2, <4>1 DEF Answers, Working
    <3> QED
      BY <3>3, <3>4
  <2> QED
    BY <2>1, <2>2
<1> QED
  BY <1>1, <1>2, <1>4, <1>5 DEF RunInv, Moves
\* The two shapes most steps have: the call goes on, or it answers.
LEMMA GotoKeeps ==
    ASSUME RunInv, NEW w \in Workers, NEW step, Goto(w, step), pc[w] # "done",
           run' = run, past' = past, verb' = verb,
           BegunBy(w)', Working(w) => Working(w)'
    PROVE  RunInv'
<1>1. Moves(w) /\ outcome' = outcome
  BY GotoMoves DEF Moves, RunInv, Calls
<1>2. outcome[w] = "pending"
  BY DEF RunInv, Settled
<1>3. Answers(w) => Answers(w)'
  BY <1>2 DEF Answers
<1>4. run' \in Statuses \cup {None}
  BY DEF RunInv
<1> QED
  BY <1>1, <1>2, <1>3, <1>4, OneStep

LEMMA AnswerKeeps ==
    ASSUME RunInv, NEW w \in Workers, NEW result, Answer(w, result), pc[w] # "done",
           run' = run, past' = past, IsCall(verb'),
           \A v \in Workers \ {w} : verb'[v] = verb[v],
           \/ run # "in_progress" \/ ~Working(w) \/ result = "failed"
           \/ op[w] = "streamRun" /\ result # "pending"
    PROVE  RunInv'
<1>1. Moves(w) /\ pc'[w] = "done" /\ outcome'[w] = result
  BY AnswerMoves DEF Moves, RunInv, Calls
<1>2. outcome[w] = "pending"
  BY DEF RunInv, Settled
<1>3. BegunBy(w)'
  BY <1>1 DEF BegunBy, Working
<1>4. run = "in_progress" => (Answers(w) => Answers(w)')
  BY <1>1, <1>2 DEF Answers, Moves
<1>5. run' \in Statuses \cup {None}
  BY DEF RunInv
<1> QED
  BY <1>1, <1>3, <1>4, <1>5, OneStep

----------------------------------------------------------------------------
(* The calls on threads and messages, and the listing an execution begins with *)

LEMMA ConvBeginKeeps ==
    ASSUME RunInv, NEW w \in Workers, ConvBegin(w), UNCHANGED <<runVars, asstVars, held>>
    PROVE  RunInv'
<1>1. Calls
  BY DEF RunInv
<1>2. Goto(w, ConvFirst[op[w]])
  BY DEF ConvBegin
<1>3. Moves(w) /\ outcome' = outcome /\ pc'[w] = ConvFirst[op[w]]
  BY <1>1, <1>2, GotoMoves DEF Moves, runVars, held, RunInv, Calls
<1>4. op[w] \in ConvOps /\ pc[w] = "start"
  BY DEF ConvBegin, At
<1>5. outcome[w] = "pending"
  BY <1>4 DEF RunInv, Settled
<1>6. op[w] \notin Executes /\ pc'[w] \notin {"writeRun", "readRun", "getAssistant", "getRow", "refill"}
      /\ (pc'[w] = "getThread" => op[w] \in DOMAIN AfterGet)
      /\ (pc'[w] = "scan" => op[w] \in Lists)
      /\ pc'[w] \notin {"scanMore", "getMany", "sdk", "addAnswer"}
  BY <1>3, <1>4 DEF ConvOps, ConvFirst, Executes, AfterGet, Lists
<1>7. BegunBy(w)'
  BY <1>3, <1>6 DEF BegunBy, Working, Moves
<1>8. Answers(w) => Answers(w)'
  BY <1>5, <1>6 DEF Answers, Working, Executes
<1>9. run' \in Statuses \cup {None} /\ run' = run
  BY DEF RunInv, runVars
<1> QED
  BY <1>3, <1>5, <1>7, <1>8, <1>9, OneStep

LEMMA ThreadStepKeeps ==
    ASSUME RunInv, NEW w \in Workers, UNCHANGED <<runVars, asstVars, held>>,
           \/ CreateSession(w) \/ CacheThread(w) \/ GetThread(w)
           \/ DeleteSession(w) \/ DropThread(w)
           \/ CacheMessage(w) \/ GetMessage(w) \/ ModifyMessage(w)
    PROVE  RunInv'
<1>1. run' = run /\ past' = past /\ verb' = verb /\ IsCall(verb')
  BY DEF runVars, held, RunInv, Calls, IsCall
<1>2. pc[w] # "done" /\ ~Working(w)
  BY DEF CreateSession, CacheThread, GetThread, DeleteSession, DropThread, CacheMessage,
         GetMessage, ModifyMessage, At, Working, ConvOps, ConvFirst, Executes
<1>3. ASSUME NEW step, Goto(w, step),
             step \notin {"readRun", "writeRun", "getAssistant", "getRow", "refill", "scan",
                          "scanMore", "getMany", "sdk", "addAnswer", "getThread"}
      PROVE  RunInv'
  <2>1. pc'[w] = step
    BY <1>3, GotoMoves DEF RunInv
  <2>2. BegunBy(w)'
    BY <1>3, <2>1 DEF BegunBy, Working
  <2> QED
    BY <1>1, <1>2, <1>3, <2>2, GotoKeeps
<1>4. ASSUME NEW result, Answer(w, result)
      PROVE  RunInv'
  BY <1>1, <1>2, <1>4, AnswerKeeps
<1>5. CASE CreateSession(w) \/ DeleteSession(w)
  BY <1>3, <1>5 DEF CreateSession, DeleteSession
<1>6. CASE CacheThread(w)
  BY <1>3, <1>4, <1>6 DEF CacheThread
<1>7. CASE GetThread(w)
  <2>1. op[w] \in DOMAIN AfterGet
    BY <1>7 DEF GetThread, At, RunInv, Begun, BegunBy
  <2>2. CASE Goto(w, AfterGet[op[w]])
    BY <1>3, <2>1, <2>2 DEF AfterGet
  <2> QED
    BY <1>4, <1>7, <2>2 DEF GetThread
<1>8. CASE DropThread(w) \/ CacheMessage(w) \/ ModifyMessage(w)
  BY <1>4, <1>8 DEF DropThread, CacheMessage, ModifyMessage
<1>9. CASE GetMessage(w)
  BY <1>3, <1>4, <1>9 DEF GetMessage
<1> QED
  BY <1>5, <1>6, <1>7, <1>8, <1>9

LEMMA ListingKeeps ==
    ASSUME RunInv, NEW w \in Workers, UNCHANGED <<runVars, asstVars, held>>,
           Scan(w) \/ ScanMore(w) \/ GetMany(w)
    PROVE  RunInv'
<1>1. run' = run /\ past' = past /\ verb' = verb /\ IsCall(verb')
  BY DEF runVars, held, RunInv, Calls, IsCall
<1>2. pc[w] \in {"scan", "scanMore", "getMany"}
  BY DEF Scan, ScanMore, GetMany, At
<1>3. /\ Working(w) => op[w] \in Executes /\ w \in past
      /\ op[w] \in Executes \cup Lists
  BY <1>2 DEF Working, RunInv, Begun, BegunBy
<1>4. ASSUME NEW step, Goto(w, step),
             step \in {"scanMore", "getMany"} \/ (step = "sdk" /\ op[w] \in Executes)
      PROVE  RunInv'
  <2>1. pc'[w] = step /\ op' = op
    BY <1>4, GotoMoves DEF RunInv
  <2>2. Working(w)' <=> Working(w)
    BY <1>2, <1>4, <2>1 DEF Working
  <2>3. BegunBy(w)'
    BY <1>1, <1>3, <1>4, <2>1, <2>2 DEF BegunBy
  <2> QED
    BY <1>1, <1>2, <1>4, <2>2, <2>3, GotoKeeps
<1>5. CASE Scan(w) \/ ScanMore(w)
  BY <1>4, <1>5 DEF Scan, ScanMore
<1>6. CASE GetMany(w)
  <2>1. CASE op[w] \in Lists /\ Answer(w, "ok")
    <3>1. ~Working(w)
      BY <2>1 DEF Working, Executes, Lists
    <3> QED
      BY <1>1, <1>2, <2>1, <3>1, AnswerKeeps
  <2>2. CASE op[w] \notin Lists /\ Goto(w, "sdk")
    BY <1>3, <1>4, <2>2
  <2> QED
    BY <1>6, <2>1, <2>2 DEF GetMany
<1> QED
  BY <1>5, <1>6

----------------------------------------------------------------------------
(* RunService *)

LEMMA RunBeginKeeps ==
    ASSUME RunInv, NEW w \in Workers, RunBegin(w)
    PROVE  RunInv'
<1>1. /\ pc[w] = "start" /\ outcome[w] = "pending"
      /\ op[w] \in DOMAIN RunFirst
      /\ run' = run /\ past' = past
  BY DEF RunBegin, At, RunInv, Settled, runVars
<1>2. Goto(w, RunFirst[op[w]])
  BY DEF RunBegin
<1>3. Moves(w) /\ outcome' = outcome /\ pc'[w] = RunFirst[op[w]]
  BY <1>1, <1>2, GotoMoves DEF Moves, RunInv, Calls, RunBegin, IsCall
<1>4. verb'[w] \in {"start", "submit"} => op[w] \in Executes
  BY <1>1 DEF RunBegin, FirstVerb, Executes, RunInv, Calls, IsCall
<1>. verb'[w] \in {"none"} \cup DOMAIN Takes
  BY <1>1 DEF RunBegin, FirstVerb, Takes, RunInv, Calls, IsCall
<1>5. BegunBy(w)'
  <2>1. pc'[w] \in {"createRun", "readRun", "insertRow", "getAssistant"}
        /\ (pc'[w] = "getAssistant" => op[w] = "getAssistant" \/ op[w] \in DOMAIN AfterAssistant)
        /\ (pc'[w] = "getAssistant" => op[w] \notin Executes)
    BY <1>1, <1>3 DEF RunFirst, AfterAssistant, Executes
  <2>2. op' = op
    BY <1>3 DEF Moves
  <2>3. ~Working(w)'
    <3>1. pc'[w] = "readRun" => verb'[w] \notin {"complete", "fail", "require"}
      BY <1>1 DEF RunBegin, FirstVerb, RunInv, Calls, IsCall
    <3> QED
      BY <2>1, <2>2, <3>1 DEF Working
  <2> QED
    BY <1>4, <2>1, <2>2, <2>3 DEF BegunBy
<1>6. ~Answers(w)
  BY <1>1 DEF Answers, Working
<1> QED
  BY <1>1, <1>3, <1>5, <1>6, OneStep DEF RunInv

LEMMA CreateRunKeeps ==
    ASSUME RunInv, NEW w \in Workers, CreateRun(w)
    PROVE  RunInv'
<1>1. Moves(w) /\ pc'[w] = "done"
  BY AnswerMoves DEF CreateRun, Moves, held, RunInv, Calls, IsCall
<1>2. run' = "queued" /\ BegunBy(w)'
  BY <1>1 DEF CreateRun, BegunBy, Working
<1> QED
  BY <1>1, <1>2, OneStep DEF Statuses

LEMMA ReadRunKeeps ==
    ASSUME RunInv, NEW w \in Workers, ReadRun(w)
    PROVE  RunInv'
<1>1. /\ pc[w] = "readRun" /\ outcome[w] = "pending" /\ run' = run /\ verb' = verb
      /\ past \subseteq past' /\ past' \subseteq past \cup {w}
  BY DEF ReadRun, At, RunInv, Settled
<1>2. past' \subseteq Workers /\ IsCall(verb')
  BY <1>1 DEF RunInv, Calls, IsCall
<1>3. BegunBy(w) /\ run \in Statuses \cup {None}
  BY DEF RunInv, Begun
<1>4. verb[w] \in {"start", "submit"} => op[w] \in Executes
  BY <1>1, <1>3 DEF BegunBy
<1>5. ASSUME NEW result, Answer(w, result),
             run # "in_progress" \/ verb[w] \notin {"complete", "fail", "require"}
      PROVE  RunInv'
  <2>1. Moves(w) /\ pc'[w] = "done"
    BY <1>1, <1>2, <1>5, AnswerMoves DEF Moves, RunInv, Calls
  <2>2. BegunBy(w)'
    BY <2>1 DEF BegunBy, Working
  <2>3. run = "in_progress" => ~Answers(w)
    BY <1>1, <1>5 DEF Answers, Working
  <2> QED
    BY <1>1, <1>3, <2>1, <2>2, <2>3, OneStep
<1>6. CASE run = None
  <2>1. run # "in_progress"
    BY <1>6, RunAssumption DEF Statuses
  <2> QED
    BY <1>5, <1>6, <2>1 DEF ReadRun
<1>7. CASE run # None /\ verb[w] = "none"
  BY <1>5, <1>7 DEF ReadRun
<1>8. CASE Goto(w, "writeRun") \/ Goto(w, "getAssistant")
  <2> SUFFICES ASSUME run # None, verb[w] # "none"
               PROVE  RunInv'
    BY <1>6, <1>7
  <2>1. Moves(w) /\ outcome' = outcome /\ pc'[w] \in {"writeRun", "getAssistant"}
    BY <1>1, <1>2, <1>8, GotoMoves DEF Moves, RunInv, Calls
  <2>2. verb[w] \in {"start", "submit"} => w \in past'
    BY DEF ReadRun
  <2>3. pc'[w] = "getAssistant" => verb[w] \in {"start", "submit"}
    BY <1>8, <2>1, GotoMoves DEF ReadRun, AfterVerb, RunInv, Answer, Goto, Calls, IsCall
  <2>4. Working(w) <=> op[w] \in {"executeRun", "submitOutputs", "streamRun"}
                        /\ verb[w] \in {"complete", "fail", "require"}
    BY <1>1 DEF Working, Executes
  <2>5. BegunBy(w)'
    <3>1. CASE pc'[w] = "writeRun"
      BY <1>1, <1>3, <1>4, <2>1, <2>2, <3>1 DEF BegunBy, Working, Moves
    <3>2. CASE pc'[w] = "getAssistant"
      BY <1>1, <1>4, <2>1, <2>2, <2>3, <3>2
      DEF BegunBy, Working, Moves, Executes, AfterAssistant
    <3> QED
      BY <2>1, <3>1, <3>2
  <2>6. Answers(w) => Answers(w)'
    <3>1. Answers(w) => Working(w)
      BY <1>1 DEF Answers
    <3>2. Working(w) => Working(w)'
      BY <1>1, <2>1, <2>3, <2>4 DEF Working, Moves
    <3> QED
      BY <3>1, <3>2 DEF Answers
  <2> QED
    BY <1>1, <1>3, <2>1, <2>5, <2>6, OneStep
<1>9. CASE run # None /\ verb[w] # "none" /\ Answer(w, "ok") /\ verb[w] \notin {"start", "submit"}
           /\ run \notin Takes[verb[w]]
  <2>1. verb[w] \notin {"complete", "fail", "require"}
    BY <1>3, <1>9 DEF Takes
  <2> QED
    BY <1>5, <1>9, <2>1
<1> QED
  BY <1>6, <1>7, <1>8, <1>9 DEF ReadRun, AfterVerb

LEMMA WriteRunKeeps ==
    ASSUME RunInv, NEW w \in Workers, WriteRun(w)
    PROVE  RunInv'
<1>1. /\ pc[w] = "writeRun" /\ outcome[w] = "pending" /\ run' = Becomes[verb[w]]
      /\ past' = past /\ verb' = verb /\ IsCall(verb')
  BY DEF WriteRun, At, RunInv, Settled, held, Calls, IsCall
<1>2. BegunBy(w) /\ past \subseteq Workers
  BY DEF RunInv, Begun
<1>3. run' \in Statuses /\ (run' = "in_progress" => verb[w] \in {"start", "submit"})
  <2>1. verb[w] \in DOMAIN Takes
    BY <1>1, <1>2 DEF BegunBy
  <2> QED
    BY <1>1, <2>1 DEF Takes, Becomes, Statuses
<1>4. CASE verb[w] \in {"start", "submit"}
  <2>1. Moves(w) /\ outcome' = outcome /\ pc'[w] = "getAssistant"
    BY <1>1, <1>2, <1>4, GotoMoves DEF WriteRun, AfterVerb, Moves, RunInv, Calls
  <2>2. w \in past /\ op[w] \in Executes
    BY <1>1, <1>2, <1>4 DEF BegunBy
  <2>3. Working(w)' /\ BegunBy(w)'
    BY <1>1, <2>1, <2>2 DEF Working, BegunBy, Moves, Executes, AfterAssistant
  <2>4. Answers(w)'
    BY <2>3 DEF Answers
  <2> QED
    BY <1>1, <1>3, <2>1, <2>2, <2>3, <2>4, OneStep
<1>5. CASE verb[w] \notin {"start", "submit"}
  <2>1. Moves(w) /\ pc'[w] = "done"
    BY <1>1, <1>2, <1>5, AnswerMoves DEF WriteRun, AfterVerb, Moves, RunInv, Calls
  <2>2. BegunBy(w)'
    BY <2>1 DEF BegunBy, Working
  <2> QED
    BY <1>3, <1>5, <2>1, <2>2, OneStep
<1> QED
  BY <1>4, <1>5

----------------------------------------------------------------------------
(* RunExecutor and AssistantService *)

\* The executor calls a method: it stays at work, or was not.
LEMMA CallKeeps ==
    ASSUME RunInv, NEW w \in Workers, NEW method, Call(w, method), pc[w] # "done",
           run' = run, past' = past, method \in {"complete", "fail", "require"},
           op[w] \in Executes, Working(w)
    PROVE  RunInv'
<1>1. Moves(w) /\ outcome' = outcome /\ pc'[w] = "readRun" /\ verb'[w] = method
  BY CallMoves DEF Moves, RunInv, Calls
<1>2. outcome[w] = "pending"
  BY DEF RunInv, Settled
<1>3. Working(w)' /\ w \in past
  BY <1>1 DEF Working, Moves, RunInv, Begun, BegunBy
<1>4. BegunBy(w)' /\ Answers(w)'
  BY <1>1, <1>3 DEF BegunBy, Answers, Takes
<1> QED
  BY <1>1, <1>2, <1>3, <1>4, OneStep DEF RunInv

\* get_assistant, wherever it is reached from, has an outcome for the executor.
LEMMA GotKeeps ==
    ASSUME RunInv, NEW w \in Workers, run' = run, past' = past,
           pc[w] \in {"getAssistant", "getRow", "refill"}, Got(w)
    PROVE  RunInv'
<1>1. op[w] = "getAssistant" \/ op[w] \in DOMAIN AfterAssistant
  BY DEF RunInv, Begun, BegunBy
<1>2. verb' = verb /\ IsCall(verb') /\ pc[w] # "done"
  BY DEF Got, RunInv, Calls, IsCall
<1>3. CASE op[w] = "getAssistant"
  <2>1. ~Working(w)
    BY <1>3 DEF Working, Executes
  <2> QED
    BY <1>2, <1>3, <2>1, AnswerKeeps DEF Got
<1>4. CASE op[w] \in DOMAIN AfterAssistant
  <2>1. Goto(w, AfterAssistant[op[w]])
    BY <1>4 DEF Got, AfterAssistant
  <2>2. pc'[w] = AfterAssistant[op[w]] /\ op' = op
    BY <2>1, GotoMoves DEF RunInv
  <2>3. Working(w)' <=> Working(w)
    BY <1>4, <2>2 DEF Working, Executes, AfterAssistant
  <2>4. Working(w) => w \in past
    BY DEF RunInv, Begun, BegunBy
  <2>5. BegunBy(w)'
    BY <1>2, <1>4, <2>2, <2>3, <2>4 DEF BegunBy, AfterAssistant, Executes
  <2> QED
    BY <1>2, <2>1, <2>3, <2>5, GotoKeeps
<1> QED
  BY <1>1, <1>3, <1>4

LEMMA MissingKeeps ==
    ASSUME RunInv, NEW w \in Workers, run' = run, past' = past,
           pc[w] \in {"getAssistant", "getRow", "refill"}, NotGot(w)
    PROVE  RunInv'
<1>1. CASE op[w] = "deleteAssistant"
  <2>1. Goto(w, "deleteRow") /\ verb' = verb
    BY <1>1 DEF NotGot
  <2>2. pc'[w] = "deleteRow" /\ op' = op
    BY <2>1, GotoMoves DEF RunInv
  <2>3. BegunBy(w)' /\ ~Working(w)
    BY <1>1, <2>2 DEF BegunBy, Working, Executes
  <2> QED
    BY <2>1, <2>3, GotoKeeps
<1>2. CASE op[w] \in {"executeRun", "submitOutputs"}
  <2>1. Call(w, "fail") /\ op[w] \in Executes /\ Working(w)
    BY <1>2 DEF NotGot, Missing, Executes, Working
  <2> QED
    BY <2>1, CallKeeps
<1>3. CASE op[w] \notin {"deleteAssistant", "executeRun", "submitOutputs"}
  <2>1. Answer(w, "notFound") /\ verb' = verb /\ IsCall(verb')
    BY <1>3 DEF NotGot, Missing, RunInv, Calls, IsCall
  <2>2. ~Working(w) \/ op[w] = "streamRun"
    BY <1>3 DEF Working, Executes
  <2> QED
    BY <2>1, <2>2, AnswerKeeps
<1> QED
  BY <1>1, <1>2, <1>3

LEMMA ExecutorKeeps ==
    ASSUME RunInv, NEW w \in Workers, Sdk(w) \/ AddAnswer(w) \/ StreamSdk(w)
    PROVE  RunInv'
<1>1. /\ pc[w] \in {"sdk", "addAnswer"} /\ pc[w] # "done"
      /\ run' = run /\ past' = past /\ IsCall(verb)
  BY DEF Sdk, AddAnswer, StreamSdk, At, runVars, RunInv, Calls
<1>2. Working(w) /\ w \in past /\ op[w] \in Executes
  BY <1>1 DEF Working, RunInv, Begun, BegunBy
<1>3. ASSUME NEW method \in {"complete", "fail", "require"}, Call(w, method)
      PROVE  RunInv'
  BY <1>1, <1>2, <1>3, CallKeeps
<1>4. CASE Goto(w, "addAnswer") /\ verb' = verb
  <2>1. pc'[w] = "addAnswer" /\ op' = op
    BY <1>4, GotoMoves DEF RunInv
  <2>2. Working(w)'
    BY <1>2, <2>1 DEF Working, Executes
  <2>3. BegunBy(w)'
    BY <1>1, <1>2, <1>4, <2>1 DEF BegunBy, Executes
  <2> QED
    BY <1>1, <1>4, <2>2, <2>3, GotoKeeps
<1>5. CASE Answer(w, "ok") /\ verb' = verb /\ op[w] = "streamRun"
  BY <1>1, <1>5, AnswerKeeps
<1> QED
  BY <1>3, <1>4, <1>5 DEF Sdk, AddAnswer, StreamSdk

LEMMA AssistantKeeps ==
    ASSUME RunInv, NEW w \in Workers,
           \/ InsertRow(w) \/ GetAssistant(w) \/ GetRow(w) \/ StoreCopy(w)
           \/ UpdateRow(w) \/ DeleteRow(w) \/ DropAssistant(w)
    PROVE  RunInv'
<1>1. run' = run /\ past' = past /\ pc[w] # "done"
  BY DEF InsertRow, GetAssistant, GetRow, StoreCopy, UpdateRow, DeleteRow, DropAssistant,
         At, runVars
<1>2. IsCall(verb)
  BY DEF RunInv, Calls
<1>3. ASSUME NEW step, Goto(w, step), verb' = verb, ~Working(w),
             step \in {"cacheNew", "cacheUpdate", "dropAssistant"}
      PROVE  RunInv'
  <2>1. pc'[w] = step /\ op' = op
    BY <1>3, GotoMoves DEF RunInv
  <2>2. BegunBy(w)'
    BY <1>3, <2>1 DEF BegunBy, Working
  <2> QED
    BY <1>1, <1>3, <2>2, GotoKeeps
<1>4. ASSUME NEW result, Answer(w, result), verb' = verb, ~Working(w)
      PROVE  RunInv'
  BY <1>1, <1>2, <1>4, AnswerKeeps
<1>5. ASSUME NEW step \in {"getRow", "refill"}, Goto(w, step), verb' = verb,
             pc[w] \in {"getAssistant", "getRow"}
      PROVE  RunInv'
  <2>1. pc'[w] = step /\ op' = op
    BY <1>5, GotoMoves DEF RunInv
  <2>2. Working(w)' <=> Working(w)
    BY <1>5, <2>1 DEF Working
  <2>3. Working(w) => w \in past
    BY DEF RunInv, Begun, BegunBy
  <2>4. op[w] = "getAssistant" \/ op[w] \in DOMAIN AfterAssistant
    BY <1>5 DEF RunInv, Begun, BegunBy
  <2>5. BegunBy(w)'
    BY <1>1, <1>5, <2>1, <2>2, <2>3, <2>4 DEF BegunBy
  <2> QED
    BY <1>1, <1>5, <2>2, <2>5, GotoKeeps
<1>6. CASE InsertRow(w) \/ UpdateRow(w)
  <2>1. pc[w] \in {"insertRow", "updateRow"} /\ verb' = verb
    BY <1>6 DEF InsertRow, UpdateRow, At, held
  <2>2. ~Working(w)
    BY <2>1 DEF Working
  <2> QED
    BY <1>3, <1>6, <2>1, <2>2 DEF InsertRow, UpdateRow
<1>7. CASE DeleteRow(w) \/ DropAssistant(w)
  <2>1. pc[w] \in {"deleteRow", "dropAssistant"} /\ verb' = verb
    BY <1>7 DEF DeleteRow, DropAssistant, At, held
  <2>2. ~Working(w)
    BY <2>1 DEF Working
  <2> QED
    BY <1>3, <1>4, <1>7, <2>1, <2>2 DEF DeleteRow, DropAssistant
<1>8. CASE GetAssistant(w) \/ GetRow(w)
  <2>1. pc[w] \in {"getAssistant", "getRow"}
    BY <1>8 DEF GetAssistant, GetRow, At
  <2> QED
    BY <1>1, <1>5, <1>8, <2>1, GotKeeps, MissingKeeps DEF GetAssistant, GetRow
<1>9. CASE StoreCopy(w)
  <2>1. CASE pc[w] = "refill"
    BY <1>1, <1>9, <2>1, GotKeeps DEF StoreCopy, At
  <2>2. CASE pc[w] # "refill"
    <3>1. ~Working(w)
      BY <1>9, <2>2 DEF StoreCopy, Working
    <3> QED
      BY <1>4, <1>9, <2>2, <3>1 DEF StoreCopy, At
  <2> QED
    BY <2>1, <2>2
<1> QED
  BY <1>6, <1>7, <1>8, <1>9

----------------------------------------------------------------------------
(* Faults, and the whole *)

LEMMA RedisRaisesKeeps ==
    ASSUME RunInv, NEW w \in Workers, RedisRaises(w)
    PROVE  RunInv'
<1>1. run' = run /\ past' = past /\ pc[w] # "done" /\ IsCall(verb)
  BY DEF RedisRaises, runVars, RunInv, Calls
<1>2. CASE InTry(w)
  <2>1. op[w] \in Executes /\ Working(w)
    BY <1>2 DEF InTry, Executes, Working
  <2>2. Call(w, "fail")
    BY <1>2 DEF RedisRaises
  <2> QED
    BY <1>1, <2>1, <2>2, CallKeeps
<1>3. CASE ~InTry(w) /\ pc[w] = "refill"
  BY <1>1, <1>3, MissingKeeps DEF RedisRaises
<1>4. CASE ~InTry(w) /\ pc[w] = "cacheNew"
  <2>1. Answer(w, "ok") /\ ~Working(w)
    BY <1>4 DEF RedisRaises, Working
  <2>2. verb' = [verb EXCEPT ![w] = "none"]
    BY <1>4 DEF RedisRaises
  <2>3. IsCall(verb') /\ \A v \in Workers \ {w} : verb'[v] = verb[v]
    BY <1>1, <2>2 DEF IsCall
  <2> QED
    BY <1>1, <2>1, <2>3, AnswerKeeps
<1>5. CASE ~InTry(w) /\ pc[w] \notin {"refill", "cacheNew"}
  <2>1. Answer(w, "failed") /\ verb' = [verb EXCEPT ![w] = "none"]
    BY <1>5 DEF RedisRaises
  <2>2. IsCall(verb') /\ \A v \in Workers \ {w} : verb'[v] = verb[v]
    BY <1>1, <2>1 DEF IsCall
  <2> QED
    BY <1>1, <2>1, <2>2, AnswerKeeps
<1> QED
  BY <1>2, <1>3, <1>4, <1>5

LEMMA DiesKeeps ==
    ASSUME RunInv, NEW w \in Workers, Dies(w)
    PROVE  RunInv'
<1>1. /\ run' = run /\ past' = past /\ pc[w] # "done"
      /\ Answer(w, "failed") /\ verb' = [verb EXCEPT ![w] = "none"]
  BY DEF Dies, runVars
<1>2. IsCall(verb') /\ \A v \in Workers \ {w} : verb'[v] = verb[v]
  BY <1>1 DEF IsCall, RunInv, Calls
<1> QED
  BY <1>1, <1>2, AnswerKeeps

\* What is not a step of a call: it leaves the calls alone, and the run but for
\* its expiry.
LEMMA EnvironmentKeeps ==
    ASSUME RunInv, UNCHANGED <<op, pc, outcome, verb, past>>, run' = run \/ run' = None
    PROVE  RunInv'
<1>1. \A w \in Workers : (Working(w)' <=> Working(w)) /\ (BegunBy(w)' <=> BegunBy(w))
  BY DEF Working, BegunBy
<1>2. Calls' /\ Settled' /\ Begun'
  BY <1>1 DEF RunInv, Calls, IsCall, Settled, Begun
<1>3. InProgressHasWorker'
  BY <1>1, RunAssumption DEF RunInv, InProgressHasWorker, Statuses
<1> QED
  BY <1>2, <1>3 DEF RunInv

LEMMA ConvKeeps ==
    ASSUME RunInv, Conv
    PROVE  RunInv'
<1>1. UNCHANGED <<runVars, asstVars, held>>
  BY DEF Conv
<1>2. CASE Expire \/ Tick
  BY <1>1, <1>2, EnvironmentKeeps DEF Expire, Tick, callVars, runVars, held
<1>3. ASSUME NEW w \in Workers, ConvBreaks(w)
      PROVE  RunInv'
  <2>1. Answer(w, "failed") /\ pc[w] # "done"
    BY <1>3 DEF ConvBreaks
  <2>2. run' = run /\ past' = past /\ verb' = verb /\ IsCall(verb')
    BY <1>1 DEF runVars, held, RunInv, Calls, IsCall
  <2> QED
    BY <2>1, <2>2, AnswerKeeps
<1>4. ASSUME NEW w \in Workers, ConvStep(w)
      PROVE  RunInv'
  BY <1>1, <1>4, ConvBeginKeeps, ThreadStepKeeps, ListingKeeps DEF ConvStep
<1> QED
  BY <1>2, <1>3, <1>4 DEF Conv, ConvEnv

LEMMA InitRunInv == Init => RunInv
<1> SUFFICES ASSUME Init PROVE RunInv
  OBVIOUS
<1>1. PICK start \in Starts : ConvInit(start) /\ run = start.run
  BY DEF Init
<1>2. Calls
  BY <1>1 DEF Init, ConvInit, Calls, IsCall
<1>3. \A w \in Workers : pc[w] = "start" /\ outcome[w] = "pending"
  BY <1>1 DEF ConvInit
<1>4. Settled /\ Begun
  BY <1>3 DEF Settled, Begun, BegunBy, Working
<1>5. run \in (Statuses \cup {None}) \ {"in_progress"}
  BY <1>1, RunAssumption
<1> QED
  BY <1>2, <1>4, <1>5 DEF RunInv, InProgressHasWorker, Init

LEMMA NextKeepsRunInv ==
    ASSUME RunInv, [Next]_vars
    PROVE  RunInv'
<1>1. CASE Conv
  BY <1>1, ConvKeeps
<1>2. CASE RunExpires
  <2>1. UNCHANGED <<op, pc, outcome, verb, past>> /\ (run' = run \/ run' = None)
    BY <1>2 DEF RunExpires, convVars, callVars, held
  <2> QED
    BY <2>1, EnvironmentKeeps
<1>3. ASSUME NEW w \in Workers, RunStep(w) PROVE RunInv'
  BY <1>3, RunBeginKeeps, CreateRunKeeps, ReadRunKeeps, WriteRunKeeps, ExecutorKeeps,
     AssistantKeeps DEF RunStep
<1>4. ASSUME NEW w \in Workers, RedisRaises(w) \/ Dies(w) PROVE RunInv'
  BY <1>4, RedisRaisesKeeps, DiesKeeps
<1>5. CASE UNCHANGED vars
  BY <1>5, EnvironmentKeeps DEF vars, convVars, callVars, runVars, held
<1> QED
  BY <1>1, <1>2, <1>3, <1>4, <1>5 DEF Next

\* A run in progress always has a worker that will write what becomes of it, but
\* for a call that broke off and for stream_run (run_executor.py 124-391).
THEOREM RunsHaveWorkers == Spec => []InProgressHasWorker
<1>1. RunInv /\ [Next]_vars => RunInv'
  BY NextKeepsRunInv
<1>2. RunInv => InProgressHasWorker
  BY DEF RunInv
<1> QED
  BY <1>1, <1>2, InitRunInv, PTL DEF Spec

----------------------------------------------------------------------------
(* A thread and the session behind it *)

Middle == {"cacheThread", "dropSession", "dropThread"}

Excused == \E w \in Workers : /\ op[w] = "deleteThread"
                              /\ pc[w] = "dropThread" \/ outcome[w] = "failed"

\* Each step belongs to its operation.
Role(w) ==
    /\ pc[w] \in {"dropSession", "dropThread"} => op[w] = "deleteThread"
    /\ pc[w] = "cacheThread" => op[w] \in {"createThread", "modifyThread"}
    /\ pc[w] = "session" => op[w] = "createThread"

\* Until the thread is made nobody else holds it, and its session is there.
Making(w) == op[w] = "createThread" /\ pc[w] \in {"start", "session", "cacheThread"}
Holds(w)  == \/ pc[w] \in {"dropSession", "dropThread"}
             \/ op[w] = "modifyThread" /\ pc[w] = "cacheThread"
Fresh ==
    \A w \in Workers : Making(w) =>
        /\ ~thread /\ \A v \in Workers : ~Holds(v)
        /\ pc[w] = "cacheThread" => session # "none"

MadeOnce == \A v, w \in Workers : op[v] = "createThread" /\ op[w] = "createThread" => v = w

ThreadInv ==
    /\ \A w \in Workers : Role(w)
    /\ Fresh /\ MadeOnce
    /\ session = "none" /\ (thread \/ Modifying) => crossed \/ Excused

\* A step of one worker that neither enters nor leaves the middle of a thread's call.
LEMMA Elsewhere ==
    ASSUME RunInv, ThreadInv, NEW w \in Workers,
           UNCHANGED <<thread, session, crossed, op>>,
           \A v \in Workers \ {w} : pc'[v] = pc[v] /\ outcome'[v] = outcome[v],
           pc[w] \notin Middle \cup {"done"}, pc'[w] \notin Middle \cup {"start"},
           pc'[w] = "session" => op[w] = "createThread" /\ pc[w] = "start"
    PROVE  ThreadInv'
<1>1. \A v \in Workers : Role(v)'
  BY DEF ThreadInv, Role, Middle
<1>2. \A v \in Workers : (Making(v)' => Making(v)) /\ (Holds(v)' <=> Holds(v))
                         /\ (pc'[v] = "cacheThread" <=> pc[v] = "cacheThread")
  BY DEF Making, Holds, Middle
<1>3. Fresh'
  BY <1>2 DEF ThreadInv, Fresh
<1>4. MadeOnce'
  BY DEF ThreadInv, MadeOnce
<1>5. Modifying' => Modifying
  BY <1>2 DEF Modifying, At
<1>6. Excused => Excused'
  <2> SUFFICES ASSUME NEW v \in Workers, op[v] = "deleteThread",
                      pc[v] = "dropThread" \/ outcome[v] = "failed"
               PROVE  Excused'
    BY DEF Excused
  <2>1. v # w
    BY DEF Middle, RunInv, Settled
  <2> QED
    BY <2>1 DEF Excused
<1> QED
  BY <1>1, <1>3, <1>4, <1>5, <1>6 DEF ThreadInv

LEMMA CreateSessionKeepsThread ==
    ASSUME RunInv, ThreadInv, NEW w \in Workers, CreateSession(w)
    PROVE  ThreadInv'
<1>1. /\ pc[w] = "session" /\ op[w] = "createThread" /\ session' = "cached" /\ thread' = thread
  BY DEF CreateSession, At, ThreadInv, Role
<1>2. pc'[w] = "cacheThread" /\ op' = op /\ \A v \in Workers \ {w} : pc'[v] = pc[v]
  BY GotoMoves DEF CreateSession, RunInv
<1>3. \A v \in Workers : Role(v)'
  BY <1>1, <1>2 DEF ThreadInv, Role
<1>4. \A v \in Workers : (Making(v)' => Making(v)) /\ (Holds(v)' <=> Holds(v))
  BY <1>1, <1>2 DEF Making, Holds
<1>5. Fresh' /\ MadeOnce'
  BY <1>1, <1>2, <1>4 DEF ThreadInv, Fresh, MadeOnce
<1> QED
  BY <1>1, <1>3, <1>5 DEF ThreadInv

LEMMA CacheThreadKeepsThread ==
    ASSUME RunInv, ThreadInv, NEW w \in Workers, CacheThread(w)
    PROVE  ThreadInv'
<1>1. /\ pc[w] = "cacheThread" /\ op[w] \in {"createThread", "modifyThread"}
      /\ session' = session /\ crossed' = crossed
  BY DEF CacheThread, At, ThreadInv, Role
<1>2. /\ pc'[w] \in {"addMessage", "done"} /\ op' = op
      /\ \A v \in Workers \ {w} : pc'[v] = pc[v] /\ outcome'[v] = outcome[v]
  BY GotoMoves, AnswerMoves DEF CacheThread, RunInv
<1>3. \A v \in Workers : Role(v)'
  BY <1>2 DEF ThreadInv, Role
<1>4. \A v \in Workers : ~Making(v)'
  <2> SUFFICES ASSUME NEW v \in Workers, Making(v)' PROVE FALSE
    OBVIOUS
  <2>1. v # w /\ Making(v)
    BY <1>2 DEF Making
  <2>2. op[w] = "modifyThread" => FALSE
    BY <1>1, <2>1 DEF ThreadInv, Fresh, Holds
  <2>3. op[w] = "createThread" => FALSE
    BY <2>1 DEF ThreadInv, MadeOnce, Making
  <2> QED
    BY <1>1, <2>2, <2>3
<1>5. Fresh' /\ MadeOnce'
  BY <1>2, <1>4 DEF ThreadInv, Fresh, MadeOnce
<1>6. session = "none" => crossed \/ Excused
  <2>1. CASE op[w] = "createThread"
    BY <1>1, <2>1 DEF ThreadInv, Fresh, Making
  <2>2. CASE op[w] = "modifyThread"
    BY <1>1, <2>2 DEF ThreadInv, Modifying, At
  <2> QED
    BY <1>1, <2>1, <2>2
<1>7. Excused => Excused'
  BY <1>1, <1>2 DEF Excused
<1> QED
  BY <1>1, <1>3, <1>5, <1>6, <1>7 DEF ThreadInv

LEMMA GetThreadKeepsThread ==
    ASSUME RunInv, ThreadInv, NEW w \in Workers, GetThread(w)
    PROVE  ThreadInv'
<1>1. pc[w] = "getThread" /\ thread' = thread /\ session' = session
  BY DEF GetThread, At, recordVars
<1>2. op[w] \in DOMAIN AfterGet
  BY <1>1 DEF RunInv, Begun, BegunBy
<1>3. /\ op' = op /\ \A v \in Workers \ {w} : pc'[v] = pc[v] /\ outcome'[v] = outcome[v]
      /\ pc'[w] \in {"done", "cacheThread", "dropSession"}
      /\ pc'[w] # "done" => thread /\ pc'[w] = AfterGet[op[w]]
  BY <1>2, GotoMoves, AnswerMoves DEF GetThread, RunInv, AfterGet
<1>4. \A v \in Workers : Role(v)'
  BY <1>2, <1>3 DEF ThreadInv, Role, AfterGet
<1>5. \A v \in Workers : Making(v)' => Making(v)
  BY <1>2, <1>3 DEF Making, AfterGet
<1>6. Fresh' /\ MadeOnce'
  <2>1. CASE thread
    BY <1>1, <1>3, <1>5, <2>1 DEF ThreadInv, Fresh, MadeOnce
  <2>2. CASE ~thread
    <3>1. pc'[w] = "done"
      BY <1>3, <2>2
    <3>2. \A v \in Workers : Holds(v)' => Holds(v)
      BY <1>3, <3>1 DEF Holds
    <3> QED
      BY <1>1, <1>3, <1>5, <3>1, <3>2 DEF ThreadInv, Fresh, MadeOnce, Making
  <2> QED
    BY <2>1, <2>2
<1>7. session = "none" /\ (thread \/ Modifying)' => thread \/ Modifying
  BY <1>1, <1>3 DEF Modifying, At
<1>8. Excused => Excused'
  BY <1>1, <1>3 DEF Excused, RunInv, Settled
<1> QED
  BY <1>1, <1>4, <1>6, <1>7, <1>8 DEF ThreadInv, GetThread

LEMMA DeleteKeepsThread ==
    ASSUME RunInv, ThreadInv, NEW w \in Workers, DeleteSession(w) \/ DropThread(w)
    PROVE  ThreadInv'
<1>1. pc[w] \in {"dropSession", "dropThread"} /\ op[w] = "deleteThread"
  BY DEF DeleteSession, DropThread, At, ThreadInv, Role
<1>2. /\ op' = op /\ \A v \in Workers \ {w} : pc'[v] = pc[v] /\ outcome'[v] = outcome[v]
      /\ pc'[w] = IF pc[w] = "dropSession" THEN "dropThread" ELSE "done"
  BY GotoMoves, AnswerMoves DEF DeleteSession, DropThread, At, RunInv
<1>3. \A v \in Workers : Role(v)'
  BY <1>1, <1>2 DEF ThreadInv, Role
<1>4. \A v \in Workers : ~Making(v)'
  BY <1>1, <1>2 DEF ThreadInv, Fresh, Making, Holds
<1>5. Fresh' /\ MadeOnce'
  BY <1>2, <1>4 DEF ThreadInv, Fresh, MadeOnce
<1>6. CASE DeleteSession(w)
  <2>1. pc'[w] = "dropThread"
    BY <1>2, <1>6 DEF DeleteSession, At
  <2>2. Excused'
    BY <1>1, <1>2, <2>1 DEF Excused
  <2> QED
    BY <1>3, <1>5, <2>2 DEF ThreadInv
<1>7. CASE DropThread(w)
  <2>1. ~thread' /\ crossed' = (crossed \/ Modifying)
    BY <1>7 DEF DropThread
  <2>2. Modifying' => Modifying
    BY <1>1, <1>2 DEF Modifying, At
  <2> QED
    BY <1>3, <1>5, <2>1, <2>2 DEF ThreadInv
<1> QED
  BY <1>6, <1>7

LEMMA BreaksKeepsThread ==
    ASSUME RunInv, ThreadInv, NEW w \in Workers, ConvBreaks(w)
    PROVE  ThreadInv'
<1>1. UNCHANGED <<thread, session, crossed, op>>
  BY AnswerMoves DEF ConvBreaks, recordVars, RunInv
<1>2. /\ pc'[w] = "done" /\ outcome'[w] = "failed"
      /\ \A v \in Workers \ {w} : pc'[v] = pc[v] /\ outcome'[v] = outcome[v]
  BY AnswerMoves DEF ConvBreaks, RunInv
<1>3. \A v \in Workers : Role(v)'
  BY <1>1, <1>2 DEF ThreadInv, Role
<1>4. \A v \in Workers : (Making(v)' => Making(v)) /\ (Holds(v)' => Holds(v))
                         /\ (pc'[v] = "cacheThread" => pc[v] = "cacheThread")
  BY <1>1, <1>2 DEF Making, Holds
<1>5. Fresh' /\ MadeOnce'
  BY <1>1, <1>4 DEF ThreadInv, Fresh, MadeOnce
<1>6. Excused => Excused'
  BY <1>1, <1>2 DEF Excused
<1>7. Modifying' => Modifying
  BY <1>1, <1>4 DEF Modifying, At
<1> QED
  BY <1>1, <1>3, <1>5, <1>6, <1>7 DEF ThreadInv

LEMMA ConvStepKeepsThread ==
    ASSUME RunInv, ThreadInv, NEW w \in Workers, ConvStep(w)
    PROVE  ThreadInv'
<1>1. CASE ConvBegin(w)
  <2>1. op[w] \in ConvOps /\ pc[w] = "start" /\ UNCHANGED <<thread, session, crossed>>
    BY <1>1 DEF ConvBegin, At, recordVars
  <2>2. /\ pc'[w] = ConvFirst[op[w]] /\ op' = op /\ outcome' = outcome
        /\ \A v \in Workers \ {w} : pc'[v] = pc[v]
    BY <1>1, GotoMoves DEF ConvBegin, RunInv
  <2>3. pc'[w] \notin Middle \cup {"start"} /\ (pc'[w] = "session" => op[w] = "createThread")
    BY <2>1, <2>2 DEF ConvOps, ConvFirst, Middle
  <2> QED
    BY <2>1, <2>2, <2>3, Elsewhere DEF Middle
<1>2. CASE \/ CacheMessage(w) \/ GetMessage(w) \/ ModifyMessage(w)
           \/ Scan(w) \/ ScanMore(w) \/ GetMany(w)
  <2>1. /\ pc[w] \in {"addMessage", "getMessage", "cacheMessage", "scan", "scanMore", "getMany"}
        /\ UNCHANGED <<thread, session, crossed>>
    BY <1>2 DEF CacheMessage, GetMessage, ModifyMessage, Scan, ScanMore, GetMany, At, Write,
                recordVars
  <2>2. /\ pc'[w] \in {"done", "cacheMessage", "scanMore", "getMany", "sdk"} /\ op' = op
        /\ \A v \in Workers \ {w} : pc'[v] = pc[v] /\ outcome'[v] = outcome[v]
    BY <1>2, GotoMoves, AnswerMoves
    DEF CacheMessage, GetMessage, ModifyMessage, Scan, ScanMore, GetMany, RunInv
  <2> QED
    BY <2>1, <2>2, Elsewhere DEF Middle
<1> QED
  BY <1>1, <1>2, CreateSessionKeepsThread, CacheThreadKeepsThread, GetThreadKeepsThread,
     DeleteKeepsThread DEF ConvStep

\* A step of a run or an assistant stays among their own steps.
OwnSteps == {"createRun", "readRun", "writeRun", "insertRow", "getAssistant", "getRow",
             "refill", "cacheNew", "updateRow", "cacheUpdate", "deleteRow", "dropAssistant",
             "scan", "sdk", "addAnswer"}

LEMMA GotMoves ==
    ASSUME RunInv, NEW w \in Workers, pc[w] \in {"getAssistant", "getRow", "refill"},
           Got(w) \/ NotGot(w)
    PROVE  /\ pc'[w] \in OwnSteps \cup {"done"} /\ op' = op
           /\ \A v \in Workers \ {w} : pc'[v] = pc[v] /\ outcome'[v] = outcome[v]
<1>1. op[w] = "getAssistant" \/ op[w] \in DOMAIN AfterAssistant
  BY DEF RunInv, Begun, BegunBy
<1>2. CASE Got(w)
  <2>1. CASE op[w] = "getAssistant"
    BY <1>2, <2>1, AnswerMoves DEF Got, RunInv
  <2>2. CASE op[w] \in DOMAIN AfterAssistant
    <3>1. Goto(w, AfterAssistant[op[w]]) /\ AfterAssistant[op[w]] \in OwnSteps
      BY <1>2, <2>2 DEF Got, AfterAssistant, OwnSteps
    <3> QED
      BY <3>1, GotoMoves DEF RunInv
  <2> QED
    BY <1>1, <2>1, <2>2
<1>3. CASE NotGot(w)
  BY <1>3, GotoMoves, AnswerMoves, CallMoves DEF NotGot, Missing, RunInv, OwnSteps
<1> QED
  BY <1>2, <1>3

LEMMA RunStepKeepsThread ==
    ASSUME RunInv, ThreadInv, NEW w \in Workers, RunStep(w) \/ RedisRaises(w) \/ Dies(w),
           op[w] \in DOMAIN RunFirst \/ pc[w] \in OwnSteps
    PROVE  ThreadInv'
<1>1. UNCHANGED <<thread, session, crossed>>
  BY DEF RunStep, RedisRaises, Dies, RunBegin, CreateRun, ReadRun, WriteRun, Sdk, AddAnswer,
         Write, StreamSdk, InsertRow, GetAssistant, GetRow, StoreCopy, UpdateRow, DeleteRow,
         DropAssistant, recordVars
<1>2. SUFFICES ASSUME TRUE
      PROVE  /\ pc[w] \notin Middle \cup {"done"}
             /\ pc'[w] \in OwnSteps \cup {"done"} /\ op' = op
             /\ \A v \in Workers \ {w} : pc'[v] = pc[v] /\ outcome'[v] = outcome[v]
  BY <1>1, Elsewhere DEF Middle, OwnSteps
<1>3. CASE RunBegin(w)
  <2>1. op[w] \in DOMAIN RunFirst /\ pc[w] = "start" /\ Goto(w, RunFirst[op[w]])
    BY <1>3 DEF RunBegin, At
  <2>2. RunFirst[op[w]] \in OwnSteps
    BY <2>1 DEF RunFirst, OwnSteps
  <2> QED
    BY <2>1, <2>2, GotoMoves DEF RunInv, Middle
<1>4. CASE CreateRun(w) \/ ReadRun(w) \/ WriteRun(w)
  BY <1>4, GotoMoves, AnswerMoves
  DEF CreateRun, ReadRun, WriteRun, AfterVerb, At, RunInv, Middle, OwnSteps
<1>5. CASE Sdk(w) \/ AddAnswer(w) \/ StreamSdk(w)
  BY <1>5, GotoMoves, AnswerMoves, CallMoves
  DEF Sdk, AddAnswer, StreamSdk, At, RunInv, Middle, OwnSteps
<1>6. CASE InsertRow(w) \/ UpdateRow(w) \/ DeleteRow(w) \/ DropAssistant(w)
  BY <1>6, GotoMoves, AnswerMoves
  DEF InsertRow, UpdateRow, DeleteRow, DropAssistant, At, RunInv, Middle, OwnSteps
<1>7. CASE GetAssistant(w) \/ GetRow(w)
  BY <1>7, GotMoves, GotoMoves DEF GetAssistant, GetRow, At, RunInv, Middle, OwnSteps
<1>8. CASE StoreCopy(w)
  BY <1>8, GotMoves, AnswerMoves DEF StoreCopy, At, RunInv, Middle
<1>9. ASSUME op[w] \in DOMAIN RunFirst
      PROVE  pc[w] \notin Middle
  BY <1>9 DEF RunFirst, ThreadInv, Role, Middle
<1>10. CASE RedisRaises(w)
  <2>1. op[w] \in DOMAIN RunFirst /\ pc[w] # "done"
    BY <1>10 DEF RedisRaises
  <2> QED
    BY <1>9, <1>10, <2>1, GotMoves, AnswerMoves, CallMoves DEF RedisRaises, RunInv, OwnSteps
<1>11. CASE Dies(w)
  <2>1. op[w] \in DOMAIN RunFirst /\ pc[w] # "done" /\ Answer(w, "failed")
    BY <1>11 DEF Dies
  <2> QED
    BY <1>9, <2>1, AnswerMoves DEF RunInv
<1> QED
  BY <1>3, <1>4, <1>5, <1>6, <1>7, <1>8, <1>10, <1>11 DEF RunStep

LEMMA StillKeepsThread ==
    ASSUME ThreadInv, op' = op, pc' = pc, outcome' = outcome, crossed' = crossed,
           thread' = thread \/ thread' = FALSE,
           session' = session \/ (session # "none" /\ session' # "none")
    PROVE  ThreadInv'
<1>1. (Excused' <=> Excused) /\ (Modifying' <=> Modifying)
  BY DEF Excused, Modifying, At
<1>2. \A w \in Workers : Role(w)'
  BY DEF ThreadInv, Role
<1>3. Fresh' /\ MadeOnce'
  BY DEF ThreadInv, Fresh, MadeOnce, Making, Holds
<1> QED
  BY <1>1, <1>2, <1>3 DEF ThreadInv

LEMMA InitThreadInv == Init => ThreadInv
<1> SUFFICES ASSUME Init PROVE ThreadInv
  OBVIOUS
<1>1. PICK start \in Starts : ConvInit(start)
  BY DEF Init
<1>2. \A w \in Workers : pc[w] = "start" /\ op[w] \in start.calls
  BY <1>1 DEF ConvInit
<1>3. thread = start.thread /\ session = start.session /\ MadeOnce
  BY <1>1 DEF ConvInit, MadeOnce
<1>4. \A w \in Workers : Role(w) /\ ~Holds(w)
  BY <1>2 DEF Role, Holds
<1>5. Fresh
  BY <1>2, <1>3, <1>4, ConversationAssumption DEF Fresh, Making
<1>6. ~Modifying /\ (thread => session # "none")
  BY <1>2, <1>3, ConversationAssumption DEF Modifying, At
<1> QED
  BY <1>3, <1>4, <1>5, <1>6 DEF ThreadInv

\* No thread is left without the session it names, but by a deletion that is
\* between its two writes, broke off there, or crossed a modification
\* (thread_service.py 105-240).
THEOREM ThreadsHaveSessions == Spec => []ThreadHasSession
<1>1. RunInv /\ ThreadInv /\ [Next]_vars => RunInv' /\ ThreadInv'
  <2> SUFFICES ASSUME RunInv, ThreadInv, [Next]_vars PROVE RunInv' /\ ThreadInv'
    OBVIOUS
  <2>1. RunInv'
    BY NextKeepsRunInv
  <2>2. CASE Expire \/ Tick
    <3>1. /\ op' = op /\ pc' = pc /\ outcome' = outcome /\ crossed' = crossed
          /\ thread' = thread \/ thread' = FALSE
          /\ session' = session \/ (session # "none" /\ session' # "none")
      BY <2>2 DEF Expire, Tick, callVars
    <3> QED
      BY <2>1, <3>1, StillKeepsThread
  <2>3. ASSUME NEW w \in Workers, ConvStep(w) \/ ConvBreaks(w) PROVE ThreadInv'
    BY <2>3, ConvStepKeepsThread, BreaksKeepsThread
  <2>4. CASE RunExpires
    <3>1. /\ op' = op /\ pc' = pc /\ outcome' = outcome /\ crossed' = crossed
          /\ thread' = thread \/ thread' = FALSE
          /\ session' = session \/ (session # "none" /\ session' # "none")
      BY <2>4 DEF RunExpires, convVars, callVars, recordVars
    <3> QED
      BY <2>1, <3>1, StillKeepsThread
  <2>5. ASSUME NEW w \in Workers, RunStep(w) \/ RedisRaises(w) \/ Dies(w) PROVE ThreadInv'
    <3>1. op[w] \in DOMAIN RunFirst \/ pc[w] \in OwnSteps
      BY <2>5 DEF RunStep, RedisRaises, Dies, RunBegin, CreateRun, ReadRun, WriteRun, Sdk,
                  AddAnswer, StreamSdk, InsertRow, GetAssistant, GetRow, StoreCopy, UpdateRow,
                  DeleteRow, DropAssistant, At, OwnSteps
    <3> QED
      BY <2>5, <3>1, RunStepKeepsThread
  <2>6. CASE UNCHANGED vars
    <3>1. /\ op' = op /\ pc' = pc /\ outcome' = outcome /\ crossed' = crossed
          /\ thread' = thread \/ thread' = FALSE
          /\ session' = session \/ (session # "none" /\ session' # "none")
      BY <2>6 DEF vars, convVars, callVars, recordVars
    <3> QED
      BY <2>1, <3>1, StillKeepsThread
  <2> QED
    BY <2>1, <2>2, <2>3, <2>4, <2>5, <2>6 DEF Next, Conv, ConvEnv
<1>2. ThreadInv => ThreadHasSession
  BY DEF ThreadInv, ThreadHasSession, Excused
<1> QED
  BY <1>1, <1>2, InitRunInv, InitThreadInv, PTL DEF Spec
----------------------------------------------------------------------------
(* The life cycle of a run *)

\* What a call knows of the run: it writes one its method takes, and until it is
\* overtaken the run it works on is in progress, or gone.
Knows(w) ==
    /\ pc[w] = "writeRun" => copy[w] \in Takes[verb[w]]
    /\ Working(w) /\ w \notin overtaken =>
          /\ run \in {"in_progress", None}
          /\ pc[w] = "writeRun" => copy[w] = "in_progress"
    /\ pc[w] \in {"readRun", "writeRun"} /\ verb[w] \in {"complete", "fail", "require"} =>
          op[w] \in Executes
    /\ pc[w] = "createRun" => op[w] = "createRun"

Creating(w) == op[w] = "createRun" /\ pc[w] \in {"start", "createRun"}

LifeInv ==
    /\ IsCall(copy)
    /\ \A w \in Workers : Knows(w)
    /\ \A v, w \in Workers : op[v] = "createRun" /\ op[w] = "createRun" => v = w
    /\ (\E w \in Workers : Creating(w)) =>
          run = None /\ past = {} /\ \A v \in Workers : pc[v] # "writeRun"

\* A step that neither reads nor writes the run, and does not bring its worker to
\* where a run is written or worked on.
LEMMA AsideKeeps ==
    ASSUME RunInv, LifeInv, NEW w \in Workers, op' = op, IsCall(copy'),
           UNCHANGED <<run, past, overtaken>>,
           \A v \in Workers \ {w} : pc'[v] = pc[v] /\ verb'[v] = verb[v] /\ copy'[v] = copy[v],
           pc'[w] \notin {"start", "writeRun"},
           Working(w)' => Working(w),
           pc'[w] = "readRun" /\ verb'[w] \in {"complete", "fail", "require"} => op[w] \in Executes,
           pc'[w] = "createRun" => op[w] = "createRun" /\ pc[w] = "start"
    PROVE  LifeInv'
<1>1. Knows(w)'
  BY DEF LifeInv, Knows
<1>2. ASSUME NEW v \in Workers \ {w} PROVE Knows(v)'
  <2>1. Knows(v) /\ (Working(v)' <=> Working(v))
    BY DEF LifeInv, Working
  <2> QED
    BY <2>1 DEF Knows
<1>3. \A v \in Workers : Creating(v)' => Creating(v)
  BY DEF Creating
<1>4. \A v \in Workers : pc'[v] = "writeRun" => pc[v] = "writeRun"
  OBVIOUS
<1> QED
  BY <1>1, <1>2, <1>3, <1>4 DEF LifeInv

\* Steps of calls and the environment that leave runs alone.
LEMMA ConvKeepsLife ==
    ASSUME RunInv, LifeInv, Conv
    PROVE  LifeInv'
<1>1. UNCHANGED <<run, past, overtaken, verb, copy>> /\ IsCall(copy')
  BY DEF Conv, runVars, held, LifeInv, IsCall
<1>2. CASE Expire \/ Tick
  <2>1. UNCHANGED <<op, pc, outcome>>
    BY <1>2 DEF Expire, Tick, callVars
  <2> QED
    BY <1>1, <2>1 DEF LifeInv, Knows, Working, Creating
<1>3. ASSUME NEW w \in Workers, ConvStep(w) \/ ConvBreaks(w) PROVE LifeInv'
  <2>1. CASE ConvBegin(w)
    <3>1. op[w] \in ConvOps /\ pc'[w] = ConvFirst[op[w]] /\ op' = op
          /\ \A v \in Workers \ {w} : pc'[v] = pc[v]
      BY <2>1, GotoMoves DEF ConvBegin, RunInv
    <3>2. pc'[w] \notin {"start", "writeRun", "readRun", "createRun"} /\ op[w] \notin Executes
      BY <3>1 DEF ConvOps, ConvFirst, Executes
    <3>3. ~Working(w)'
      BY <3>1, <3>2 DEF Working
    <3> QED
      BY <1>1, <3>1, <3>2, <3>3, AsideKeeps
  <2>2. CASE \/ CreateSession(w) \/ CacheThread(w) \/ GetThread(w)
             \/ DeleteSession(w) \/ DropThread(w)
             \/ CacheMessage(w) \/ GetMessage(w) \/ ModifyMessage(w) \/ ConvBreaks(w)
    <3>1. pc[w] = "getThread" => op[w] \in DOMAIN AfterGet
      BY DEF RunInv, Begun, BegunBy
    <3>2. /\ pc'[w] \in {"cacheThread", "addMessage", "dropSession", "dropThread",
                         "cacheMessage", "done"}
          /\ op' = op /\ \A v \in Workers \ {w} : pc'[v] = pc[v]
      BY <2>2, <3>1, GotoMoves, AnswerMoves
      DEF CreateSession, CacheThread, GetThread, DeleteSession, DropThread, CacheMessage,
          GetMessage, ModifyMessage, ConvBreaks, RunInv, At, AfterGet
    <3>3. ~Working(w)'
      BY <3>2 DEF Working
    <3> QED
      BY <1>1, <3>2, <3>3, AsideKeeps
  <2>3. CASE Scan(w) \/ ScanMore(w) \/ GetMany(w)
    <3>1. /\ pc[w] \in {"scan", "scanMore", "getMany"}
          /\ pc'[w] \in {"scanMore", "getMany", "sdk", "done"}
          /\ op' = op /\ \A v \in Workers \ {w} : pc'[v] = pc[v]
      BY <2>3, GotoMoves, AnswerMoves DEF Scan, ScanMore, GetMany, At, RunInv
    <3>2. Working(w)' => Working(w)
      BY <3>1 DEF Working
    <3> QED
      BY <1>1, <3>1, <3>2, AsideKeeps
  <2> QED
    BY <1>3, <2>1, <2>2, <2>3 DEF ConvStep
<1> QED
  BY <1>2, <1>3 DEF Conv, ConvEnv

LEMMA RunBeginKeepsLife ==
    ASSUME RunInv, LifeInv, NEW w \in Workers, RunBegin(w)
    PROVE  LifeInv'
<1>1. /\ op[w] \in DOMAIN RunFirst /\ pc[w] = "start" /\ Goto(w, RunFirst[op[w]])
      /\ UNCHANGED <<run, past, overtaken, copy>> /\ IsCall(copy')
      /\ verb' = [verb EXCEPT ![w] = IF op[w] \in DOMAIN FirstVerb
                                     THEN FirstVerb[op[w]] ELSE "none"]
  BY DEF RunBegin, At, runVars, LifeInv, IsCall
<1>2. pc'[w] = RunFirst[op[w]] /\ op' = op /\ \A v \in Workers \ {w} : pc'[v] = pc[v]
  BY <1>1, GotoMoves DEF RunInv
<1>3. \A v \in Workers \ {w} : verb'[v] = verb[v]
  BY <1>1 DEF RunInv, Calls, IsCall
<1>4. verb'[w] \notin {"complete", "fail", "require"}
  BY <1>1 DEF FirstVerb, RunInv, Calls, IsCall
<1>5. /\ pc'[w] \in {"createRun", "readRun", "insertRow", "getAssistant"}
      /\ pc'[w] = "createRun" => op[w] = "createRun"
      /\ pc'[w] = "getAssistant" => op[w] \notin Executes
  BY <1>1, <1>2 DEF RunFirst, Executes
<1>6. ~Working(w)'
  BY <1>2, <1>4, <1>5 DEF Working
<1> QED
  BY <1>1, <1>2, <1>3, <1>4, <1>5, <1>6, AsideKeeps

\* Once the run is created nobody creates it again.
LEMMA CreateRunKeepsLife ==
    ASSUME RunInv, LifeInv, NEW w \in Workers, CreateRun(w)
    PROVE  LifeInv'
<1>1. /\ pc[w] = "createRun" /\ op[w] = "createRun"
      /\ UNCHANGED <<past, overtaken, verb, copy>> /\ IsCall(copy')
  BY DEF CreateRun, At, held, LifeInv, Knows, IsCall
<1>2. pc'[w] = "done" /\ op' = op /\ \A v \in Workers \ {w} : pc'[v] = pc[v]
  BY AnswerMoves DEF CreateRun, RunInv
<1>3. past = {} /\ Creating(w)
  BY <1>1 DEF LifeInv, Creating
<1>4. \A v \in Workers : ~Working(v)
  BY <1>3 DEF RunInv, Begun, BegunBy
<1>5. \A v \in Workers : ~Working(v)'
  BY <1>1, <1>2, <1>4 DEF Working
<1>6. \A v \in Workers : ~Creating(v)'
  BY <1>1, <1>2 DEF Creating, LifeInv
<1>7. \A v \in Workers : Knows(v)'
  BY <1>1, <1>2, <1>5 DEF LifeInv, Knows
<1> QED
  BY <1>1, <1>2, <1>6, <1>7 DEF LifeInv

\* What is read is taken, or the reader is overtaken or done.
LEMMA ReadRunKeepsLife ==
    ASSUME RunInv, LifeInv, NEW w \in Workers, ReadRun(w)
    PROVE  LifeInv'
<1>1. /\ pc[w] = "readRun" /\ copy' = [copy EXCEPT ![w] = run]
      /\ UNCHANGED <<run, verb>>
      /\ past \subseteq past' /\ past' \subseteq past \cup {w}
      /\ overtaken \subseteq overtaken' /\ overtaken' \subseteq overtaken \cup {w}
  BY DEF ReadRun, At
<1>2. /\ IsCall(copy') /\ copy'[w] = run
      /\ \A v \in Workers \ {w} : copy'[v] = copy[v]
  BY <1>1 DEF LifeInv, IsCall
<1>3. /\ op' = op /\ \A v \in Workers \ {w} : pc'[v] = pc[v]
      /\ pc'[w] \in {"writeRun", "getAssistant", "done"}
  BY GotoMoves, AnswerMoves DEF ReadRun, AfterVerb, RunInv
<1>4. CASE run = None
  <2>1. pc'[w] = "done" /\ past' = past /\ overtaken' = overtaken
    BY <1>4, AnswerMoves DEF ReadRun, RunInv
  <2>2. Knows(w)'
    BY <2>1 DEF Knows, Working
  <2>3. ASSUME NEW v \in Workers \ {w} PROVE Knows(v)'
    <3>1. Knows(v) /\ (Working(v)' <=> Working(v))
      BY <1>1, <1>3 DEF LifeInv, Working
    <3> QED
      BY <1>1, <1>2, <1>3, <2>1, <3>1 DEF Knows
  <2>4. \A v \in Workers : Creating(v)' => Creating(v)
    BY <1>3, <2>1 DEF Creating
  <2> QED
    BY <1>1, <1>2, <1>3, <2>1, <2>2, <2>3, <2>4 DEF LifeInv
<1>5. CASE run # None
  <2>1. \A v \in Workers : ~Creating(v) /\ ~Creating(v)'
    BY <1>1, <1>3, <1>5 DEF LifeInv, Creating
  <2>2. pc'[w] = "writeRun" => run \in Takes[verb[w]]
    BY <1>5, GotoMoves, AnswerMoves DEF ReadRun, AfterVerb, RunInv
  <2>3. pc'[w] = "getAssistant" => w \in overtaken'
    BY <1>5, GotoMoves, AnswerMoves DEF ReadRun, AfterVerb, RunInv
  <2>4. Working(w)' /\ pc'[w] = "writeRun" => Working(w)
    BY <1>1, <1>3 DEF Working
  <2>5. Knows(w)'
    <3>1. Knows(w)
      BY DEF LifeInv
    <3>2. pc'[w] = "writeRun" => copy'[w] \in Takes[verb'[w]]
      BY <1>1, <1>2, <2>2
    <3>3. Working(w)' /\ w \notin overtaken' =>
            /\ run' \in {"in_progress", None}
            /\ pc'[w] = "writeRun" => copy'[w] = "in_progress"
      <4> SUFFICES ASSUME Working(w)', w \notin overtaken'
                   PROVE  run = "in_progress"
        BY <1>1, <1>2
      <4>1. pc'[w] = "writeRun"
        BY <1>3, <2>3 DEF Working
      <4> QED
        BY <1>1, <1>5, <2>4, <3>1, <4>1 DEF Knows
    <3>4. /\ pc'[w] \in {"readRun", "writeRun"} /\ verb'[w] \in {"complete", "fail", "require"} =>
                op'[w] \in Executes
          /\ pc'[w] # "createRun"
      BY <1>1, <1>3, <3>1 DEF Knows
    <3> QED
      BY <3>2, <3>3, <3>4 DEF Knows
  <2>6. ASSUME NEW v \in Workers \ {w} PROVE Knows(v)'
    <3>1. Knows(v) /\ (Working(v)' <=> Working(v))
      BY <1>1, <1>3 DEF LifeInv, Working
    <3> QED
      BY <1>1, <1>2, <1>3, <3>1 DEF Knows
  <2> QED
    BY <1>2, <1>3, <2>1, <2>5, <2>6 DEF LifeInv
<1> QED
  BY <1>4, <1>5

\* The writer goes on with a run in progress, or is done; all the others who work on
\* it are overtaken.
LEMMA WriteRunKeepsLife ==
    ASSUME RunInv, LifeInv, NEW w \in Workers, WriteRun(w)
    PROVE  LifeInv'
<1>1. /\ pc[w] = "writeRun" /\ run' = Becomes[verb[w]]
      /\ UNCHANGED <<past, verb, copy>> /\ IsCall(copy')
      /\ overtaken' = overtaken \cup (past \ {w})
  BY DEF WriteRun, At, held, LifeInv, IsCall
<1>2. /\ op' = op /\ \A v \in Workers \ {w} : pc'[v] = pc[v]
      /\ pc'[w] = IF verb[w] \in {"start", "submit"} THEN "getAssistant" ELSE "done"
  BY GotoMoves, AnswerMoves DEF WriteRun, AfterVerb, RunInv
<1>3. \A v \in Workers : ~Creating(v) /\ ~Creating(v)'
  BY <1>1, <1>2 DEF LifeInv, Creating
<1>4. Knows(w)'
  <2>1. pc'[w] = "getAssistant" => run' = "in_progress"
    BY <1>1, <1>2 DEF Becomes
  <2> QED
    BY <1>2, <2>1 DEF Knows, Working
<1>5. ASSUME NEW v \in Workers \ {w} PROVE Knows(v)'
  <2>1. Knows(v) /\ (Working(v)' <=> Working(v))
    BY <1>1, <1>2 DEF LifeInv, Working
  <2>2. Working(v) => v \in overtaken'
    BY <1>1 DEF RunInv, Begun, BegunBy
  <2> QED
    BY <1>1, <1>2, <2>1, <2>2 DEF Knows
<1> QED
  BY <1>1, <1>2, <1>3, <1>4, <1>5 DEF LifeInv

\* The executor, the assistant's record and the faults.
LEMMA WorkKeepsLife ==
    ASSUME RunInv, LifeInv, NEW w \in Workers,
           \/ Sdk(w) \/ AddAnswer(w) \/ StreamSdk(w)
           \/ InsertRow(w) \/ GetAssistant(w) \/ GetRow(w) \/ StoreCopy(w)
           \/ UpdateRow(w) \/ DeleteRow(w) \/ DropAssistant(w)
           \/ RedisRaises(w) \/ Dies(w)
    PROVE  LifeInv'
<1>1. UNCHANGED <<run, past, overtaken>>
  BY DEF Sdk, AddAnswer, StreamSdk, InsertRow, GetAssistant, GetRow, StoreCopy, UpdateRow,
         DeleteRow, DropAssistant, RedisRaises, Dies, runVars
<1>2. IsCall(copy') /\ \A v \in Workers \ {w} : copy'[v] = copy[v]
  BY DEF Sdk, AddAnswer, StreamSdk, InsertRow, GetAssistant, GetRow, StoreCopy, UpdateRow,
         DeleteRow, DropAssistant, RedisRaises, Dies, held, LifeInv, IsCall
<1>3. \A v \in Workers \ {w} : verb'[v] = verb[v]
  BY DEF Sdk, AddAnswer, StreamSdk, InsertRow, GetAssistant, GetRow, StoreCopy, UpdateRow,
         DeleteRow, DropAssistant, RedisRaises, Dies, held, Call, Got, NotGot, Missing,
         RunInv, Calls, IsCall
<1>4. ASSUME NEW method, Call(w, method), op[w] \in Executes, Working(w)
      PROVE  LifeInv'
  <2>1. pc'[w] = "readRun" /\ op' = op /\ \A v \in Workers \ {w} : pc'[v] = pc[v]
    BY <1>4, CallMoves DEF RunInv
  <2> QED
    BY <1>1, <1>2, <1>3, <1>4, <2>1, AsideKeeps
<1>5. ASSUME NEW result, Answer(w, result) PROVE LifeInv'
  <2>1. pc'[w] = "done" /\ op' = op /\ \A v \in Workers \ {w} : pc'[v] = pc[v]
    BY <1>5, AnswerMoves DEF RunInv
  <2>2. ~Working(w)'
    BY <2>1 DEF Working
  <2> QED
    BY <1>1, <1>2, <1>3, <2>1, <2>2, AsideKeeps
<1>6. ASSUME NEW step, Goto(w, step), step \notin {"start", "readRun", "writeRun", "createRun"},
             op[w] \in Executes =>
                pc[w] \in {"getAssistant", "getRow", "refill", "sdk"}
                \/ step \in {"cacheNew", "cacheUpdate", "dropAssistant"}
      PROVE  LifeInv'
  <2>1. pc'[w] = step /\ op' = op /\ \A v \in Workers \ {w} : pc'[v] = pc[v]
    BY <1>6, GotoMoves DEF RunInv
  <2>2. Working(w)' => Working(w)
    BY <1>6, <2>1 DEF Working
  <2> QED
    BY <1>1, <1>2, <1>3, <1>6, <2>1, <2>2, AsideKeeps
<1>7. ASSUME pc[w] \in {"getAssistant", "getRow", "refill"}, Got(w) \/ NotGot(w)
      PROVE  LifeInv'
  <2>1. CASE Got(w)
    <3>1. op[w] = "getAssistant" \/ op[w] \in DOMAIN AfterAssistant
      BY <1>7 DEF RunInv, Begun, BegunBy
    <3>2. op[w] \in DOMAIN AfterAssistant =>
            AfterAssistant[op[w]] \in {"scan", "sdk", "updateRow", "deleteRow"}
      BY DEF AfterAssistant
    <3> QED
      BY <1>5, <1>6, <1>7, <2>1, <3>1, <3>2 DEF Got
  <2>2. CASE NotGot(w)
    <3>1. op[w] \in {"executeRun", "submitOutputs"} => op[w] \in Executes /\ Working(w)
      BY <1>7 DEF Executes, Working
    <3> QED
      BY <1>4, <1>5, <1>6, <1>7, <2>2, <3>1 DEF NotGot, Missing
  <2> QED
    BY <1>7, <2>1, <2>2
<1>8. CASE Sdk(w) \/ AddAnswer(w) \/ StreamSdk(w)
  <2>1. pc[w] \in {"sdk", "addAnswer"} /\ op[w] \in Executes
    BY <1>8 DEF Sdk, AddAnswer, StreamSdk, At, RunInv, Begun, BegunBy
  <2>2. Working(w)
    BY <2>1 DEF Working
  <2>3. CASE Sdk(w) /\ Goto(w, "addAnswer")
    BY <1>6, <2>3 DEF Sdk, At
  <2> QED
    BY <1>4, <1>5, <1>8, <2>1, <2>2, <2>3 DEF Sdk, AddAnswer, StreamSdk
<1>9. CASE InsertRow(w) \/ UpdateRow(w) \/ DeleteRow(w) \/ DropAssistant(w)
  BY <1>5, <1>6, <1>9 DEF InsertRow, UpdateRow, DeleteRow, DropAssistant
<1>10. CASE GetAssistant(w) \/ GetRow(w)
  BY <1>6, <1>7, <1>10 DEF GetAssistant, GetRow, At
<1>11. CASE StoreCopy(w)
  BY <1>5, <1>7, <1>11 DEF StoreCopy, At
<1>12. CASE RedisRaises(w)
  <2>1. InTry(w) => op[w] \in Executes /\ Working(w)
    BY DEF InTry, Executes, Working
  <2> QED
    BY <1>4, <1>5, <1>7, <1>12, <2>1 DEF RedisRaises
<1>13. CASE Dies(w)
  BY <1>5, <1>13 DEF Dies
<1> QED
  BY <1>8, <1>9, <1>10, <1>11, <1>12, <1>13

LEMMA NextKeepsLife ==
    ASSUME RunInv, LifeInv, [Next]_vars
    PROVE  LifeInv'
<1>1. CASE RunExpires
  <2>1. UNCHANGED <<op, pc, outcome, verb, copy, past, overtaken>> /\ run' \in {run, None}
    BY <1>1 DEF RunExpires, convVars, callVars, held
  <2>2. \A w \in Workers : (Working(w)' <=> Working(w)) /\ (Creating(w)' <=> Creating(w))
    BY <2>1 DEF Working, Creating
  <2>3. \A w \in Workers : Knows(w)'
    BY <2>1, <2>2 DEF LifeInv, Knows
  <2> QED
    BY <2>1, <2>2, <2>3 DEF LifeInv, IsCall
<1>2. CASE UNCHANGED vars
  <2>1. UNCHANGED <<op, pc, outcome, verb, copy, past, overtaken, run>>
    BY <1>2 DEF vars, convVars, callVars, runVars, held
  <2> QED
    BY <2>1 DEF LifeInv, IsCall, Knows, Working, Creating
<1> QED
  BY <1>1, <1>2, ConvKeepsLife, RunBeginKeepsLife, CreateRunKeepsLife, ReadRunKeepsLife,
     WriteRunKeepsLife, WorkKeepsLife DEF Next, RunStep

LEMMA InitLifeInv == Init => LifeInv
<1> SUFFICES ASSUME Init PROVE LifeInv
  OBVIOUS
<1>1. PICK start \in Starts : ConvInit(start) /\ run = start.run
  BY DEF Init
<1>2. \A w \in Workers : pc[w] = "start" /\ op[w] \in start.calls
  BY <1>1 DEF ConvInit
<1>3. \A w \in Workers : Knows(w)
  BY <1>2 DEF Knows, Working
<1>4. (\E w \in Workers : Creating(w)) => run = None
  BY <1>1, <1>2, RunAssumption DEF Creating
<1>5. past = {} /\ IsCall(copy)
  BY DEF Init, IsCall
<1> QED
  BY <1>2, <1>3, <1>4, <1>5 DEF Init, LifeInv

\* A run that changes goes by the machine, unless its writer was overtaken, however
\* many calls there are and whatever fails (run_service.py 188-199).
THEOREM RunsFollowMachine == Spec => LifeCycle
<1>1. RunInv /\ LifeInv /\ [Next]_vars => RunInv' /\ LifeInv'
  BY NextKeepsRunInv, NextKeepsLife
<1>2. ASSUME RunInv, LifeInv, [Next]_vars
      PROVE  [\A w \in Workers :
                At(w, "writeRun") /\ run' # run /\ run # None /\ pc'[w] # "writeRun" =>
                   \/ <<run, run'>> \in Documented
                   \/ copy[w] # run
                   \/ w \in overtaken]_vars
  <2> SUFFICES ASSUME NEW w \in Workers, pc[w] = "writeRun", run' # run, run # None,
                      pc'[w] # "writeRun", copy[w] = run, w \notin overtaken
               PROVE  <<run, run'>> \in Documented
    BY DEF At
  <2>1. PICK v \in Workers : WriteRun(v)
    BY <1>2 DEF Next, Conv, runVars, RunExpires, convVars, callVars, RunStep, RunBegin, CreateRun,
       ReadRun, Sdk, AddAnswer, StreamSdk, InsertRow, GetAssistant, GetRow, StoreCopy,
       UpdateRow, DeleteRow, DropAssistant, RedisRaises, Dies, vars
  <2>2. v = w
    <3>1. \A u \in Workers \ {v} : pc'[u] = pc[u]
      BY <1>2, <2>1, GotoMoves, AnswerMoves DEF WriteRun, AfterVerb, RunInv
    <3> QED
      BY <3>1
  <2>3. run' = Becomes[verb[w]] /\ Knows(w)
    BY <1>2, <2>1, <2>2 DEF WriteRun, LifeInv
  <2>4. verb[w] \in DOMAIN Takes
    BY <1>2 DEF RunInv, Begun, BegunBy
  <2>5. CASE verb[w] \in {"complete", "fail", "require"}
    <3>1. run = "in_progress"
      BY <2>3, <2>5 DEF Knows, Working
    <3> QED
      BY <2>3, <2>5, <3>1 DEF Becomes, Documented
  <2>6. CASE verb[w] \in {"start", "submit", "cancel"}
    BY <2>3, <2>6 DEF Knows, Takes, Becomes, Documented
  <2> QED
    BY <2>4, <2>5, <2>6 DEF Takes
<1> QED
  BY <1>1, <1>2, InitRunInv, InitLifeInv, PTL DEF Spec, LifeCycle
----------------------------------------------------------------------------
(* The assistant in Redis and in the database *)

\* Only an update and a deletion write Redis after the row.
Writes(w) ==
    /\ pc[w] \in {"updateRow", "cacheUpdate"} => op[w] = "updateAssistant"
    /\ pc[w] \in {"deleteRow", "dropAssistant"} => op[w] = "deleteAssistant"

Between(w) ==
    \/ pc[w] \in {"cacheUpdate", "dropAssistant"}
    \/ op[w] \in {"updateAssistant", "deleteAssistant"} /\ outcome[w] = "failed"

Agrees == db /\ asst # None /\ ~astray => asst = row \/ \E w \in Workers : Between(w)

AsstInv == (\A w \in Workers : Writes(w)) /\ Agrees

\* A step of one call that leaves the assistant alone, or Redis without it.
LEMMA AsstAside ==
    ASSUME RunInv, AsstInv, NEW w \in Workers, op' = op, pc[w] # "done",
           UNCHANGED <<db, row, astray>>, asst' = asst \/ asst' = None,
           \A v \in Workers \ {w} : pc'[v] = pc[v] /\ outcome'[v] = outcome[v],
           Writes(w)', Between(w) => Between(w)'
    PROVE  AsstInv'
<1>1. \A v \in Workers : Writes(v)'
  BY DEF AsstInv, Writes
<1>2. \A v \in Workers : Between(v) => Between(v)'
  BY DEF Between
<1> QED
  BY <1>1, <1>2 DEF AsstInv, Agrees

\* Who has a step of its own, or none, to take yet.
LEMMA ElsewhereAgrees ==
    ASSUME RunInv, AsstInv, NEW w \in Workers, op' = op, UNCHANGED asstVars,
           pc[w] \notin {"done", "cacheUpdate", "dropAssistant"},
           \A v \in Workers \ {w} : pc'[v] = pc[v] /\ outcome'[v] = outcome[v],
           pc'[w] = "updateRow" => op[w] = "updateAssistant",
           pc'[w] = "deleteRow" => op[w] = "deleteAssistant",
           pc'[w] \notin {"cacheUpdate", "dropAssistant"}
    PROVE  AsstInv'
<1>1. Writes(w)' /\ ~Between(w)
  BY DEF Writes, Between, RunInv, Settled
<1> QED
  BY <1>1, AsstAside DEF asstVars

LEMMA ConvAgrees ==
    ASSUME RunInv, AsstInv, Conv
    PROVE  AsstInv'
<1>1. UNCHANGED asstVars
  BY DEF Conv
<1>2. CASE Expire \/ Tick
  <2>1. UNCHANGED <<op, pc, outcome, db, row, astray, asst>>
    BY <1>1, <1>2 DEF Expire, Tick, callVars, asstVars
  <2> QED
    BY <2>1 DEF AsstInv, Writes, Agrees, Between
<1>3. ASSUME NEW w \in Workers, ConvStep(w) PROVE AsstInv'
  <2>1. pc[w] = "getThread" => op[w] \in DOMAIN AfterGet
    BY DEF RunInv, Begun, BegunBy
  <2>2. ASSUME ConvBegin(w)
        PROVE  pc[w] = "start" /\ Goto(w, ConvFirst[op[w]])
               /\ ConvFirst[op[w]] \notin {"updateRow", "deleteRow", "cacheUpdate", "dropAssistant"}
    BY <2>2 DEF ConvBegin, At, ConvOps, ConvFirst
  <2>3. /\ op' = op /\ pc[w] \notin {"done", "cacheUpdate", "dropAssistant"}
        /\ \A v \in Workers \ {w} : pc'[v] = pc[v] /\ outcome'[v] = outcome[v]
        /\ pc'[w] \notin {"updateRow", "deleteRow", "cacheUpdate", "dropAssistant"}
    <3>1. CASE ConvBegin(w)
      BY <2>2, <3>1, GotoMoves DEF RunInv
    <3>2. CASE ~ConvBegin(w)
      BY <1>3, <2>1, <3>2, GotoMoves, AnswerMoves
      DEF ConvStep, CreateSession, CacheThread, GetThread, DeleteSession, DropThread,
          CacheMessage, GetMessage, ModifyMessage, Scan, ScanMore, GetMany, RunInv, At, AfterGet
    <3> QED
      BY <3>1, <3>2
  <2> QED
    BY <1>1, <2>3, ElsewhereAgrees
<1>4. ASSUME NEW w \in Workers, ConvBreaks(w) PROVE AsstInv'
  <2>1. /\ op' = op /\ pc[w] # "done" /\ pc'[w] = "done" /\ outcome'[w] = "failed"
        /\ \A v \in Workers \ {w} : pc'[v] = pc[v] /\ outcome'[v] = outcome[v]
    BY <1>4, AnswerMoves DEF ConvBreaks, RunInv
  <2>2. Writes(w)' /\ (Between(w) => Between(w)')
    BY <2>1 DEF AsstInv, Writes, Between
  <2> QED
    BY <1>1, <2>1, <2>2, AsstAside DEF asstVars
<1> QED
  BY <1>2, <1>3, <1>4 DEF Conv, ConvEnv

LEMMA RunStepsAgree ==
    ASSUME RunInv, AsstInv, NEW w \in Workers,
           \/ RunBegin(w) \/ CreateRun(w) \/ ReadRun(w) \/ WriteRun(w)
           \/ Sdk(w) \/ AddAnswer(w) \/ StreamSdk(w)
    PROVE  AsstInv'
<1>1. UNCHANGED asstVars
  BY DEF RunBegin, CreateRun, ReadRun, WriteRun, Sdk, AddAnswer, StreamSdk
<1>2. ASSUME RunBegin(w)
      PROVE  pc[w] = "start" /\ Goto(w, RunFirst[op[w]])
             /\ RunFirst[op[w]] \notin {"updateRow", "deleteRow", "cacheUpdate", "dropAssistant"}
  BY <1>2 DEF RunBegin, At, RunFirst
<1>3. /\ op' = op /\ pc[w] \notin {"done", "cacheUpdate", "dropAssistant"}
      /\ \A v \in Workers \ {w} : pc'[v] = pc[v] /\ outcome'[v] = outcome[v]
      /\ pc'[w] \notin {"updateRow", "deleteRow", "cacheUpdate", "dropAssistant"}
  <2>1. CASE RunBegin(w)
    BY <1>2, <2>1, GotoMoves DEF RunInv
  <2>2. CASE ~RunBegin(w)
    BY <2>2, GotoMoves, AnswerMoves, CallMoves
    DEF CreateRun, ReadRun, AfterVerb, WriteRun, Sdk, AddAnswer, StreamSdk, RunInv, At
  <2> QED
    BY <2>1, <2>2
<1> QED
  BY <1>1, <1>3, ElsewhereAgrees

\* Where get_assistant leads.
LEMMA GotLeads ==
    ASSUME RunInv, NEW w \in Workers, pc[w] \in {"getAssistant", "getRow", "refill"},
           Got(w) \/ NotGot(w)
    PROVE  /\ op' = op
           /\ \A v \in Workers \ {w} : pc'[v] = pc[v] /\ outcome'[v] = outcome[v]
           /\ pc'[w] = "updateRow" => op[w] = "updateAssistant"
           /\ pc'[w] = "deleteRow" => op[w] = "deleteAssistant"
           /\ pc'[w] \notin {"cacheUpdate", "dropAssistant"}
<1>1. CASE Got(w)
  <2>1. op[w] = "getAssistant" \/ op[w] \in DOMAIN AfterAssistant
    BY DEF RunInv, Begun, BegunBy
  <2>2. op[w] \in DOMAIN AfterAssistant =>
          /\ AfterAssistant[op[w]] \notin {"cacheUpdate", "dropAssistant"}
          /\ AfterAssistant[op[w]] = "updateRow" => op[w] = "updateAssistant"
          /\ AfterAssistant[op[w]] = "deleteRow" => op[w] = "deleteAssistant"
    BY DEF AfterAssistant
  <2> QED
    BY <1>1, <2>1, <2>2, GotoMoves, AnswerMoves DEF Got, RunInv
<1>2. CASE NotGot(w)
  BY <1>2, GotoMoves, AnswerMoves, CallMoves DEF NotGot, Missing, RunInv
<1> QED
  BY <1>1, <1>2

LEMMA FaultsAgree ==
    ASSUME RunInv, AsstInv, NEW w \in Workers, RedisRaises(w) \/ Dies(w)
    PROVE  AsstInv'
<1>1. UNCHANGED asstVars /\ pc[w] # "done"
  BY DEF RedisRaises, Dies
<1>2. CASE pc[w] = "refill" /\ NotGot(w)
  BY <1>1, <1>2, GotLeads, ElsewhereAgrees
<1>3. CASE Call(w, "fail") /\ InTry(w)
  <2>1. op' = op /\ pc'[w] = "readRun"
        /\ \A v \in Workers \ {w} : pc'[v] = pc[v] /\ outcome'[v] = outcome[v]
    BY <1>3, CallMoves DEF RunInv
  <2>2. pc[w] \notin {"done", "cacheUpdate", "dropAssistant"}
    BY <1>3 DEF InTry
  <2> QED
    BY <1>1, <2>1, <2>2, ElsewhereAgrees
<1>4. CASE Answer(w, "failed") \/ (Answer(w, "ok") /\ pc[w] = "cacheNew")
  <2>1. /\ op' = op /\ pc'[w] = "done"
        /\ outcome'[w] = "failed" \/ pc[w] = "cacheNew"
        /\ \A v \in Workers \ {w} : pc'[v] = pc[v] /\ outcome'[v] = outcome[v]
    BY <1>4, AnswerMoves DEF RunInv
  <2>2. Writes(w)' /\ (Between(w) => Between(w)')
    BY <1>1, <2>1 DEF AsstInv, Writes, Between, RunInv, Settled
  <2> QED
    BY <1>1, <2>1, <2>2, AsstAside DEF asstVars
<1> QED
  BY <1>2, <1>3, <1>4 DEF RedisRaises, Dies

LEMMA AssistantAgrees ==
    ASSUME RunInv, AsstInv, NEW w \in Workers,
           \/ InsertRow(w) \/ GetAssistant(w) \/ GetRow(w) \/ StoreCopy(w)
           \/ UpdateRow(w) \/ DeleteRow(w) \/ DropAssistant(w)
    PROVE  AsstInv'
<1>1. CASE GetAssistant(w) \/ GetRow(w)
  <2>1. pc[w] \in {"getAssistant", "getRow"} /\ UNCHANGED asstVars
    BY <1>1 DEF GetAssistant, GetRow, At
  <2>2. Got(w) \/ NotGot(w) \/ Goto(w, "getRow") \/ Goto(w, "refill")
    BY <1>1 DEF GetAssistant, GetRow
  <2> QED
    BY <2>1, <2>2, GotLeads, GotoMoves, ElsewhereAgrees DEF RunInv
<1>2. CASE StoreCopy(w)
  <2>1. /\ asst' = copy[w] /\ UNCHANGED <<row, db>>
        /\ pc[w] \in {"refill", "cacheNew", "cacheUpdate"}
    BY <1>2 DEF StoreCopy, CacheAssistant
  <2>2. ~astray' /\ db => copy[w] = row
    BY <1>2, Zenon DEF StoreCopy, CacheAssistant
  <2>3. Agrees'
    BY <2>1, <2>2 DEF Agrees
  <2>4. /\ op' = op /\ \A v \in Workers \ {w} : pc'[v] = pc[v]
        /\ pc'[w] = "updateRow" => op[w] = "updateAssistant"
        /\ pc'[w] = "deleteRow" => op[w] = "deleteAssistant"
        /\ pc'[w] \notin {"cacheUpdate", "dropAssistant"}
    BY <1>2, GotLeads, AnswerMoves DEF StoreCopy, At, RunInv
  <2> QED
    BY <2>3, <2>4 DEF AsstInv, Writes
<1>3. CASE InsertRow(w)
  <2>1. asst' = None /\ op' = op /\ pc'[w] = "cacheNew"
        /\ \A v \in Workers \ {w} : pc'[v] = pc[v]
    BY <1>3, GotoMoves DEF InsertRow, RunInv
  <2> QED
    BY <2>1 DEF AsstInv, Writes, Agrees
<1>4. CASE UpdateRow(w)
  <2>1. pc[w] = "updateRow" /\ op' = op /\ pc'[w] = "cacheUpdate"
        /\ \A v \in Workers \ {w} : pc'[v] = pc[v]
    BY <1>4, GotoMoves DEF UpdateRow, At, RunInv
  <2>2. Between(w)'
    BY <2>1 DEF Between
  <2> QED
    BY <2>1, <2>2 DEF AsstInv, Writes, Agrees
<1>5. CASE DeleteRow(w)
  <2>1. pc[w] = "deleteRow" /\ op[w] = "deleteAssistant"
        /\ UNCHANGED <<asst, db, astray>> /\ row' = None
    BY <1>5 DEF DeleteRow, At, AsstInv, Writes
  <2>2. CASE Goto(w, "dropAssistant")
    <3>1. op' = op /\ pc'[w] = "dropAssistant" /\ \A v \in Workers \ {w} : pc'[v] = pc[v]
      BY <2>2, GotoMoves DEF RunInv
    <3>2. Between(w)'
      BY <3>1 DEF Between
    <3> QED
      BY <2>1, <3>1, <3>2 DEF AsstInv, Writes, Agrees
  <2>3. CASE Answer(w, "notFound") /\ row = None
    <3>1. op' = op /\ pc'[w] = "done"
          /\ \A v \in Workers \ {w} : pc'[v] = pc[v] /\ outcome'[v] = outcome[v]
      BY <2>3, AnswerMoves DEF RunInv
    <3>2. Writes(w)' /\ ~Between(w)
      BY <2>1, <3>1 DEF Writes, Between, RunInv, Settled
    <3> QED
      BY <2>1, <2>3, <3>1, <3>2, AsstAside
  <2> QED
    BY <1>5, <2>2, <2>3 DEF DeleteRow
<1>6. CASE DropAssistant(w)
  <2>1. asst' = None /\ op' = op /\ pc'[w] = "done" /\ \A v \in Workers \ {w} : pc'[v] = pc[v]
    BY <1>6, AnswerMoves DEF DropAssistant, RunInv
  <2> QED
    BY <2>1 DEF AsstInv, Writes, Agrees
<1> QED
  BY <1>1, <1>2, <1>3, <1>4, <1>5, <1>6

LEMMA NextAgrees ==
    ASSUME RunInv, AsstInv, [Next]_vars
    PROVE  AsstInv'
<1>1. CASE RunExpires
  <2>1. UNCHANGED <<op, pc, outcome, db, row, astray>> /\ asst' \in {asst, None}
    BY <1>1 DEF RunExpires, convVars, callVars
  <2> QED
    BY <2>1 DEF AsstInv, Writes, Agrees, Between
<1>2. CASE UNCHANGED vars
  <2>1. UNCHANGED <<op, pc, outcome, db, row, astray, asst>>
    BY <1>2 DEF vars, convVars, callVars, asstVars
  <2> QED
    BY <2>1 DEF AsstInv, Writes, Agrees, Between
<1> QED
  BY <1>1, <1>2, ConvAgrees, RunStepsAgree, AssistantAgrees, FaultsAgree DEF Next, RunStep

\* With a database, Redis shows the assistant of the row, or a call is between its two
\* writes or broke off there, or cached a copy the row had outgrown
\* (assistant_service.py 344-620).
THEOREM AssistantIsCurrent == Spec => []CachedAssistantIsRow
<1>1. Init => AsstInv
  <2> SUFFICES ASSUME Init PROVE AsstInv
    OBVIOUS
  <2>1. PICK start \in Starts :
           /\ ConvInit(start) /\ db = start.db
           /\ row = IF start.db THEN start.row ELSE None
           /\ asst \in IF start.db THEN {None, start.row} ELSE {start.row}
    BY DEF Init
  <2>2. \A w \in Workers : pc[w] = "start"
    BY <2>1 DEF ConvInit
  <2>3. db => asst \in {None, row}
    BY <2>1
  <2> QED
    BY <2>2, <2>3 DEF AsstInv, Writes, Agrees
<1>2. RunInv /\ AsstInv /\ [Next]_vars => RunInv' /\ AsstInv'
  BY NextKeepsRunInv, NextAgrees
<1>3. AsstInv => CachedAssistantIsRow
  BY DEF AsstInv, Agrees, Between, CachedAssistantIsRow
<1> QED
  BY <1>1, <1>2, <1>3, InitRunInv, PTL DEF Spec
----------------------------------------------------------------------------
(* What a list of messages shows *)

\* Who has its own message still to write.
ToWrite(w) ==
    \/ /\ op[w] \in {"createThread", "createMessage"}
       /\ pc[w] \in {"start", "session", "cacheThread", "addMessage"}
    \/ /\ op[w] \in Executes
       /\ \/ pc[w] \in {"start", "getAssistant", "getRow", "refill", "sdk", "addAnswer"}
                       \cup ListSteps
          \/ pc[w] \in {"readRun", "writeRun"} /\ verb[w] \in {"start", "submit"}

Holding(w) == pc[w] = "cacheMessage"

\* What modify_message holds is the message as it was made, whether or not it has
\* expired since.
HeldIsOld(w) ==
    Holding(w) => \A r \in found[w] :
        /\ r \in [id : Ids, at : Nat]
        /\ message[r.id] \in {None, r.at}
        /\ \A v \in Workers : Holding(v) => \A s \in found[v] : s.id = r.id => s.at = r.at

\* An id is new until its message is written, once.
Unused(w) ==
    ToWrite(w) =>
        /\ message[w] = None
        /\ \A v \in Workers : Holding(v) => \A r \in found[v] : r.id # w

\* A list that is under way has seen all there is, and lost nothing it counts on, unless
\* the scan was cut off.
Seen(w) ==
    /\ here[w] \subseteq Present /\ Present \subseteq ever[w]
    /\ found[w] \subseteq Keys(ever[w]) /\ Keys(ever[w]) \subseteq Ids
Scanning(w) ==
    /\ pc[w] \in {"scanMore", "getMany"} => Seen(w)
    /\ pc[w] = "getMany" /\ Few(w) => Keys(here[w]) \subseteq found[w]

\* Who lists, and who could be taken for one that did.
Lister(w) ==
    /\ pc[w] = "addMessage" => op[w] \in {"createThread", "createMessage"}
    /\ pc[w] = "cacheThread" => op[w] \in {"createThread", "modifyThread"}
    /\ pc[w] = "session" => op[w] = "createThread"
    /\ op[w] \in Lists => pc[w] \in {"start", "done"} \cup ListSteps
    /\ pc[w] \in ListSteps => op[w] # "streamRun"
    /\ op[w] = "streamRun" => page[w] = {} /\ here[w] = {}

RightPage(w) ==
    Listed(w) =>
        /\ page[w] \subseteq ever[w]
        /\ Few(w) =>
              \A r \in here[w] \ page[w] :
                 more[w] /\ \A s \in page[w] : ~Precedes(r, s, order[w])

ListCalls ==
    /\ IsCall(order) /\ IsCall(found) /\ IsCall(page) /\ IsCall(more)
    /\ IsCall(here) /\ IsCall(ever)

ListInv ==
    /\ ListCalls
    /\ second \in Nat /\ message \in [Ids -> Nat \cup {None}]
    /\ \A w \in Workers :
          HeldIsOld(w) /\ Unused(w) /\ Scanning(w) /\ Lister(w) /\ RightPage(w)

\* Few messages were few before more came, and all of them are found when the scan has
\* come to its limit.
LEMMA FewBefore ==
    ASSUME NEW A, NEW B, A \subseteq B, B \subseteq Ids, Cardinality(B) <= ScanLimit
    PROVE  /\ Cardinality(A) <= ScanLimit
           /\ Cardinality(A) = ScanLimit => A = B
<1>1. IsFiniteSet(B) /\ IsFiniteSet(A)
  BY ConversationAssumption, FS_Subset
<1>2. /\ Cardinality(A) \in Nat /\ Cardinality(B) \in Nat
      /\ Cardinality(A) <= Cardinality(B)
      /\ Cardinality(A) = Cardinality(B) => A = B
  BY <1>1, FS_Subset, FS_CardinalityType
<1> QED
  BY <1>2, ConversationAssumption

\* One row more is one key more.
LEMMA KeysOfOneMore ==
    ASSUME NEW R, NEW i, NEW s
    PROVE  Keys(R \cup {[id |-> i, at |-> s]}) = Keys(R) \cup {i}
<1>1. [id |-> i, at |-> s].id = i
  OBVIOUS
<1> QED
  BY <1>1 DEF Keys

LEMMA PresentKeys == Keys(Present) \subseteq Ids
BY DEF Keys, Present, Row

LEMMA PresentIs ==
    \A r : r \in Present <=> \E k \in Ids : message[k] # None /\ r = [id |-> k, at |-> message[k]]
BY DEF Present, Row

\* What a step of one worker must leave of the others, and of the messages.
ListAside(w) ==
    /\ op' = op
    /\ \A v \in Workers \ {w} :
          /\ pc'[v] = pc[v] /\ outcome'[v] = outcome[v] /\ verb'[v] = verb[v]
          /\ found'[v] = found[v] /\ page'[v] = page[v] /\ more'[v] = more[v]
          /\ order'[v] = order[v] /\ here'[v] = here[v] /\ ever'[v] = ever[v]

\* A step of one worker that leaves the messages alone.
LEMMA AsideKeepsLists ==
    ASSUME RunInv, ListInv, NEW w \in Workers, ListAside(w), UNCHANGED <<message, second>>,
           ToWrite(w)' => ToWrite(w),
           Holding(w)' => \E k \in Ids : message[k] # None /\ found'[w] = {Row(k)},
           ListCalls', Scanning(w)', Lister(w)', RightPage(w)'
    PROVE  ListInv'
<1> USE DEF ListInv, ListAside
<1>1. second' \in Nat /\ message' \in [Ids -> Nat \cup {None}]
  OBVIOUS
<1>2. ASSUME NEW v \in Workers, Holding(v)', NEW r \in found'[v]
      PROVE  /\ r \in [id : Ids, at : Nat] /\ message[r.id] \in {None, r.at}
             /\ v = w => message[r.id] = r.at /\ r.at # None
  <2>1. CASE v = w
    <3>1. PICK k \in Ids : message[k] # None /\ found'[w] = {Row(k)}
      BY <1>2, <2>1
    <3>2. r = [id |-> k, at |-> message[k]] /\ message[k] \in Nat
      BY <1>2, <2>1, <3>1 DEF Row
    <3> QED
      BY <2>1, <3>1, <3>2
  <2>2. CASE v # w
    BY <1>2, <2>2 DEF HeldIsOld, Holding
  <2> QED
    BY <2>1, <2>2
<1>3. ASSUME NEW v \in Workers, NEW u \in Workers, Holding(v)', Holding(u)',
             NEW r \in found'[v], NEW s \in found'[u], s.id = r.id
      PROVE  s.at = r.at
  <2>1. CASE v # w /\ u # w
    BY <1>3, <2>1 DEF HeldIsOld, Holding
  <2>2. CASE v = w \/ u = w
    BY <1>2, <1>3, <2>2
  <2> QED
    BY <2>1, <2>2
<1>4. \A v \in Workers : HeldIsOld(v)'
  BY <1>2, <1>3 DEF HeldIsOld
<1>5. ASSUME NEW v \in Workers, ToWrite(v)'
      PROVE  /\ message[v] = None
             /\ \A u \in Workers : Holding(u)' => \A r \in found'[u] : r.id # v
  <2>1. ToWrite(v)
    BY <1>5 DEF ToWrite
  <2>2. message[v] = None
    BY <2>1 DEF Unused
  <2>3. ASSUME NEW u \in Workers, Holding(u)', NEW r \in found'[u]
        PROVE  r.id # v
    <3>1. CASE u = w
      BY <1>2, <2>2, <2>3, <3>1
    <3>2. CASE u # w
      BY <2>1, <2>3, <3>2 DEF Unused, Holding
    <3> QED
      BY <3>1, <3>2
  <2> QED
    BY <2>2, <2>3
<1>6. \A v \in Workers : Unused(v)'
  BY <1>5 DEF Unused
<1>7. Present' = Present
  BY DEF Present, Row
<1>8. ASSUME NEW v \in Workers, v # w
      PROVE  Scanning(v)' /\ Lister(v)' /\ RightPage(v)'
  <2>1. Scanning(v) /\ Lister(v) /\ RightPage(v)
    OBVIOUS
  <2> HIDE DEF ListInv
  <2>2. /\ pc'[v] = pc[v] /\ op'[v] = op[v] /\ outcome'[v] = outcome[v]
        /\ found'[v] = found[v] /\ page'[v] = page[v] /\ more'[v] = more[v]
        /\ order'[v] = order[v] /\ here'[v] = here[v] /\ ever'[v] = ever[v]
    BY <1>8
  <2>3. Scanning(v)'
    BY <1>7, <2>1, <2>2 DEF Scanning, Seen, Few, Keys
  <2>4. Lister(v)'
    BY <2>1, <2>2 DEF Lister
  <2>5. RightPage(v)'
    BY <2>1, <2>2 DEF RightPage, Listed, Few, Keys, Precedes
  <2> QED
    BY <2>3, <2>4, <2>5
<1> QED
  BY <1>1, <1>4, <1>6, <1>8

\* A step that goes on, or answers, and neither lists nor holds a message.
LEMMA ElsewhereKeepsLists ==
    ASSUME RunInv, ListInv, NEW w \in Workers, op' = op,
           \A v \in Workers \ {w} :
               pc'[v] = pc[v] /\ outcome'[v] = outcome[v] /\ verb'[v] = verb[v],
           UNCHANGED <<message, second, listVars>>,
           ToWrite(w)' => ToWrite(w),
           pc'[w] \notin {"cacheMessage", "scanMore", "getMany"},
           pc'[w] = "sdk" => op[w] = "streamRun" \/ pc[w] = "sdk",
           op[w] \in Lists /\ outcome'[w] = "ok" => outcome[w] = "ok",
           pc'[w] = "addMessage" => op[w] \in {"createThread", "createMessage"},
           pc'[w] = "cacheThread" => op[w] \in {"createThread", "modifyThread"},
           pc'[w] = "session" => op[w] = "createThread",
           op[w] \in Lists => pc'[w] \in {"done", "scan"},
           pc'[w] = "scan" => op[w] # "streamRun"
    PROVE  ListInv'
<1>1. ListAside(w) /\ ListCalls'
  BY DEF ListAside, listVars, ListInv, ListCalls, IsCall
<1>2. Scanning(w)' /\ ~Holding(w)'
  BY DEF Scanning, Holding
<1>3. Lister(w)'
  BY DEF Lister, ListInv, listVars, ListSteps
<1>4. RightPage(w)'
  <2>1. CASE op[w] = "streamRun"
    BY <2>1 DEF RightPage, ListInv, Lister, listVars
  <2>2. CASE op[w] # "streamRun"
    <3>1. Listed(w)' => Listed(w)
      BY <2>2 DEF Listed
    <3> QED
      BY <3>1 DEF RightPage, ListInv, listVars, Precedes, Few, Keys
  <2> QED
    BY <2>1, <2>2
<1> QED
  BY <1>1, <1>2, <1>3, <1>4, AsideKeepsLists

\* A message is written: one that was not there, or as it was.
LEMMA WriteKeepsLists ==
    ASSUME RunInv, ListInv, NEW w \in Workers, NEW k \in Ids, NEW t \in Nat,
           message[k] \in {None, t}, message' = [message EXCEPT ![k] = t],
           UNCHANGED <<second, op, order, page, more, here>>,
           ever' = [v \in Workers |-> IF pc[v] \in ListSteps
                                      THEN ever[v] \cup {[id |-> k, at |-> t]} ELSE ever[v]],
           \A v \in Workers \ {w} :
               /\ pc'[v] = pc[v] /\ outcome'[v] = outcome[v] /\ verb'[v] = verb[v]
               /\ found'[v] = found[v]
               /\ ToWrite(v) => k # v
               /\ Holding(v) => \A s \in found[v] : s.id = k => s.at = t,
           IsCall(found'), ~ToWrite(w)', op[w] \notin Lists, pc'[w] \in {"done", "readRun"}
    PROVE  ListInv'
<1> USE DEF ListInv
<1>1. second' \in Nat /\ message' \in [Ids -> Nat \cup {None}]
  OBVIOUS
<1>2. ~Holding(w)' /\ \A v \in Workers \ {w} : Holding(v)' <=> Holding(v)
  BY DEF Holding
<1>3. \A v \in Workers : HeldIsOld(v)'
  <2> SUFFICES ASSUME NEW v \in Workers, Holding(v)', NEW r \in found'[v]
               PROVE  /\ r \in [id : Ids, at : Nat] /\ message'[r.id] \in {None, r.at}
                      /\ \A u \in Workers : Holding(u)' =>
                            \A s \in found'[u] : s.id = r.id => s.at = r.at
    BY DEF HeldIsOld
  <2>1. v # w /\ Holding(v) /\ r \in found[v]
    BY <1>2
  <2>2. r \in [id : Ids, at : Nat] /\ message[r.id] \in {None, r.at}
    BY <2>1 DEF HeldIsOld
  <2>3. message'[r.id] \in {None, r.at}
    BY <2>1, <2>2
  <2> QED
    BY <1>2, <2>1, <2>2, <2>3 DEF HeldIsOld
<1>4. \A v \in Workers : Unused(v)'
  <2> SUFFICES ASSUME NEW v \in Workers, ToWrite(v)'
               PROVE  /\ message'[v] = None
                      /\ \A u \in Workers : Holding(u)' => \A r \in found'[u] : r.id # v
    BY DEF Unused
  <2>1. v # w
    OBVIOUS
  <2>2. ToWrite(v) /\ k # v /\ v \in Ids
    BY <2>1 DEF ToWrite, Ids
  <2> QED
    BY <1>2, <2>1, <2>2 DEF Unused
<1>5. Present' = Present \cup {[id |-> k, at |-> t]}
  <2>1. ASSUME NEW r PROVE r \in Present' <=> r \in Present \cup {[id |-> k, at |-> t]}
    <3>1. r \in Present' <=> \E j \in Ids : message'[j] # None /\ r = [id |-> j, at |-> message'[j]]
      BY DEF Present, Row
    <3>2. t # None /\ message'[k] = t /\ \A j \in Ids \ {k} : message'[j] = message[j]
      BY ConversationAssumption
    <3>3. r \in Present <=> \E j \in Ids : message[j] # None /\ r = [id |-> j, at |-> message[j]]
      BY PresentIs
    <3> QED
      BY <3>1, <3>2, <3>3
  <2> QED
    BY <2>1
<1>6. ASSUME NEW v \in Workers, v # w
      PROVE  Scanning(v)' /\ Lister(v)' /\ RightPage(v)'
  <2>1. Scanning(v)'
    <3> SUFFICES ASSUME pc'[v] \in {"scanMore", "getMany"}
                 PROVE  /\ Seen(v)'
                        /\ pc'[v] = "getMany" /\ Few(v)' => Keys(here'[v]) \subseteq found'[v]
      BY DEF Scanning
    <3>1. pc[v] \in {"scanMore", "getMany"} /\ pc[v] \in ListSteps /\ pc'[v] = pc[v]
      BY <1>6 DEF ListSteps
    <3>2. /\ found'[v] = found[v] /\ here'[v] = here[v]
          /\ ever'[v] = ever[v] \cup {[id |-> k, at |-> t]}
      BY <1>6, <3>1
    <3>3. Seen(v) /\ Scanning(v)
      BY <3>1 DEF Scanning
    <3> HIDE DEF ListInv
    <3>4. Keys(ever'[v]) = Keys(ever[v]) \cup {k}
      <4> DEFINE later == ever[v] \cup {[id |-> k, at |-> t]}
      <4>1. Keys(later) = Keys(ever[v]) \cup {k}
        BY KeysOfOneMore
      <4>2. ever'[v] = later
        BY <3>2
      <4> HIDE DEF later
      <4> QED
        BY <4>1, <4>2, Zenon
    <3>5. Seen(v)'
      BY <1>5, <3>2, <3>3, <3>4 DEF Seen
    <3>6. Few(v)' => Few(v)
      BY <3>4, <3>5, FewBefore DEF Few, Seen
    <3> QED
      BY <3>1, <3>2, <3>3, <3>5, <3>6 DEF Scanning
  <2>2. Lister(v)'
    BY <1>6 DEF Lister
  <2>3. RightPage(v)'
    <3>1. CASE pc[v] \in ListSteps
      <4>1. outcome[v] = "pending" /\ pc[v] # "sdk"
        BY <3>1 DEF RunInv, Settled, ListSteps
      <4> QED
        BY <1>6, <4>1 DEF RightPage, Listed
    <3>2. CASE pc[v] \notin ListSteps
      <4>1. ever'[v] = ever[v]
        BY <3>2
      <4> QED
        BY <1>6, <4>1 DEF RightPage, Listed, Precedes, Few, Keys
    <3> QED
      BY <3>1, <3>2
  <2> QED
    BY <2>1, <2>2, <2>3
<1>7. Scanning(w)' /\ Lister(w)' /\ RightPage(w)'
  BY DEF Scanning, Lister, RightPage, Listed, ListSteps
<1>8. ListCalls'
  BY DEF ListCalls, IsCall
<1> QED
  BY <1>1, <1>3, <1>4, <1>6, <1>7, <1>8

LEMMA OwnMessageKeepsLists ==
    ASSUME RunInv, ListInv, NEW w \in Workers,
           \/ CacheMessage(w) /\ UNCHANGED <<runVars, asstVars, held>>
           \/ AddAnswer(w)
    PROVE  ListInv'
<1>1. /\ Write(w) /\ op' = op /\ pc'[w] \in {"done", "readRun"}
      /\ \A v \in Workers \ {w} :
            pc'[v] = pc[v] /\ outcome'[v] = outcome[v] /\ verb'[v] = verb[v]
      /\ ToWrite(w) /\ ~ToWrite(w)' /\ op[w] \notin Lists
  <2>1. CASE CacheMessage(w) /\ UNCHANGED held
    <3>1. pc[w] = "addMessage" /\ Write(w) /\ Answer(w, "ok") /\ verb' = verb
      BY <2>1 DEF CacheMessage, At, held
    <3>2. ToWrite(w) /\ op[w] \notin Lists
      BY <3>1 DEF ToWrite, ListInv, Lister, Lists
    <3>3. op' = op /\ pc'[w] = "done"
          /\ \A v \in Workers \ {w} : pc'[v] = pc[v] /\ outcome'[v] = outcome[v]
      BY <3>1, AnswerMoves DEF RunInv
    <3> QED
      BY <3>1, <3>2, <3>3 DEF ToWrite, ListSteps
  <2>2. CASE AddAnswer(w)
    <3>1. pc[w] = "addAnswer" /\ Write(w) /\ Call(w, "complete")
      BY <2>2 DEF AddAnswer, At
    <3>2. op[w] \in Executes
      BY <3>1 DEF RunInv, Begun, BegunBy
    <3>3. ToWrite(w) /\ op[w] \notin Lists
      BY <3>1, <3>2 DEF ToWrite, Executes, Lists
    <3>4. /\ op' = op /\ outcome' = outcome /\ pc'[w] = "readRun" /\ verb'[w] = "complete"
          /\ \A v \in Workers \ {w} : pc'[v] = pc[v] /\ verb'[v] = verb[v]
      BY <3>1, CallMoves DEF RunInv
    <3> QED
      BY <3>1, <3>3, <3>4 DEF ToWrite, ListSteps
  <2> QED
    BY <2>1, <2>2
<1>2. /\ message' = [message EXCEPT ![w] = second]
      /\ ever' = [v \in Workers |-> IF pc[v] \in ListSteps
                                    THEN ever[v] \cup {[id |-> w, at |-> second]} ELSE ever[v]]
      /\ UNCHANGED <<second, order, found, page, more, here>>
  BY <1>1 DEF Write
<1>3. w \in Ids /\ second \in Nat /\ message[w] = None
      /\ \A v \in Workers : Holding(v) => \A s \in found[v] : s.id # w
  BY <1>1 DEF Ids, ListInv, Unused
<1>4. IsCall(found')
  BY <1>2 DEF ListInv, ListCalls, IsCall
<1> QED
  BY <1>1, <1>2, <1>3, <1>4, WriteKeepsLists

LEMMA ModifyMessageKeepsLists ==
    ASSUME RunInv, ListInv, NEW w \in Workers, ModifyMessage(w),
           UNCHANGED <<runVars, asstVars, held>>
    PROVE  ListInv'
<1>1. PICK r \in found[w] :
        /\ message' = [message EXCEPT ![r.id] = r.at]
        /\ ever' = [v \in Workers |->
                      IF pc[v] \in ListSteps THEN ever[v] \cup {r} ELSE ever[v]]
  BY DEF ModifyMessage
<1>2. pc[w] = "cacheMessage" /\ Holding(w)
  BY DEF ModifyMessage, At, Holding
<1>3. r \in [id : Ids, at : Nat] /\ message[r.id] \in {None, r.at}
      /\ \A v \in Workers : Holding(v) => \A s \in found[v] : s.id = r.id => s.at = r.at
  BY <1>2 DEF ListInv, HeldIsOld
<1>4. r = [id |-> r.id, at |-> r.at]
  BY <1>3
<1>5. op' = op /\ pc'[w] = "done"
      /\ \A v \in Workers \ {w} : pc'[v] = pc[v] /\ outcome'[v] = outcome[v]
  BY AnswerMoves DEF ModifyMessage, RunInv
<1>6. /\ UNCHANGED <<second, order, page, more, here, verb>>
      /\ \A v \in Workers \ {w} : found'[v] = found[v]
      /\ IsCall(found')
  <2>1. found' = [found EXCEPT ![w] = {}]
    BY DEF ModifyMessage
  <2> QED
    BY <2>1 DEF ModifyMessage, held, ListInv, ListCalls, IsCall
<1>7. ~ToWrite(w)' /\ op[w] \notin Lists
  BY <1>2, <1>5 DEF ToWrite, ListSteps, ListInv, Lister
<1>8. \A v \in Workers : ToWrite(v) => r.id # v
  BY <1>2 DEF ListInv, Unused
<1>9. ever' = [v \in Workers |-> IF pc[v] \in ListSteps
                    THEN ever[v] \cup {[id |-> r.id, at |-> r.at]} ELSE ever[v]]
  BY <1>1, <1>4
<1>10. PICK k \in Ids, t \in Nat : k = r.id /\ t = r.at
  BY <1>3
<1>11. message[k] \in {None, t} /\ message' = [message EXCEPT ![k] = t]
  BY <1>1, <1>3, <1>10
<1>12. ever' = [v \in Workers |-> IF pc[v] \in ListSteps
                    THEN ever[v] \cup {[id |-> k, at |-> t]} ELSE ever[v]]
  BY <1>9, <1>10
<1>13. \A v \in Workers \ {w} :
         /\ pc'[v] = pc[v] /\ outcome'[v] = outcome[v] /\ verb'[v] = verb[v]
         /\ found'[v] = found[v]
         /\ ToWrite(v) => k # v
         /\ Holding(v) => \A s \in found[v] : s.id = k => s.at = t
  BY <1>3, <1>5, <1>6, <1>8, <1>10
<1>14. pc'[w] \in {"done", "readRun"}
  BY <1>5
<1> QED
  BY <1>5, <1>6, <1>7, <1>11, <1>12, <1>13, <1>14, WriteKeepsLists

LEMMA GetMessageKeepsLists ==
    ASSUME RunInv, ListInv, NEW w \in Workers, GetMessage(w),
           UNCHANGED <<runVars, asstVars, held>>
    PROVE  ListInv'
<1>1. pc[w] = "getMessage" /\ UNCHANGED <<message, second, order, page, more, here, ever, verb>>
  BY DEF GetMessage, At, recordVars, held
<1>2. PICK k \in Ids :
         \/ message[k] # None /\ Goto(w, "cacheMessage") /\ found' = [found EXCEPT ![w] = {Row(k)}]
         \/ (Answer(w, "notFound") \/ Answer(w, "ok")) /\ found' = found
  BY DEF GetMessage
<1>3. /\ op' = op
      /\ \A v \in Workers \ {w} : pc'[v] = pc[v] /\ outcome'[v] = outcome[v]
      /\ \/ pc'[w] = "done" /\ found' = found
         \/ pc'[w] = "cacheMessage" /\ message[k] # None /\ found'[w] = {Row(k)}
            /\ \A v \in Workers \ {w} : found'[v] = found[v]
      /\ IsCall(found')
  BY <1>2, GotoMoves, AnswerMoves DEF RunInv, ListInv, ListCalls, IsCall
<1>4. ListAside(w) /\ ListCalls'
  BY <1>1, <1>3 DEF ListAside, ListInv, ListCalls, IsCall
<1>5. op[w] \notin Lists /\ ~ToWrite(w)'
  BY <1>1, <1>3 DEF ListInv, Lister, ListSteps, ToWrite
<1>6. Scanning(w)' /\ Lister(w)' /\ RightPage(w)'
  BY <1>1, <1>3, <1>5 DEF Scanning, Lister, RightPage, Listed, ListInv, ListSteps
<1>7. Holding(w)' => message[k] # None /\ found'[w] = {Row(k)}
  BY <1>3 DEF Holding
<1> QED
  BY <1>1, <1>4, <1>5, <1>6, <1>7, AsideKeepsLists

LEMMA ScanKeepsLists ==
    ASSUME RunInv, ListInv, NEW w \in Workers, Scan(w), UNCHANGED <<runVars, asstVars, held>>
    PROVE  ListInv'
<1>1. pc[w] = "scan" /\ UNCHANGED <<message, second, page, more, verb>>
  BY DEF Scan, At, recordVars, held
<1>2. PICK part \in SUBSET Keys(Present), o \in {"asc", "desc"} :
        /\ found' = [found EXCEPT ![w] = part] /\ order' = [order EXCEPT ![w] = o]
        /\ Goto(w, IF Cardinality(part) = ScanLimit THEN "getMany" ELSE "scanMore")
  BY DEF Scan
<1>3. here' = [here EXCEPT ![w] = Present] /\ ever' = [ever EXCEPT ![w] = Present]
  BY DEF Scan
<1>4. /\ op' = op /\ outcome' = outcome
      /\ pc'[w] = IF Cardinality(part) = ScanLimit THEN "getMany" ELSE "scanMore"
      /\ \A v \in Workers \ {w} : pc'[v] = pc[v]
  BY <1>2, GotoMoves DEF RunInv
<1>5. /\ ListAside(w) /\ ListCalls'
      /\ here'[w] = Present /\ ever'[w] = Present /\ found'[w] = part
  BY <1>1, <1>2, <1>3, <1>4 DEF ListAside, ListInv, ListCalls, IsCall
<1>6. Present' = Present
  BY <1>1 DEF Present, Row
<1>7. Scanning(w)'
  <2>1. Seen(w)'
    BY <1>2, <1>5, <1>6, PresentKeys DEF Seen
  <2>2. pc'[w] = "getMany" /\ Few(w)' => Keys(here'[w]) \subseteq found'[w]
    BY <1>2, <1>4, <1>5, FewBefore, PresentKeys DEF Few
  <2> QED
    BY <2>1, <2>2 DEF Scanning
<1>8. ~Holding(w)' /\ (ToWrite(w)' => ToWrite(w))
  BY <1>1, <1>4 DEF Holding, ToWrite, ListSteps
<1>9. Lister(w)'
  BY <1>1, <1>4 DEF Lister, ListSteps, ListInv
<1>10. outcome[w] = "pending"
  BY <1>1 DEF RunInv, Settled
<1>11. RightPage(w)'
  BY <1>4, <1>10 DEF RightPage, Listed
<1> QED
  BY <1>1, <1>5, <1>7, <1>8, <1>9, <1>11, AsideKeepsLists

LEMMA ScanMoreKeepsLists ==
    ASSUME RunInv, ListInv, NEW w \in Workers, ScanMore(w), UNCHANGED <<runVars, asstVars, held>>
    PROVE  ListInv'
<1>1. /\ pc[w] = "scanMore"
      /\ UNCHANGED <<message, second, order, page, more, here, ever, verb>>
  BY DEF ScanMore, At, recordVars, held
<1>2. PICK part \in SUBSET Keys(Present) :
        /\ \/ Keys(here[w]) \subseteq found[w] \cup part
           \/ Cardinality(found[w] \cup part) = ScanLimit
        /\ found' = [found EXCEPT ![w] = found[w] \cup part]
  BY DEF ScanMore
<1>4. /\ op' = op /\ outcome' = outcome /\ pc'[w] = "getMany"
      /\ \A v \in Workers \ {w} : pc'[v] = pc[v]
  BY GotoMoves DEF ScanMore, RunInv
<1>5. ListAside(w) /\ ListCalls' /\ found'[w] = found[w] \cup part
  BY <1>1, <1>2, <1>4 DEF ListAside, ListInv, ListCalls, IsCall
<1>6. Present' = Present
  BY <1>1 DEF Present, Row
<1>7. Scanning(w)'
  <2>1. Seen(w)
    BY <1>1 DEF ListInv, Scanning
  <2>2. /\ found'[w] \subseteq Keys(ever[w]) /\ Keys(ever[w]) \subseteq Ids
        /\ Keys(here[w]) \subseteq Keys(ever[w])
    BY <1>2, <1>5, <2>1 DEF Seen, Keys
  <2>3. Seen(w)'
    BY <1>1, <1>6, <2>1, <2>2 DEF Seen
  <2>4. Few(w)' => Keys(here[w]) \subseteq found'[w]
    BY <1>1, <1>2, <1>5, <2>2, FewBefore DEF Few
  <2> QED
    BY <1>1, <2>3, <2>4 DEF Scanning
<1>8. ~Holding(w)' /\ (ToWrite(w)' => ToWrite(w))
  BY <1>1, <1>4 DEF Holding, ToWrite, ListSteps
<1>9. Lister(w)'
  BY <1>1, <1>4 DEF Lister, ListSteps, ListInv
<1>10. outcome[w] = "pending"
  BY <1>1 DEF RunInv, Settled
<1>11. RightPage(w)'
  BY <1>4, <1>10 DEF RightPage, Listed
<1> QED
  BY <1>1, <1>5, <1>7, <1>8, <1>9, <1>11, AsideKeepsLists

\* The page is cut: what was there all along was found, so it is in the page or
\* was cut off, with more to come and nothing of the page after it.
LEMMA GetManyKeepsLists ==
    ASSUME RunInv, ListInv, NEW w \in Workers, GetMany(w), UNCHANGED <<runVars, asstVars, held>>
    PROVE  ListInv'
<1> DEFINE rows == {r \in Present : r.id \in found[w]}
           cut  == Cardinality(rows) > Limit
<1>1. /\ pc[w] = "getMany"
      /\ UNCHANGED <<message, second, order, here, ever, verb>>
  BY DEF GetMany, At, recordVars, held
<1>2. PICK p \in Pages(rows, order[w]) :
         page' = [page EXCEPT ![w] = p] /\ more' = [more EXCEPT ![w] = cut]
  BY DEF GetMany
<1>3. found' = [found EXCEPT ![w] = {}]
  BY DEF GetMany
<1>4. /\ op' = op /\ pc'[w] \in {"done", "sdk"}
      /\ op[w] \in Lists => pc'[w] = "done"
      /\ op[w] \notin Lists => pc'[w] = "sdk"
      /\ \A v \in Workers \ {w} : pc'[v] = pc[v] /\ outcome'[v] = outcome[v]
  BY GotoMoves, AnswerMoves DEF GetMany, RunInv
<1>5. ListAside(w) /\ ListCalls' /\ page'[w] = p /\ more'[w] = cut
  BY <1>1, <1>2, <1>3, <1>4, Zenon DEF ListAside, ListInv, ListCalls, IsCall
<1>6. (Few(w) => here[w] \subseteq rows) /\ rows \subseteq ever[w]
  BY <1>1 DEF ListInv, Scanning, Seen, Keys
<1>7. p \subseteq rows
  BY DEF Pages
<1>8. \A r \in rows \ p : cut /\ \A s \in p : ~Precedes(r, s, order[w])
  BY DEF Pages
<1>9. RightPage(w)'
  BY <1>1, <1>5, <1>6, <1>7, <1>8 DEF RightPage, Precedes, Few
<1>10. ~Holding(w)' /\ (ToWrite(w)' => ToWrite(w)) /\ Scanning(w)'
  BY <1>1, <1>4 DEF Holding, ToWrite, ListSteps, Scanning
<1>11. Lister(w)'
  BY <1>1, <1>4 DEF Lister, ListSteps, ListInv
<1> QED
  BY <1>1, <1>5, <1>9, <1>10, <1>11, AsideKeepsLists

\* A message expires, or the clock ticks.
LEMMA EnvironmentKeepsLists ==
    ASSUME RunInv, ListInv, Expire \/ Tick, UNCHANGED <<runVars, asstVars, held>>
    PROVE  ListInv'
<1> USE DEF ListInv
<1>1. UNCHANGED <<op, pc, outcome, verb, order, found, page, more, ever>>
  BY DEF Expire, Tick, callVars, listVars, held
<1>2. CASE UNCHANGED <<message, here>>
  <2>1. second' \in Nat
    BY DEF Expire, Tick
  <2>2. Present' = Present
    BY <1>2 DEF Present, Row
  <2> QED
    BY <1>1, <1>2, <2>1, <2>2 DEF ListCalls, HeldIsOld, Holding, Unused, ToWrite, Scanning, Seen,
                                  Few, Lister, RightPage, Listed, Precedes
<1>3. ASSUME NEW k \in Ids, message' = [message EXCEPT ![k] = None],
             here' = [w \in Workers |-> {r \in here[w] : r.id # k}], second' = second
      PROVE  ListInv'
  <2>1. message' \in [Ids -> Nat \cup {None}] /\ second' \in Nat /\ ListCalls'
    BY <1>1, <1>3 DEF ListCalls, IsCall
  <2>2. \A v \in Workers : HeldIsOld(v)' /\ Unused(v)'
    BY <1>1, <1>3 DEF HeldIsOld, Holding, Unused, ToWrite
  <2>3. Present' \subseteq Present /\ \A r \in Present : r.id # k => r \in Present'
    BY <1>3, PresentIs DEF Present, Row
  <2>4. \A v \in Workers : here'[v] \subseteq here[v] /\ \A r \in here'[v] : r.id # k
    BY <1>3
  <2>5. \A v \in Workers : Scanning(v)'
    BY <1>1, <2>3, <2>4 DEF Scanning, Seen, Few, Keys
  <2>6. \A v \in Workers : Lister(v)'
    BY <1>1, <2>4 DEF Lister
  <2>7. \A v \in Workers : RightPage(v)'
    BY <1>1, <2>4 DEF RightPage, Listed, Precedes, Few
  <2> QED
    BY <2>1, <2>2, <2>5, <2>6, <2>7
<1> QED
  BY <1>2, <1>3 DEF Expire, Tick, listVars

\* Where get_assistant leads, of a run or of a call on the assistant.
LEMMA GotLists ==
    ASSUME RunInv, NEW w \in Workers, pc[w] \in {"getAssistant", "getRow", "refill"},
           Got(w) \/ NotGot(w)
    PROVE  /\ op' = op
           /\ \A v \in Workers \ {w} :
                 pc'[v] = pc[v] /\ outcome'[v] = outcome[v] /\ verb'[v] = verb[v]
           /\ ToWrite(w)' => ToWrite(w)
           /\ pc'[w] \in {"done", "readRun", "deleteRow", "updateRow", "scan", "sdk"}
           /\ pc'[w] = "sdk" => op[w] = "streamRun"
           /\ pc'[w] = "scan" => op[w] # "streamRun"
<1>1. op[w] = "getAssistant" \/ op[w] \in DOMAIN AfterAssistant
  BY DEF RunInv, Begun, BegunBy
<1>2. CASE Got(w)
  <2>1. /\ op' = op /\ verb' = verb
        /\ \A v \in Workers \ {w} : pc'[v] = pc[v] /\ outcome'[v] = outcome[v]
        /\ \/ op[w] = "getAssistant" /\ pc'[w] = "done"
           \/ op[w] \in DOMAIN AfterAssistant /\ pc'[w] = AfterAssistant[op[w]]
    BY <1>1, <1>2, GotoMoves, AnswerMoves DEF Got, RunInv
  <2>2. \/ pc'[w] = "done"
        \/ op[w] \in {"executeRun", "submitOutputs"} /\ pc'[w] = "scan"
        \/ op[w] = "streamRun" /\ pc'[w] = "sdk"
        \/ op[w] = "updateAssistant" /\ pc'[w] = "updateRow"
        \/ op[w] = "deleteAssistant" /\ pc'[w] = "deleteRow"
    BY <2>1 DEF AfterAssistant
  <2>3. ToWrite(w)' => ToWrite(w)
    BY <2>1, <2>2 DEF ToWrite, Executes, ListSteps
  <2> QED
    BY <2>1, <2>2, <2>3
<1>3. CASE NotGot(w)
  <2>1. \/ Goto(w, "deleteRow") /\ verb' = verb
        \/ Call(w, "fail")
        \/ Answer(w, "notFound") /\ verb' = verb
    BY <1>3 DEF NotGot, Missing
  <2>2. /\ op' = op
        /\ \A v \in Workers \ {w} :
              pc'[v] = pc[v] /\ outcome'[v] = outcome[v] /\ verb'[v] = verb[v]
        /\ pc'[w] \in {"deleteRow", "done"} \/ (pc'[w] = "readRun" /\ verb'[w] = "fail")
    BY <2>1, GotoMoves, AnswerMoves, CallMoves DEF RunInv
  <2> QED
    BY <2>2 DEF ToWrite, ListSteps
<1> QED
  BY <1>2, <1>3

\* The steps of a call on a thread, and the beginning of any.
LEMMA ThreadStepKeepsLists ==
    ASSUME RunInv, ListInv, NEW w \in Workers, UNCHANGED <<runVars, asstVars, held>>,
           \/ ConvBegin(w) \/ CreateSession(w) \/ CacheThread(w) \/ GetThread(w)
           \/ DeleteSession(w) \/ DropThread(w)
    PROVE  ListInv'
<1> USE DEF ListInv
<1>1. UNCHANGED <<message, second, listVars, verb>>
  BY DEF ConvBegin, CreateSession, CacheThread, GetThread, DeleteSession, DropThread, recordVars,
         held
<1>2. SUFFICES ASSUME TRUE
      PROVE  /\ op' = op /\ outcome[w] = "pending" /\ pc[w] # "sdk"
             /\ \A v \in Workers \ {w} : pc'[v] = pc[v] /\ outcome'[v] = outcome[v]
             /\ ToWrite(w)' => ToWrite(w)
             /\ pc'[w] \notin {"cacheMessage", "scanMore", "getMany", "sdk"}
             /\ op[w] \in Lists => pc'[w] = "scan" /\ outcome'[w] = outcome[w]
             /\ pc'[w] = "addMessage" => op[w] \in {"createThread", "createMessage"}
             /\ pc'[w] = "cacheThread" => op[w] \in {"createThread", "modifyThread"}
             /\ pc'[w] = "session" => op[w] = "createThread"
             /\ pc'[w] = "scan" => op[w] # "streamRun"
  BY <1>1, ElsewhereKeepsLists
<1>3. outcome[w] = "pending"
  BY DEF RunInv, Settled, ConvBegin, CreateSession, CacheThread, GetThread, DeleteSession,
         DropThread, At
<1>4. CASE ConvBegin(w)
  <2>1. op[w] \in ConvOps /\ pc[w] = "start" /\ Goto(w, ConvFirst[op[w]])
    BY <1>4 DEF ConvBegin, At
  <2>2. /\ op' = op /\ outcome' = outcome /\ pc'[w] = ConvFirst[op[w]]
        /\ \A v \in Workers \ {w} : pc'[v] = pc[v]
    BY <2>1, GotoMoves DEF RunInv
  <2>3. op[w] \notin Executes /\ op[w] # "streamRun"
    BY <2>1 DEF ConvOps, ConvFirst, Executes
  <2>4. /\ ConvFirst[op[w]] \notin {"cacheMessage", "scanMore", "getMany", "cacheThread", "sdk"}
        /\ op[w] \in Lists => ConvFirst[op[w]] = "scan"
        /\ ConvFirst[op[w]] = "addMessage" => op[w] = "createMessage"
        /\ ConvFirst[op[w]] = "session" => op[w] = "createThread"
    BY <2>1 DEF ConvOps, ConvFirst, Lists
  <2>5. ToWrite(w)' => ToWrite(w)
    BY <2>1, <2>2, <2>3 DEF ToWrite
  <2> QED
    BY <1>3, <2>1, <2>2, <2>3, <2>4, <2>5
<1>5. CASE CreateSession(w)
  <2>1. pc[w] = "session" /\ op[w] = "createThread" /\ Goto(w, "cacheThread")
    BY <1>5 DEF CreateSession, At, Lister
  <2>2. /\ op' = op /\ outcome' = outcome /\ pc'[w] = "cacheThread"
        /\ \A v \in Workers \ {w} : pc'[v] = pc[v]
    BY <2>1, GotoMoves DEF RunInv
  <2> QED
    BY <1>3, <2>1, <2>2 DEF ToWrite, Lists
<1>6. CASE CacheThread(w)
  <2>1. /\ pc[w] = "cacheThread" /\ op[w] \in {"createThread", "modifyThread"}
        /\ op' = op /\ pc'[w] \in {"addMessage", "done"}
        /\ pc'[w] = "addMessage" => op[w] = "createThread"
        /\ \A v \in Workers \ {w} : pc'[v] = pc[v] /\ outcome'[v] = outcome[v]
    BY <1>6, GotoMoves, AnswerMoves DEF CacheThread, At, Lister, RunInv
  <2> QED
    BY <1>3, <2>1 DEF ToWrite, Lists, Executes, ListSteps
<1>7. CASE GetThread(w)
  <2>1. pc[w] = "getThread" /\ op[w] \in DOMAIN AfterGet /\ op[w] \notin Lists
    BY <1>7 DEF GetThread, At, RunInv, Begun, BegunBy, AfterGet, Lists
  <2>2. /\ op' = op
        /\ \A v \in Workers \ {w} : pc'[v] = pc[v] /\ outcome'[v] = outcome[v]
        /\ \/ pc'[w] = "done"
           \/ pc'[w] = AfterGet[op[w]] /\ AfterGet[op[w]] # "answer"
    BY <1>7, GotoMoves, AnswerMoves DEF GetThread, RunInv
  <2>3. /\ pc'[w] \in {"done", "cacheThread", "dropSession"}
        /\ pc'[w] = "cacheThread" => op[w] = "modifyThread"
    BY <2>1, <2>2 DEF AfterGet
  <2> QED
    BY <1>3, <2>1, <2>2, <2>3 DEF ToWrite, Executes, ListSteps, AfterGet
<1>8. CASE DeleteSession(w) \/ DropThread(w)
  <2>1. /\ pc[w] \in {"dropSession", "dropThread"}
        /\ op' = op /\ pc'[w] \in {"dropThread", "done"}
        /\ \A v \in Workers \ {w} : pc'[v] = pc[v] /\ outcome'[v] = outcome[v]
    BY <1>8, GotoMoves, AnswerMoves DEF DeleteSession, DropThread, At, RunInv
  <2>2. op[w] \notin Lists
    BY <2>1 DEF Lister, ListSteps
  <2> QED
    BY <1>3, <2>1, <2>2 DEF ToWrite, ListSteps
<1> QED
  BY <1>4, <1>5, <1>6, <1>7, <1>8

\* A call that breaks off has shown nothing.
LEMMA FailureKeepsLists ==
    ASSUME RunInv, ListInv, NEW w \in Workers, Answer(w, "failed"), pc[w] # "done",
           \A v \in Workers \ {w} : verb'[v] = verb[v],
           UNCHANGED <<message, second, listVars>>
    PROVE  ListInv'
<1>1. /\ op' = op /\ pc'[w] = "done" /\ outcome'[w] = "failed"
      /\ \A v \in Workers \ {w} : pc'[v] = pc[v] /\ outcome'[v] = outcome[v]
  BY AnswerMoves DEF RunInv
<1>2. ~ToWrite(w)'
  BY <1>1 DEF ToWrite, ListSteps
<1> QED
  BY <1>1, <1>2, ElsewhereKeepsLists

\* The steps of a run that neither list nor write messages.
LEMMA RunStepKeepsLists ==
    ASSUME RunInv, ListInv, NEW w \in Workers, RunStep(w), ~AddAnswer(w)
    PROVE  ListInv'
<1> USE DEF ListInv
<1>1. UNCHANGED <<message, second, listVars>>
  BY DEF RunStep, RunBegin, CreateRun, ReadRun, WriteRun, Sdk, StreamSdk, InsertRow,
         GetAssistant, GetRow, StoreCopy, UpdateRow, DeleteRow, DropAssistant, recordVars
<1>2. SUFFICES ASSUME TRUE
      PROVE  /\ op' = op /\ op[w] \notin Lists
             /\ \A v \in Workers \ {w} :
                   pc'[v] = pc[v] /\ outcome'[v] = outcome[v] /\ verb'[v] = verb[v]
             /\ ToWrite(w)' => ToWrite(w)
             /\ pc'[w] \notin {"cacheMessage", "scanMore", "getMany", "addMessage", "cacheThread",
                               "session"}
             /\ pc'[w] = "sdk" => op[w] = "streamRun" \/ pc[w] = "sdk"
             /\ pc'[w] = "scan" => op[w] # "streamRun"
  BY <1>1, ElsewhereKeepsLists
<1>3. op[w] \notin Lists
  BY DEF Lister, Lists, ListSteps, RunStep, RunBegin, RunFirst, CreateRun, ReadRun, WriteRun, Sdk,
         StreamSdk, InsertRow, GetAssistant, GetRow, StoreCopy, UpdateRow, DeleteRow,
         DropAssistant, At
<1>4. CASE RunBegin(w)
  <2>1. op[w] \in DOMAIN RunFirst /\ pc[w] = "start" /\ Goto(w, RunFirst[op[w]])
    BY <1>4 DEF RunBegin, At
  <2>2. /\ op' = op /\ outcome' = outcome /\ pc'[w] = RunFirst[op[w]]
        /\ \A v \in Workers \ {w} : pc'[v] = pc[v] /\ verb'[v] = verb[v]
    BY <1>4, <2>1, GotoMoves DEF RunBegin, RunInv, Calls, IsCall
  <2>3. op[w] \notin {"createThread", "createMessage"}
        /\ RunFirst[op[w]] \in {"createRun", "readRun", "insertRow", "getAssistant"}
    BY <2>1 DEF RunFirst
  <2>4. ToWrite(w)' => ToWrite(w)
    BY <2>1, <2>2, <2>3 DEF ToWrite
  <2> QED
    BY <1>3, <2>2, <2>3, <2>4
<1>5. CASE CreateRun(w)
  BY <1>3, <1>5, AnswerMoves DEF CreateRun, RunInv, ToWrite, ListSteps, held
<1>6. CASE ReadRun(w) \/ WriteRun(w)
  <2>1. /\ pc[w] \in {"readRun", "writeRun"} /\ verb' = verb
        /\ \/ \E result : Answer(w, result)
           \/ Goto(w, "writeRun") /\ pc[w] = "readRun"
           \/ Goto(w, "getAssistant") /\ verb[w] \in {"start", "submit"}
    BY <1>6 DEF ReadRun, WriteRun, AfterVerb, At, held
  <2>2. /\ op' = op
        /\ \A v \in Workers \ {w} : pc'[v] = pc[v] /\ outcome'[v] = outcome[v]
        /\ \/ pc'[w] = "done"
           \/ pc'[w] = "writeRun" /\ pc[w] = "readRun"
           \/ pc'[w] = "getAssistant" /\ verb[w] \in {"start", "submit"}
    BY <2>1, GotoMoves, AnswerMoves DEF RunInv
  <2>3. ToWrite(w)' => ToWrite(w)
    BY <2>1, <2>2 DEF ToWrite, ListSteps
  <2> QED
    BY <1>3, <2>1, <2>2, <2>3
<1>7. CASE Sdk(w) \/ StreamSdk(w)
  <2>1. /\ pc[w] = "sdk" /\ op' = op
        /\ \A v \in Workers \ {w} :
              pc'[v] = pc[v] /\ outcome'[v] = outcome[v] /\ verb'[v] = verb[v]
        /\ \/ pc'[w] \in {"done", "addAnswer"}
           \/ pc'[w] = "readRun" /\ verb'[w] \in {"require", "complete", "fail"}
    BY <1>7, GotoMoves, AnswerMoves, CallMoves DEF Sdk, StreamSdk, At, RunInv
  <2>2. op[w] \in Executes
    BY <2>1 DEF RunInv, Begun, BegunBy
  <2> QED
    BY <1>3, <2>1, <2>2 DEF ToWrite, ListSteps, Executes
<1>8. CASE InsertRow(w) \/ UpdateRow(w) \/ DeleteRow(w) \/ DropAssistant(w)
  BY <1>3, <1>8, GotoMoves, AnswerMoves
  DEF InsertRow, UpdateRow, DeleteRow, DropAssistant, RunInv, ToWrite, ListSteps, held
<1>9. ASSUME pc[w] \in {"getAssistant", "getRow", "refill"}, Got(w) \/ NotGot(w)
      PROVE  /\ op' = op
             /\ \A v \in Workers \ {w} :
                   pc'[v] = pc[v] /\ outcome'[v] = outcome[v] /\ verb'[v] = verb[v]
             /\ ToWrite(w)' => ToWrite(w)
             /\ pc'[w] \in {"done", "readRun", "deleteRow", "updateRow", "scan", "sdk"}
             /\ pc'[w] = "sdk" => op[w] = "streamRun"
             /\ pc'[w] = "scan" => op[w] # "streamRun"
  BY <1>9, GotLists
<1>10. CASE GetAssistant(w) \/ GetRow(w)
  <2>1. pc[w] \in {"getAssistant", "getRow"}
        /\ \/ Got(w) \/ NotGot(w)
           \/ Goto(w, "getRow") /\ verb' = verb
           \/ Goto(w, "refill") /\ verb' = verb
    BY <1>10 DEF GetAssistant, GetRow, At
  <2>2. CASE Got(w) \/ NotGot(w)
    BY <1>3, <1>9, <2>1, <2>2
  <2>3. CASE (Goto(w, "getRow") \/ Goto(w, "refill")) /\ verb' = verb
    <3>1. /\ op' = op /\ outcome' = outcome /\ pc'[w] \in {"getRow", "refill"}
          /\ \A v \in Workers \ {w} : pc'[v] = pc[v]
      BY <2>3, GotoMoves DEF RunInv
    <3> QED
      BY <1>3, <2>1, <2>3, <3>1 DEF ToWrite
  <2> QED
    BY <2>1, <2>2, <2>3
<1>11. CASE StoreCopy(w)
  <2>1. CASE pc[w] = "refill"
    BY <1>3, <1>9, <1>11, <2>1 DEF StoreCopy, At
  <2>2. CASE pc[w] # "refill"
    <3>1. op' = op /\ pc'[w] = "done" /\ verb' = verb
          /\ \A v \in Workers \ {w} : pc'[v] = pc[v] /\ outcome'[v] = outcome[v]
      BY <1>11, <2>2, AnswerMoves DEF StoreCopy, At, RunInv
    <3> QED
      BY <1>3, <3>1 DEF ToWrite, ListSteps
  <2> QED
    BY <2>1, <2>2
<1> QED
  BY <1>4, <1>5, <1>6, <1>7, <1>8, <1>10, <1>11 DEF RunStep

\* Redis raises, or the instance dies.
LEMMA FaultKeepsLists ==
    ASSUME RunInv, ListInv, NEW w \in Workers, RedisRaises(w) \/ Dies(w)
    PROVE  ListInv'
<1>1. /\ UNCHANGED <<message, second, listVars>> /\ op[w] \in DOMAIN RunFirst
      /\ pc[w] \notin {"start", "done"}
  BY DEF RedisRaises, Dies, recordVars
<1>2. op[w] \notin Lists
  BY <1>1 DEF RunFirst, Lists
<1>3. /\ op' = op
      /\ \A v \in Workers \ {w} :
            pc'[v] = pc[v] /\ outcome'[v] = outcome[v] /\ verb'[v] = verb[v]
      /\ ToWrite(w)' => ToWrite(w)
      /\ pc'[w] \in {"done", "readRun", "deleteRow", "updateRow", "scan", "sdk"}
      /\ pc'[w] = "sdk" => op[w] = "streamRun"
      /\ pc'[w] = "scan" => op[w] # "streamRun"
  <2>1. CASE pc[w] = "refill" /\ NotGot(w)
    BY <2>1, GotLists
  <2>2. CASE Call(w, "fail")
    BY <2>2, CallMoves DEF RunInv, ToWrite, ListSteps
  <2>3. CASE (\E result : Answer(w, result)) /\ verb' = [verb EXCEPT ![w] = "none"]
    BY <2>3, AnswerMoves DEF RunInv, Calls, IsCall, ToWrite, ListSteps
  <2> QED
    BY <2>1, <2>2, <2>3 DEF RedisRaises, Dies
<1> QED
  BY <1>1, <1>2, <1>3, ElsewhereKeepsLists

\* A step that changes nothing lists speak of.
LEMMA StillKeepsLists ==
    ASSUME ListInv, UNCHANGED <<recordVars, listVars, callVars, verb>>
    PROVE  ListInv'
<1>1. Present' = Present
  BY DEF Present, Row, recordVars
<1> QED
  BY <1>1 DEF ListInv, ListCalls, IsCall, HeldIsOld, Holding, Unused, ToWrite, Scanning, Seen, Few,
              Lister, RightPage, Listed, Precedes, recordVars, listVars, callVars

LEMMA InitListInv == Init => ListInv
<1> SUFFICES ASSUME Init PROVE ListInv
  OBVIOUS
<1>1. PICK start \in Starts : ConvInit(start)
  BY DEF Init
<1>2. /\ pc = [w \in Workers |-> "start"] /\ outcome = [w \in Workers |-> "pending"]
      /\ order = [w \in Workers |-> "asc"] /\ found = [w \in Workers |-> {}]
      /\ page = [w \in Workers |-> {}] /\ more = [w \in Workers |-> FALSE]
      /\ here = [w \in Workers |-> {}] /\ ever = [w \in Workers |-> {}]
  BY <1>1 DEF ConvInit
<1>3. ListCalls
  BY <1>2 DEF ListCalls, IsCall
<1>4. second \in Nat /\ message \in [Ids -> Nat \cup {None}]
      /\ {k \in Ids : message[k] # None} = start.messages
  BY <1>1, ConversationAssumption DEF ConvInit
<1>5. \A w \in Workers : message[w] = None
  BY <1>4, ConversationAssumption DEF Ids
<1>6. \A w \in Workers :
         HeldIsOld(w) /\ Unused(w) /\ Scanning(w) /\ Lister(w) /\ RightPage(w)
  BY <1>2, <1>5 DEF HeldIsOld, Holding, Unused, Scanning, Lister, RightPage, Listed, ListSteps
<1> QED
  BY <1>3, <1>4, <1>6 DEF ListInv

\* However many calls add, change or lose messages while it scans, a list shows
\* nothing that was not there, and of no more messages than a scan finds it leaves
\* out only what it says is still to come (message_service.py 196-261).
THEOREM ListsAreRight == Spec => []PageIsRight
<1>1. RunInv /\ ListInv /\ [Next]_vars => RunInv' /\ ListInv'
  <2> SUFFICES ASSUME RunInv, ListInv, [Next]_vars PROVE RunInv' /\ ListInv'
    OBVIOUS
  <2>1. RunInv'
    BY NextKeepsRunInv
  <2>2. CASE (Expire \/ Tick) /\ UNCHANGED <<runVars, asstVars, held>>
    BY <2>1, <2>2, EnvironmentKeepsLists
  <2>3. ASSUME NEW w \in Workers, ConvStep(w), UNCHANGED <<runVars, asstVars, held>>
        PROVE  ListInv'
    BY <2>3, ThreadStepKeepsLists, OwnMessageKeepsLists, GetMessageKeepsLists,
       ModifyMessageKeepsLists, ScanKeepsLists, ScanMoreKeepsLists, GetManyKeepsLists DEF ConvStep
  <2>4. ASSUME NEW w \in Workers, ConvBreaks(w), UNCHANGED <<runVars, asstVars, held>>
        PROVE  ListInv'
    BY <2>4, FailureKeepsLists DEF ConvBreaks, recordVars, held
  <2>5. CASE RunExpires
    <3>1. UNCHANGED <<convVars, held>>
      BY <2>5 DEF RunExpires
    <3> QED
      BY <2>1, <3>1, StillKeepsLists DEF convVars, held
  <2>6. ASSUME NEW w \in Workers, RunStep(w) \/ RedisRaises(w) \/ Dies(w) PROVE ListInv'
    BY <2>6, RunStepKeepsLists, OwnMessageKeepsLists, FaultKeepsLists
  <2>7. CASE UNCHANGED vars
    BY <2>1, <2>7, StillKeepsLists DEF vars, convVars, held
  <2> QED
    BY <2>1, <2>2, <2>3, <2>4, <2>5, <2>6, <2>7 DEF Next, Conv, ConvEnv
<1>2. ListInv => PageIsRight
  BY DEF ListInv, RightPage, PageIsRight
<1> QED
  BY <1>1, <1>2, InitRunInv, InitListInv, PTL DEF Spec
=============================================================================
