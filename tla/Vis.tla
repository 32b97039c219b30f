---------------------------------- MODULE Vis ----------------------------------
(***************************************************************************)
(* vis/: the viewer of execution logs.  The simulation of Overload writes  *)
(* a line of class EXEC for every activation, cancellation and step;       *)
(* LogFileReader makes a trace for each task of them, DisplayWidget paints *)
(* it.  A line is read in the step that writes it: the reader looks at the *)
(* lines in this order only, and at one of them at a time.                 *)
(***************************************************************************)
EXTENDS Overload

VARIABLES
  traces,   \* LogFileReader::traces: for each task, its JobInfoList
  lastExec, \* lastExecTask and lastExecJob: a task and a position in its trace
  tMax,     \* the time of the last line
  executed  \* history: the steps in which a job of a task was really executed, and
            \* the task's state then

viewer == <<traces, lastExec, tMax>>

NoExec == <<0, 0>>

VisInit ==
  /\ traces = [t \in Tasks |-> << >>]
  /\ lastExec = NoExec /\ tMax = 0
  /\ executed = {}

JobInfo(time, id, event, exec, state) ==
  [time |-> time, jobId |-> id, events |-> {event}, exec |-> exec, state |-> state]

\* RE_JOB asks for a state in braces; of all tasks, only MkTask's strState prints one.
Decodable(j) == taskset[j[1]].k > 0

\* MkTask::strState, which a line carries after the job, without the utilities
StrState(t) ==
  LET ts == taskset[t]
  IN  [mkstream |-> GetState(monitor[t], ts.k), sum |-> GetCurrentSum(monitor[t], ts.k),
       distance |-> GetDistance(monitor[t], ts.m, ts.k)]

Record(tr, t, info) == [tr EXCEPT ![t] = Append(@, info)]
-----------------------------------------------------------------------------
(* LogFileReader                                                           *)

RecordActivation(j) ==
  /\ traces' = IF Decodable(j)
               THEN Record(traces, j[1], JobInfo(now, j[2], "activate", "ready", StrState(j[1])))
               ELSE traces
  /\ tMax' = now /\ UNCHANGED <<lastExec, executed>>

\* Into the last entry if it is of the same time: "job was just activated".
Cancelled(j) ==
  LET last == Last(traces[j[1]])
  IN  IF last.time = now
      THEN [traces EXCEPT ![j[1]][Len(traces[j[1]])] =
              [last EXCEPT !.events = @ \cup {"cancel"},
                           !.exec = IF last.jobId = j[2] THEN "none" ELSE @]]
      ELSE Record(traces, j[1], JobInfo(now, j[2], "cancel", "none", StrState(j[1])))

RecordCancellation(j) ==
  /\ traces' = IF Decodable(j) THEN Cancelled(j) ELSE traces
  /\ tMax' = now /\ UNCHANGED <<lastExec, executed>>

RecordIdle ==
  /\ lastExec' = NoExec /\ tMax' = now
  /\ UNCHANGED <<traces, executed>>

LastInfo == traces[lastExec[1]][lastExec[2]]

\* Mutant: the task is compared only.
SameTaskExecuting(j) == lastExec # NoExec /\ lastExec[1] = j[1]

\* Compared by task and number: one job of a task may follow another at once.
StillExecuting(j) ==
  lastExec # NoExec /\ lastExec[1] = j[1] /\ LastInfo.jobId = j[2]

\* A context switch to task t preempts the job that was executed before, unless it
\* finished.
Preempted(t) ==
  IF lastExec # NoExec /\ "finish" \notin LastInfo.events
  THEN LET last == Last(traces[lastExec[1]])
       IN  Record(traces, lastExec[1],
                  JobInfo(now, last.jobId, "preempt", "ready", last.state))
  ELSE traces

\* The job starts if the last entry of its task is an activation, in this entry if it
\* is of the same time; otherwise it resumes.
Begun(tr, j) ==
  LET prev == Last(tr[j[1]])
  IN  CASE "activate" \in prev.events /\ prev.time = now ->
             [tr EXCEPT ![j[1]][Len(tr[j[1]])] =
                [prev EXCEPT !.events = @ \cup {"start"}, !.exec = "execute"]]
        [] "activate" \in prev.events /\ prev.time # now ->
             Record(tr, j[1], JobInfo(now, j[2], "start", "execute", StrState(j[1])))
        [] OTHER ->
             Record(tr, j[1], JobInfo(now, j[2], "resume", "execute", StrState(j[1])))

\* A line that ends with "(F)" finishes the job; one that ends with "(F,M)", for a job
\* that is late, matches neither RE_EXEC_FINISHED nor RE_JOB.
RecordExecution(j, finished) ==
  LET late  == finished /\ job[j].dl <= now
      begun == IF StillExecuting(j) THEN traces ELSE Begun(Preempted(j[1]), j)
  IN  /\ IF ~ Decodable(j) \/ late
         THEN UNCHANGED <<traces, lastExec>>
         ELSE /\ traces' = IF finished
                           THEN Record(begun, j[1], JobInfo(now + 1, j[2], "finish", "none",
                                                   StrState(j[1])))
                           ELSE begun
              /\ lastExec' = <<j[1], Len(traces'[j[1]])>>
      /\ tMax' = now
      /\ executed' = executed \cup {[task |-> j[1], at |-> now,
                                     state |-> IF Decodable(j) THEN StrState(j[1]) ELSE << >>]}
-----------------------------------------------------------------------------
\* The line that a step of the simulation writes, if any
Advances(j) == j \in DOMAIN job' => job'[j].rem # job[j].rem

ReadLine ==
  CASE pc = "activate" /\ DOMAIN job' # DOMAIN job -> RecordActivation(NextJobId(index))
    [] pc \in {"cancelInit", "cancelSchedule"} /\ cancelled # << >> ->
         RecordCancellation(Head(cancelled))
    [] pc = "dispatch" /\ idleSteps' # idleSteps -> RecordIdle
    [] pc = "dispatch" /\ idleSteps' = idleSteps ->
         \E j \in DOMAIN job : Advances(j) /\ RecordExecution(j, j \notin DOMAIN job')
    [] OTHER -> UNCHANGED <<viewer, executed>>

VisStep == OverloadStep /\ ReadLine

\* What a caller does writes no line.
VisIdle ==
  /\ OverloadCall \/ (Finished /\ UNCHANGED owned) \/ CallerStops
  /\ UNCHANGED <<viewer, executed>>
-----------------------------------------------------------------------------
(* DisplayWidget                                                           *)

\* An entry's state holds until the next entry, the last one's until tMax.
Until(t, i) == IF i = Len(traces[t]) THEN tMax ELSE traces[t][i + 1].time

\* paintSchedule starts at the left margin, whatever the time of the first entry.
Left(t, i) == traces[t][i].time - traces[t][1].time

\* The steps that are painted green
Painted(t) ==
  UNION {Left(t, i) .. Left(t, i) + Until(t, i) - traces[t][i].time - 1 :
           i \in {h \in DOMAIN traces[t] : traces[t][h].exec = "execute"}}
-----------------------------------------------------------------------------
\* Logs the reader is made for: every task prints a state, and every job that is late
\* is cancelled.
Readable == /\ config.execCancellations /\ config.dlMissCancellations
            /\ \A t \in Tasks : taskset[t].k > 0

Count(t, event) == Cardinality({i \in DOMAIN traces[t] : event \in traces[t][i].events})

\* What the viewer paints is what was executed, although the log only says which job has
\* executed and the reader has to find out where it started, was preempted, resumed or
\* given up: painted from the first activation of the task, up to the last line.  Every
\* activation, completion and cancellation appears, and a job resumes only after it was
\* preempted or its task's last job ended, as the reader asserts.
ChartShowsExecution ==
  Readable =>
    \A t \in Tasks :
      /\ \A at \in 0 .. tMax - 1 :
           (\E e \in executed : e.task = t /\ e.at = at) <=>
             traces[t] # << >> /\ at - traces[t][1].time \in Painted(t)
      /\ Count(t, "activate") = task[t].activations
      /\ Count(t, "finish") = task[t].completions
      /\ \A i \in DOMAIN traces[t] : "resume" \in traces[t][i].events =>
           i > 1 /\ traces[t][i - 1].events \cap {"preempt", "finish", "cancel"} # {}
-----------------------------------------------------------------------------
(* qtgui: a session with the viewer.  VisWindow loads logs into              *)
(* DisplayData, which keeps two models of them: by log, and by task.  The    *)
(* widget in each entry for a task shows the state that the task had in the  *)
(* step which the bar of DisplayWidget is on.                                *)

\* The class of a task's decoder goes by the second letter of its type, TM for (m,k)
\* tasks, the class of the widget by that of the decoder.
GetDecoder(t) ==
  IF taskset[t].k > 0
  THEN [class |-> "MkTaskStateDecoder", m |-> taskset[t].m, k |-> taskset[t].k]
  ELSE [class |-> "DefaultTaskStateDecoder"]

GetWidget(decoder) ==
  IF decoder.class = "MkTaskStateDecoder"
  THEN [class |-> "MkTaskStateWidget", mk |-> <<decoder.m, decoder.k>>,
        stream |-> << >>, dist |-> 0]
  ELSE [class |-> "DefaultTaskStateWidget", state |-> << >>]

\* What an (m,k) decoder takes from a state; the utilities are left out here, too.
Decoded(state) ==
  [mkstream |-> state.mkstream, streamSum |-> state.sum, distance |-> state.distance]

\* Only tasks of this class have entries in their traces, see Decodable.
SetState(widget, state) ==
  [widget EXCEPT !.stream = Decoded(state).mkstream, !.dist = Decoded(state).distance]

\* HEAD and SEP entries have neither widget nor trace.
DisplayModelEntry(type, label) ==
  [type |-> type, label |-> label, decoder |-> << >>, trace |-> << >>]

TaskEntry(log, t) ==
  [type |-> "TASK", label |-> <<log.name, t>>, decoder |-> GetWidget(log.decoders[t]),
   trace |-> log.traces[t]]

DisplayModel == [entries |-> << >>, tMax |-> 0]

\* clear() first: its tMax is that of the data then.
Filled(entries, tmax) == [entries |-> entries, tMax |-> tmax]

\* DisplayData and what VisWindow and DisplayWidget add: which model is shown, and the bar
NewSession ==
  [data |-> << >>, task2id |-> << >>, nTasks |-> 0, tMax |-> 0, dmSet |-> DisplayModel,
   dmTask |-> DisplayModel, currentModelBySet |-> TRUE, xBar |-> 0]

\* What LogFileReader hands over of the log that has been read; a line for each task
\* precedes its events.
LogSet(name) ==
  [name |-> name, tasks |-> [t \in Tasks |-> t], traces |-> traces, tMax |-> tMax,
   decoders |-> [t \in Tasks |-> GetDecoder(t)]]
-----------------------------------------------------------------------------
(* DisplayData                                                             *)

\* Logs are compared by the numbers and names of their tasks.
TaskSetsMatch(s, log) ==
  s.data # << >> =>
    /\ Len(log.tasks) = s.nTasks
    /\ \A id \in DOMAIN log.tasks :
         log.tasks[id] \in DOMAIN s.task2id => s.task2id[log.tasks[id]] = id

FillModelBySet(data, tmax) ==
  Filled(<<DisplayModelEntry("HEAD", "")>> \o
         FlattenSeq([l \in DOMAIN data |->
           <<DisplayModelEntry("SEP", data[l].name)>> \o
           [id \in DOMAIN data[l].tasks |-> TaskEntry(data[l], data[l].tasks[id])]]), tmax)

FillModelByTask(data, n, tmax) ==
  Filled(<<DisplayModelEntry("HEAD", "")>> \o
         FlattenSeq([id \in 1 .. n |->
           <<DisplayModelEntry("SEP", id)>> \o
           [l \in DOMAIN data |-> TaskEntry(data[l], data[l].tasks[id])]]), tmax)

\* Both models are made anew: no entry has a state until a step is selected again.
AddLog(s, log) ==
  LET data == Append(s.data, log)
      n    == Len(log.tasks)
      tmax == Max({s.tMax, log.tMax})
      ids  == [t \in Range(log.tasks) |-> CHOOSE id \in 1 .. n : log.tasks[id] = t]
  IN  IF ~ TaskSetsMatch(s, log) THEN s
      ELSE [s EXCEPT !.data = data, !.task2id = ids @@ @, !.nTasks = n, !.tMax = tmax,
                     !.dmSet = FillModelBySet(data, tmax),
                     !.dmTask = FillModelByTask(data, n, tmax)]

\* The loop over a trace stops at its first entry after the step.
Passed(trace, step) == {i \in DOMAIN trace : \A h \in 1 .. i : trace[h].time <= step}

\* Mutant: the entry at the step itself is left out.
StateBefore(e, step) ==
  LET passed == {i \in DOMAIN e.trace : \A h \in 1 .. i : e.trace[h].time < step}
  IN  IF passed = {} THEN e.decoder
      ELSE SetState(e.decoder, e.trace[Max(passed)].state)

\* Before the first entry of its trace a task keeps the state that was shown last.
StateAt(e, step) ==
  LET passed == Passed(e.trace, step)
  IN  IF passed = {} THEN e.decoder
      ELSE SetState(e.decoder, e.trace[Max(passed)].state)

SelectModelStep(dm, step) ==
  [dm EXCEPT !.entries = [i \in DOMAIN @ |->
     IF @[i].type = "TASK" THEN [@[i] EXCEPT !.decoder = StateAt(dm.entries[i], step)] ELSE @[i]]]

SelectStep(s, step) ==
  [s EXCEPT !.dmSet = SelectModelStep(@, step), !.dmTask = SelectModelStep(@, step)]
-----------------------------------------------------------------------------
(* DisplayWidget and VisWindow                                             *)

Shown(s) == IF s.currentModelBySet THEN s.dmSet ELSE s.dmTask

SetStep(s, step) == IF step > Shown(s).tMax THEN s ELSE SelectStep([s EXCEPT !.xBar = step], step)

\* The bar's position is unsigned: left of 0 is beyond every tMax.
StepPrev(s) == IF s.xBar = 0 THEN s ELSE SetStep(s, s.xBar - 1)

StepNext(s) == SetStep(s, s.xBar + 1)

\* Dragging the bar to a column, which is negative over the left margin
MouseMove(s, column) == SetStep(s, IF column > 0 THEN column ELSE 0)

ToggleModel(s) == [s EXCEPT !.currentModelBySet = ~ @]

\* Of the files that were given or chosen; a log that does not match is dropped.
LoadLogs(s, logs) == FoldLeft(AddLog, s, logs)

VisWindow(logs) == SetStep(LoadLogs(NewSession, logs), 0)
-----------------------------------------------------------------------------
\* The widgets a session shows for a task, one of each log in the order of the model
WidgetsOf(s, t) ==
  LET mine(e) == e.type = "TASK" /\ e.label[2] = t
      entries == SelectSeq(Shown(s).entries, mine)
  IN  [i \in DOMAIN entries |-> entries[i].decoder]

\* Two logs of the simulation, and one of the same tasks in another order
LoadedTwice ==
  LET log == LogSet("first")
  IN  LoadLogs(VisWindow(<<log>>), <<[log EXCEPT !.name = "turned", !.tasks = Reverse(@)],
                                     [log EXCEPT !.name = "second"]>>)

\* What was selected before, and how a step can be reached
Ways(s, at) ==
  { SetStep(s, at), SetStep(ToggleModel(SetStep(s, tMax)), at), StepNext(MouseMove(s, at - 1)),
    ToggleModel(StepPrev(StepNext(SetStep(s, at)))), MouseMove(MouseMove(s, at + 1), at) }

\* However a user gets to a step in which a job executes, each model shows the state
\* that its task had then, once for each log that matches: the reader attributes the
\* states of the log's lines to steps, and the lines say what the (m,k) monitor held.
ViewersShowStates ==
  pc = "api" /\ Readable =>
    \A e \in executed : \A s \in Ways(LoadedTwice, e.at) :
      /\ e.at \in 1 .. tMax - 1 => s.xBar = e.at
      /\ s.xBar = e.at =>
           /\ Len(WidgetsOf(s, e.task)) = 2
           /\ \A widget \in Range(WidgetsOf(s, e.task)) :
                widget = SetState(GetWidget(GetDecoder(e.task)), e.state)
=============================================================================
