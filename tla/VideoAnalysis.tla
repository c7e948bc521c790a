---------------------------- MODULE VideoAnalysis ----------------------------
(***************************************************************************)
(* The video analysis page (frontend/src/pages/VideoAnalysisPage.tsx) and  *)
(* the stream of a job's progress (hooks/useAnalysisStream.ts): a file is  *)
(* uploaded, a job is created, its progress comes over a WebSocket or, as  *)
(* long as that delivers nothing, from polls, and any job of this visit    *)
(* can be looked at again.                                                 *)
(*                                                                         *)
(* Messages and answers take their time: each carries a record the worker  *)
(* had at some moment since the one before it of its kind (Since).         *)
(***************************************************************************)
EXTENDS Integers, Sequences

CONSTANTS Jobs, NoJob,
  FullPercent,   \* the scale of percent
  KeptRuns,      \* length of the "This session" list, 10 in the code
  MaxUploads     \* bound: uploads under way at one time

AnalysisAssumption ==
  /\ NoJob \notin Jobs
  /\ FullPercent \in Nat \ {0} /\ KeptRuns \in Nat \ {0} /\ MaxUploads \in Nat \ {0}

VARIABLES
  active,     \* activeJob: the job that is shown
  picked,     \* a file that validateAnalysisFile accepts is chosen
  uploads,    \* stage of each start mutation under way
  start,      \* the mutation under way that the page shows, 0 for none
  runs,       \* jobs of this visit, newest first
  streamed,   \* what the WebSocket of job streamed.job has left
  socket,     \* the WebSocket of the mounted effect; finished: its job is
  closing,    \* jobs whose earlier WebSocket has yet to fire onclose
  polled,     \* the answers in the query cache
  asked,      \* jobs with a poll under way
  work        \* the worker's record of each job

streamVars == <<streamed, socket, closing, polled, asked>>
pageVars == <<picked, uploads, start, runs>>
analysisVars == <<active, pageVars, streamVars, work>>

Slots == 1..MaxUploads
\* "running" stands for queued and loading too; a failed record's percent, which
\* decides nothing, is left out.
Record == [status : {"running"}, percent : 0..FullPercent]
            \cup [status : {"failed"}, percent : {0}]
            \cup [status : {"complete"}, percent : {FullPercent}]
Nothing == [status |-> "none", percent |-> -1]
Created == [status |-> "running", percent |-> 0]

isFinished(r) == r.status \in {"complete", "failed"}

AnalysisTypeOK ==
  /\ active \in Jobs \cup {NoJob}
  /\ picked \in BOOLEAN
  /\ uploads \in [Slots -> {"none", "upload", "analyze"}]
  /\ start \in 0..MaxUploads
  /\ runs \in Seq(Jobs) /\ Len(runs) <= KeptRuns
  /\ streamed \in [job : Jobs \cup {NoJob}, rec : Record \cup {Nothing}, live : BOOLEAN]
  /\ socket \in [phase : {"none", "token", "connecting", "open"}, finished : BOOLEAN]
  /\ closing \subseteq Jobs
  /\ polled \in [Jobs -> Record \cup {Nothing}]
  /\ asked \subseteq Jobs
  /\ work \in [Jobs -> Record \cup {Nothing}]

NoSocketYet(p) == [phase |-> p, finished |-> FALSE]

PageInit ==
  /\ active = NoJob /\ picked = FALSE
  /\ uploads = [s \in Slots |-> "none"] /\ start = 0
  /\ runs = <<>>
  /\ streamed = [job |-> NoJob, rec |-> Nothing, live |-> FALSE]
  /\ socket = NoSocketYet("none")

AnalysisInit ==
  /\ PageInit
  /\ closing = {}
  /\ polled = [j \in Jobs |-> Nothing] /\ asked = {}
  /\ work = [j \in Jobs |-> Nothing]

\* The worker never goes back, and a finished record is its last.
Leq(a, b) ==
  \/ a = b
  \/ ~isFinished(a) /\ (a.percent <= b.percent \/ b.status = "failed")
Since(a, b) == {r \in Record : (a = Nothing \/ Leq(a, r)) /\ Leq(r, b)}

(***************************************************************************)
(* What is shown: of the streamed record, the polled one and the one the   *)
(* job was created with, a finished one, otherwise the most advanced.      *)
(***************************************************************************)
current == streamed.job = active
streamedJob == IF current THEN streamed.rec ELSE Nothing
live == current /\ streamed.live

\* Mutant of shown: the first record there is
FirstShown ==
  LET candidates == <<streamedJob, polled[active], Created>>
      i == CHOOSE k \in 1..3 : /\ candidates[k] # Nothing
                               /\ \A m \in 1..(k - 1) : candidates[m] = Nothing
  IN  IF active = NoJob THEN Nothing ELSE candidates[i]

shown ==
  IF active = NoJob THEN Nothing
  ELSE LET candidates == {streamedJob, polled[active], Created} IN
       CHOOSE r \in candidates :
         /\ (\E d \in candidates : isFinished(d)) => isFinished(r)
         /\ ~isFinished(r) => \A d \in candidates : d.percent <= r.percent

needsPolling == active # NoJob /\ ~live /\ ~isFinished(streamedJob)

isPending == start # 0
running == isPending \/ shown.status = "running"

\* Bar of the progress card and headline of the picture.
Tone(r) == CASE r.status = "failed" -> "red"
             [] r.status = "complete" -> "green"
             [] OTHER -> "cyan"
Headline == CASE shown.status = "running" -> IF live THEN "LIVE ANALYSIS" ELSE "ANALYSING"
              [] shown.status = "failed" -> "FAILED"
              [] shown.status = "complete" -> "COMPLETE"
              [] OTHER -> "NO ANALYSIS RUNNING"

(***************************************************************************)
(* The effect of the shown job                                             *)
(***************************************************************************)
\* Another job: the old WebSocket is closed, and the new one waits for a token
\* when that is about to expire.  Bound: one closing WebSocket per job.
show(j) ==
  /\ active' = j
  /\ \/ j = active /\ UNCHANGED <<socket, closing>>
     \/ /\ j # active /\ active \notin closing
        /\ closing' = IF socket.phase \in {"connecting", "open"}
                      THEN closing \cup {active} ELSE closing
        /\ \E p \in (IF j = NoJob THEN {"none"} ELSE {"token", "connecting"}) :
             socket' = NoSocketYet(p)

TokenAnswered ==
  /\ socket.phase = "token"
  /\ \E p \in {"connecting", "none"} : socket' = NoSocketYet(p)
  /\ UNCHANGED <<active, pageVars, streamed, closing, polled, asked, work>>

Opened ==
  /\ socket.phase = "connecting"
  /\ socket' = [socket EXCEPT !.phase = "open"]
  /\ streamed' = [job |-> active, rec |-> streamedJob, live |-> TRUE]
  /\ UNCHANGED <<active, pageVars, closing, polled, asked, work>>

Frame ==
  /\ socket.phase = "open" /\ ~socket.finished
  /\ streamed' = [job |-> active, rec |-> streamedJob, live |-> TRUE]
  /\ UNCHANGED <<active, pageVars, socket, closing, polled, asked, work>>

\* analysis_progress, and analysis_complete, the last message
Message ==
  /\ socket.phase = "open" /\ ~socket.finished
  /\ \E r \in Since(streamedJob, work[active]), last \in BOOLEAN :
       /\ last => isFinished(r)
       /\ socket' = [socket EXCEPT !.finished = last]
       /\ streamed' = [job |-> active, rec |-> r, live |-> ~last]
  /\ UNCHANGED <<active, pageVars, closing, polled, asked, work>>

\* Mutant of closed: the end of the WebSocket leaves live alone
StaysLive(j) == streamed

closed(j) == IF streamed.job = j THEN [streamed EXCEPT !.live = FALSE] ELSE streamed

Closes ==
  /\ socket.phase \in {"connecting", "open"}
  /\ socket' = NoSocketYet("none")
  /\ streamed' = closed(active)
  /\ UNCHANGED <<active, pageVars, closing, polled, asked, work>>

OldCloses(j) ==
  /\ j \in closing
  /\ closing' = closing \ {j}
  /\ streamed' = closed(j)
  /\ UNCHANGED <<active, pageVars, socket, polled, asked, work>>

Poll ==
  /\ needsPolling /\ active \notin asked /\ ~isFinished(polled[active])
  /\ asked' = asked \cup {active}
  /\ UNCHANGED <<active, pageVars, streamed, socket, closing, polled, work>>

PollAnswered(j) ==
  /\ j \in asked
  /\ \E r \in Since(polled[j], work[j]) : polled' = [polled EXCEPT ![j] = r]
  /\ asked' = asked \ {j}
  /\ UNCHANGED <<active, pageVars, streamed, socket, closing, work>>

PollFails(j) ==
  /\ j \in asked
  /\ asked' = asked \ {j}
  /\ UNCHANGED <<active, pageVars, streamed, socket, closing, polled, work>>

(***************************************************************************)
(* The page                                                                *)
(***************************************************************************)
ChooseFile ==
  /\ ~running
  /\ picked' \in BOOLEAN
  /\ UNCHANGED <<active, uploads, start, runs, streamVars, work>>

\* Without a camera the file goes straight to the analysis; for a camera it is
\* stored as evidence first.  A file that is not accepted is only complained of.
Begin(stage) ==
  /\ ~running /\ picked
  /\ \E s \in Slots :
       /\ uploads[s] = "none"
       /\ start' = s
       /\ uploads' = [uploads EXCEPT ![s] = stage]
  /\ UNCHANGED <<active, picked, runs, streamVars, work>>

UploadStored(s) ==
  /\ uploads[s] = "upload"
  /\ uploads' = [uploads EXCEPT ![s] = "analyze"]
  /\ UNCHANGED <<active, picked, start, runs, streamVars, work>>

Ends(s) ==
  /\ uploads' = [uploads EXCEPT ![s] = "none"]
  /\ start' = IF start = s THEN 0 ELSE start

StartFails(s) ==
  /\ uploads[s] # "none"
  /\ Ends(s)
  /\ UNCHANGED <<active, picked, runs, streamVars, work>>

\* The backend takes one job at a time.  The new job is shown, whatever is shown
\* by now.
JobCreated(s) ==
  /\ uploads[s] = "analyze"
  /\ \A k \in Jobs : work[k].status # "running"
  /\ \E k \in Jobs : work[k] = Nothing
  /\ LET j == CHOOSE k \in Jobs : work[k] = Nothing IN
       /\ work' = [work EXCEPT ![j] = Created]
       /\ show(j)
       /\ runs' = SubSeq(<<j>> \o runs, 1, IF Len(runs) < KeptRuns THEN Len(runs) + 1
                                                                    ELSE KeptRuns)
  /\ Ends(s)
  /\ UNCHANGED <<picked, streamed, polled, asked>>

OpenRun(i) ==
  /\ show(runs[i])
  /\ UNCHANGED <<pageVars, streamed, polled, asked, work>>

\* start.reset() forgets a mutation that may still be under way.
AnalyzeAnother ==
  /\ shown.status = "complete"
  /\ picked' = FALSE /\ start' = 0
  /\ show(NoJob)
  /\ UNCHANGED <<uploads, runs, streamed, polled, asked, work>>

\* Another page is opened and this one is mounted anew later.  The jobs of this
\* visit are not shown again, nor what is in the cache of them.
LeavePage ==
  /\ active' = NoJob /\ picked' = FALSE
  /\ uploads' = [s \in Slots |-> "none"] /\ start' = 0
  /\ runs' = <<>>
  /\ streamed' = [job |-> NoJob, rec |-> Nothing, live |-> FALSE]
  /\ socket' = NoSocketYet("none")
  /\ closing' = {}
  /\ polled' = [j \in Jobs |-> Nothing] /\ asked' = {}
  /\ UNCHANGED work

(***************************************************************************)
(* The worker, as far as the page can tell                                 *)
(***************************************************************************)
Works(j) ==
  /\ work[j].status = "running"
  /\ \E r \in Record \ {work[j]} :
       /\ Leq(work[j], r) /\ r.percent <= work[j].percent + 1
       /\ work' = [work EXCEPT ![j] = r]
  /\ UNCHANGED <<active, pageVars, streamVars>>

AnalysisNext ==
  \/ TokenAnswered \/ Opened \/ Frame \/ Message \/ Closes \/ Poll
  \/ \E j \in Jobs : OldCloses(j) \/ PollAnswered(j) \/ PollFails(j) \/ Works(j)
  \/ ChooseFile \/ Begin("analyze") \/ Begin("upload")
  \/ \E s \in Slots : UploadStored(s) \/ StartFails(s) \/ JobCreated(s)
  \/ \E i \in DOMAIN runs : OpenRun(i)
  \/ AnalyzeAnother \/ LeavePage

\* The browser runs its callbacks, the query its interval; polls go on until one
\* is answered with what the worker has now, and a WebSocket delivers or closes.
AnalysisFairness ==
  /\ WF_analysisVars(TokenAnswered \/ Opened \/ Closes \/ (Message /\ socket'.finished))
  /\ WF_analysisVars(Poll)
  /\ WF_analysisVars(\E j \in Jobs : OldCloses(j))
  /\ SF_analysisVars(\E j \in Jobs : PollAnswered(j) /\ polled'[j] = work[j])

(***************************************************************************)
(* Properties                                                              *)
(***************************************************************************)
\* While a job stays on the page its progress never goes back and its end is
\* final, although stream and polls overtake each other.
ProgressStands ==
  [][active' = active /\ active # NoJob =>
       LET was == shown
           now == shown'
       IN  /\ Tone(was) # "cyan" => Tone(now) = Tone(was)
           /\ isFinished(now) \/ was.percent <= now.percent]_analysisVars

\* "LIVE ANALYSIS" is shown over an open WebSocket of this very job, or for the
\* moment an earlier one of it takes to close.
LiveIsTrue ==
  Headline = "LIVE ANALYSIS" => socket.phase = "open" \/ active \in closing

\* The end of a job somebody goes on looking at is shown in the end, whether
\* its WebSocket was refused, was lost, or its messages were.
ResultArrives ==
  \A j \in Jobs :
    <>[](active = j /\ isFinished(work[j])) => <>[](isFinished(shown))
=============================================================================
