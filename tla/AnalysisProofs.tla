----------------------------- MODULE AnalysisProofs -----------------------------
(***************************************************************************)
(* Proofs about the video analysis page of Console, for any jobs, scale    *)
(* of percent and bounds: its types, and that progress stands although     *)
(* the stream and the polls of a job overtake each other; and about the    *)
(* dialogs that explain a track, for any frame, path and times: what they  *)
(* compute is sound.  The sums they take are over sets, so a part of its   *)
(* own says what a sum over a finite set is.                               *)
(***************************************************************************)
EXTENDS ConsoleProofs

Records == Analysis!Record \cup {Analysis!Nothing}

\* The record of a stream or of a poll is one the worker's has grown from.
Behind(r, w) == r = Analysis!Nothing \/ Analysis!Leq(r, w)

HistoryInv ==
  /\ Analysis!AnalysisTypeOK
  /\ socket.phase # "none" => active \in Jobs
  /\ streamed.job \in Jobs => Behind(streamed.rec, work[streamed.job])
  /\ streamed.job = NoJob => streamed.rec = Analysis!Nothing
  /\ \A j \in Jobs : Behind(polled[j], work[j])

(***************************************************************************)
(* Records                                                                 *)
(***************************************************************************)
LEMMA RecordProperties ==
  ASSUME NEW r \in Records
  PROVE  /\ r.percent \in Int /\ -1 <= r.percent
         /\ r # Analysis!Nothing => r \in Analysis!Record /\ 0 <= r.percent
         /\ r = Analysis!Nothing => r.percent = -1 /\ r.status = "none"
         /\ r.status = "failed" => r = [status |-> "failed", percent |-> 0]
         /\ r.status = "complete" => r = [status |-> "complete", percent |-> FullPercent]
<1>1. FullPercent \in Nat
  BY ConsoleAssumption DEF Analysis!AnalysisAssumption
<1>2. CASE r \in [status : {"running"}, percent : 0..FullPercent]
  BY <1>1, <1>2 DEF Analysis!Record, Analysis!Nothing
<1>3. CASE r \in [status : {"failed"}, percent : {0}]
  BY <1>1, <1>3 DEF Analysis!Record, Analysis!Nothing
<1>4. CASE r \in [status : {"complete"}, percent : {FullPercent}]
  BY <1>1, <1>4 DEF Analysis!Record, Analysis!Nothing
<1>5. CASE r = Analysis!Nothing
  BY <1>5 DEF Analysis!Nothing
<1> QED
  BY <1>2, <1>3, <1>4, <1>5 DEF Records, Analysis!Record

LEMMA CreatedIsARecord == Analysis!Created \in Analysis!Record
BY ConsoleAssumption DEF Analysis!AnalysisAssumption, Analysis!Created, Analysis!Record

\* A finished record is the last; without an end progress has not gone back.
LEMMA LeqProperties ==
  ASSUME NEW a \in Analysis!Record, NEW b \in Records, Analysis!Leq(a, b)
  PROVE  /\ b # Analysis!Nothing
         /\ Analysis!isFinished(a) => b = a
         /\ Analysis!isFinished(b) \/ a.percent <= b.percent
<1>1. a \in Records /\ a # Analysis!Nothing
  BY RecordProperties DEF Records, Analysis!Record, Analysis!Nothing
<1> QED
  BY <1>1, RecordProperties DEF Analysis!Leq, Analysis!isFinished

LEMMA LeqTransitive ==
  ASSUME NEW a \in Records, NEW b \in Records, NEW c \in Records,
         Analysis!Leq(a, b), Analysis!Leq(b, c)
  PROVE  Analysis!Leq(a, c)
BY RecordProperties DEF Analysis!Leq, Analysis!isFinished

(***************************************************************************)
(* What is shown                                                           *)
(***************************************************************************)
\* The choice that shown makes.
Best(s, p) ==
  LET candidates == {s, p, Analysis!Created} IN
  CHOOSE r \in candidates :
    /\ (\E d \in candidates : Analysis!isFinished(d)) => Analysis!isFinished(r)
    /\ ~Analysis!isFinished(r) => \A d \in candidates : d.percent <= r.percent

LEMMA ShownIsBest ==
  active # NoJob => Analysis!shown = Best(Analysis!streamedJob, polled[active])
BY DEF Analysis!shown, Best

LEMMA BestProperties ==
  ASSUME NEW s \in Records, NEW p \in Records, NEW r, r = Best(s, p)
  PROVE  /\ r \in {s, p, Analysis!Created}
         /\ \A d \in {s, p} : Analysis!isFinished(d) => Analysis!isFinished(r)
         /\ ~Analysis!isFinished(r) =>
              \A d \in {s, p, Analysis!Created} : d.percent <= r.percent
<1> DEFINE candidates == {s, p, Analysis!Created}
           Fits(x) == /\ (\E d \in candidates : Analysis!isFinished(d)) => Analysis!isFinished(x)
                      /\ ~Analysis!isFinished(x) => \A d \in candidates : d.percent <= x.percent
<1>1. \A d \in candidates : d \in Records /\ d.percent \in Int
  BY CreatedIsARecord, RecordProperties DEF Records
<1>2. \E x \in candidates : Fits(x)
  <2>1. CASE \E d \in candidates : Analysis!isFinished(d)
    BY <2>1
  <2>2. CASE ~ \E d \in candidates : Analysis!isFinished(d)
    <3>1. \E x \in candidates : \A d \in candidates : d.percent <= x.percent
      BY <1>1
    <3> QED
      BY <2>2, <3>1
  <2> QED
    BY <2>1, <2>2
<1>3. r = CHOOSE x \in candidates : Fits(x)
  BY DEF Best
<1>4. r \in candidates /\ Fits(r)
  BY <1>2, <1>3
<1> QED
  BY <1>4

\* While what is streamed and polled of a job only grows, so does what is shown.
LEMMA BestOnlyGrows ==
  ASSUME NEW s \in Records, NEW p \in Records, NEW s2 \in Records, NEW p2 \in Records,
         NEW w \in Records,
         Behind(s, s2), Behind(s2, w), Behind(p, p2), Behind(p2, w), Behind(s, w), Behind(p, w),
         NEW was, was = Best(s, p), NEW now, now = Best(s2, p2)
  PROVE  /\ Analysis!Tone(was) # "cyan" => Analysis!Tone(now) = Analysis!Tone(was)
         /\ Analysis!isFinished(now) \/ was.percent <= now.percent
<1> DEFINE C == Analysis!Created
<1>1. /\ C \in Records /\ C \in Analysis!Record
      /\ ~Analysis!isFinished(C) /\ C.percent = 0
  BY CreatedIsARecord DEF Records, Analysis!Created, Analysis!isFinished
<1>2. ~Analysis!isFinished(Analysis!Nothing)
  BY DEF Analysis!Nothing, Analysis!isFinished
<1>3. /\ was \in {s, p, C} /\ now \in {s2, p2, C}
      /\ \A d \in {s2, p2} : Analysis!isFinished(d) => Analysis!isFinished(now)
      /\ ~Analysis!isFinished(now) => \A d \in {s2, p2, C} : d.percent <= now.percent
      /\ ~Analysis!isFinished(was) => C.percent <= was.percent
  BY BestProperties
<1>4. ASSUME NEW d \in Records, Behind(d, w), Analysis!isFinished(d) PROVE d = w
  BY <1>2, <1>4, LeqProperties, RecordProperties DEF Behind
<1>5. \A d \in Records : d.percent \in Int /\ (d = Analysis!Nothing => d.percent = -1)
  BY RecordProperties
<1>6. ASSUME NEW d \in Records, NEW e \in Records, Behind(d, e), d # Analysis!Nothing
      PROVE  /\ Analysis!isFinished(d) => e = d
             /\ Analysis!isFinished(e) \/ d.percent <= e.percent
  BY <1>6, LeqProperties, RecordProperties DEF Behind
<1>7. Analysis!isFinished(was) => now = was
  <2> SUFFICES ASSUME Analysis!isFinished(was) PROVE now = was
    OBVIOUS
  <2>1. was \in {s, p} /\ was = w /\ was # Analysis!Nothing
    BY <1>1, <1>2, <1>3, <1>4
  <2>2. was \in {s2, p2}
    BY <1>6, <2>1
  <2>3. Analysis!isFinished(now)
    BY <1>3, <2>2
  <2> QED
    BY <1>1, <1>3, <1>4, <2>1, <2>3
<1>8. ~Analysis!isFinished(was) => Analysis!Tone(was) = "cyan"
  BY Zenon DEF Analysis!Tone, Analysis!isFinished
<1>9. Analysis!isFinished(now) \/ was.percent <= now.percent
  <2> SUFFICES ASSUME ~Analysis!isFinished(now) PROVE was.percent <= now.percent
    OBVIOUS
  <2>1. ~Analysis!isFinished(s2) /\ ~Analysis!isFinished(p2)
    BY <1>3
  <2>2. now \in Records
    BY <1>1, <1>3
  <2>3. CASE was = C
    BY <1>3, <2>3
  <2>4. CASE was \in {s, p} /\ was # Analysis!Nothing
    <3>1. was.percent <= s2.percent \/ was.percent <= p2.percent
      BY <1>6, <2>1, <2>4
    <3> QED
      BY <1>3, <1>5, <2>2, <2>4, <3>1
  <2>5. CASE was = Analysis!Nothing
    BY <1>1, <1>2, <1>3, <1>5, <2>5
  <2> QED
    BY <1>3, <2>3, <2>4, <2>5
<1> QED
  BY <1>7, <1>8, <1>9

(***************************************************************************)
(* Types and histories                                                     *)
(***************************************************************************)
LEMMA SinceProperties ==
  ASSUME NEW a \in Records, NEW b \in Records, NEW r \in Analysis!Since(a, b)
  PROVE  r \in Analysis!Record /\ r \in Records /\ Behind(a, r) /\ Behind(r, b)
BY DEF Analysis!Since, Records, Behind

LEMMA StreamedProperties ==
  ASSUME HistoryInv
  PROVE  /\ Analysis!streamedJob \in Records
         /\ active \in Jobs => Behind(Analysis!streamedJob, work[active])
         /\ active = NoJob => Analysis!streamedJob = Analysis!Nothing
<1>1. streamed.rec \in Records /\ Analysis!Nothing \in Records
  BY DEF HistoryInv, Analysis!AnalysisTypeOK, Records
<1> QED
  BY <1>1 DEF HistoryInv, Analysis!streamedJob, Analysis!current, Behind

SocketSound ==
  /\ active \in Jobs \cup {NoJob} /\ closing \subseteq Jobs
  /\ socket \in [phase : {"none", "token", "connecting", "open"}, finished : BOOLEAN]
  /\ socket.phase # "none" => active \in Jobs

RecordsSound ==
  /\ streamed \in [job : Jobs \cup {NoJob}, rec : Records, live : BOOLEAN]
  /\ streamed.job \in Jobs => Behind(streamed.rec, work[streamed.job])
  /\ streamed.job = NoJob => streamed.rec = Analysis!Nothing
  /\ polled \in [Jobs -> Records] /\ work \in [Jobs -> Records]
  /\ \A j \in Jobs : Behind(polled[j], work[j])

UploadsSound ==
  /\ picked \in BOOLEAN /\ asked \subseteq Jobs
  /\ uploads \in [Analysis!Slots -> {"none", "upload", "analyze"}]
  /\ start \in 0..MaxUploads
  /\ runs \in Seq(Jobs) /\ Len(runs) <= KeptRuns

LEMMA HistoryParts == HistoryInv <=> SocketSound /\ RecordsSound /\ UploadsSound
BY DEF HistoryInv, SocketSound, RecordsSound, UploadsSound, Analysis!AnalysisTypeOK, Records

\* The WebSocket is that of the job that is shown.
LEMMA ShowKeepsSocket ==
  ASSUME SocketSound, NEW j \in Jobs \cup {NoJob}, Analysis!show(j)
  PROVE  SocketSound'
<1>1. CASE j = active
  BY <1>1 DEF SocketSound, Analysis!show
<1>2. CASE j # active
  <2>1. /\ active' = j
        /\ closing' = IF socket.phase \in {"connecting", "open"}
                      THEN closing \cup {active} ELSE closing
        /\ \E p \in (IF j = NoJob THEN {"none"} ELSE {"token", "connecting"}) :
             socket' = [phase |-> p, finished |-> FALSE]
    BY <1>2 DEF Analysis!show, Analysis!NoSocketYet
  <2> QED
    BY <2>1 DEF SocketSound
<1> QED
  BY <1>1, <1>2

LEMMA SocketKept ==
  ASSUME HistoryInv, Analysis!AnalysisNext
  PROVE  SocketSound'
<1>0. SocketSound /\ runs \in Seq(Jobs) /\ work \in [Jobs -> Records]
  BY HistoryParts DEF UploadsSound, RecordsSound
<1>1. CASE Analysis!TokenAnswered \/ Analysis!Opened \/ Analysis!Message \/ Analysis!Closes
  <2>1. active' = active /\ closing' = closing /\ socket.phase # "none"
    BY <1>1 DEF Analysis!TokenAnswered, Analysis!Opened, Analysis!Message, Analysis!Closes
  <2>2. socket' \in [phase : {"none", "token", "connecting", "open"}, finished : BOOLEAN]
    <3>1. \/ \E p \in {"connecting", "none"} : socket' = [phase |-> p, finished |-> FALSE]
          \/ socket' = [socket EXCEPT !.phase = "open"]
          \/ \E last \in BOOLEAN : socket' = [socket EXCEPT !.finished = last]
      BY <1>1, Zenon DEF Analysis!TokenAnswered, Analysis!Opened, Analysis!Message,
                         Analysis!Closes, Analysis!NoSocketYet
    <3>2. socket \in [phase : {"none", "token", "connecting", "open"}, finished : BOOLEAN]
      BY <1>0 DEF SocketSound
    <3>3. ASSUME NEW last \in BOOLEAN, socket' = [socket EXCEPT !.finished = last]
          PROVE  socket' \in [phase : {"none", "token", "connecting", "open"}, finished : BOOLEAN]
      BY <3>2, <3>3
    <3>4. ASSUME socket' = [socket EXCEPT !.phase = "open"]
          PROVE  socket' \in [phase : {"none", "token", "connecting", "open"}, finished : BOOLEAN]
      BY <3>2, <3>4
    <3>5. ASSUME NEW p \in {"connecting", "none"}, socket' = [phase |-> p, finished |-> FALSE]
          PROVE  socket' \in [phase : {"none", "token", "connecting", "open"}, finished : BOOLEAN]
      BY <3>5
    <3> QED
      BY <3>1, <3>3, <3>4, <3>5
  <2> QED
    BY <1>0, <2>1, <2>2 DEF SocketSound
<1>2. CASE UNCHANGED <<active, socket>> /\ closing' \subseteq closing
  BY <1>0, <1>2 DEF SocketSound
<1>3. CASE \/ Analysis!Frame \/ Analysis!Poll \/ Analysis!ChooseFile
           \/ Analysis!Begin("analyze") \/ Analysis!Begin("upload")
  BY <1>2, <1>3 DEF Analysis!Frame, Analysis!Poll, Analysis!ChooseFile, Analysis!Begin,
                    Analysis!streamVars
<1>4. ASSUME NEW j \in Jobs, \/ Analysis!OldCloses(j) \/ Analysis!PollAnswered(j)
                             \/ Analysis!PollFails(j) \/ Analysis!Works(j)
      PROVE  SocketSound'
  BY <1>2, <1>4 DEF Analysis!OldCloses, Analysis!PollAnswered, Analysis!PollFails, Analysis!Works,
                    Analysis!streamVars
<1>5. ASSUME NEW s \in Analysis!Slots, Analysis!UploadStored(s) \/ Analysis!StartFails(s)
      PROVE  SocketSound'
  BY <1>2, <1>5 DEF Analysis!UploadStored, Analysis!StartFails, Analysis!streamVars
<1>6. ASSUME NEW s \in Analysis!Slots, Analysis!JobCreated(s) PROVE SocketSound'
  <2>1. PICK j \in Jobs : Analysis!show(j)
    BY <1>6 DEF Analysis!JobCreated
  <2> QED
    BY <1>0, <2>1, ShowKeepsSocket
<1>7. ASSUME NEW i \in DOMAIN runs, Analysis!OpenRun(i) PROVE SocketSound'
  <2>1. runs[i] \in Jobs
    BY <1>0
  <2> QED
    BY <1>0, <1>7, <2>1, ShowKeepsSocket DEF Analysis!OpenRun
<1>8. CASE Analysis!AnalyzeAnother
  BY <1>0, <1>8, ShowKeepsSocket DEF Analysis!AnalyzeAnother
<1>9. CASE Analysis!LeavePage
  BY <1>9 DEF Analysis!LeavePage, Analysis!NoSocketYet, SocketSound
<1> QED
  BY <1>1, <1>3, <1>4, <1>5, <1>6, <1>7, <1>8, <1>9 DEF Analysis!AnalysisNext

\* What the worker's record has grown from, its later ones have too.
LEMMA RecordsKept ==
  ASSUME HistoryInv, Analysis!AnalysisNext
  PROVE  RecordsSound'
<1>0. RecordsSound /\ SocketSound
  BY HistoryParts
<1>1. /\ Analysis!streamedJob \in Records
      /\ active \in Jobs => Behind(Analysis!streamedJob, work[active])
      /\ active = NoJob => Analysis!streamedJob = Analysis!Nothing
  BY StreamedProperties
<1>2. ASSUME UNCHANGED <<streamed, polled, work>> PROVE RecordsSound'
  BY <1>0, <1>2 DEF RecordsSound
<1>3. ASSUME NEW r \in Records, NEW l \in BOOLEAN,
             streamed' = [job |-> active, rec |-> r, live |-> l],
             active \in Jobs => Behind(r, work[active]),
             active = NoJob => r = Analysis!Nothing,
             UNCHANGED <<polled, work>>
      PROVE  RecordsSound'
  BY <1>0, <1>3 DEF RecordsSound, SocketSound
<1>4. ASSUME NEW j, streamed' = Analysis!closed(j), UNCHANGED <<polled, work>>
      PROVE  RecordsSound'
  <2>1. /\ streamed' \in [job : Jobs \cup {NoJob}, rec : Records, live : BOOLEAN]
        /\ streamed'.job = streamed.job /\ streamed'.rec = streamed.rec
    BY <1>0, <1>4 DEF RecordsSound, Analysis!closed
  <2> QED
    BY <1>0, <1>4, <2>1 DEF RecordsSound
<1>5. ASSUME NEW j \in Jobs, NEW r \in Records, work' = [work EXCEPT ![j] = r],
             work[j] = Analysis!Nothing \/ Analysis!Leq(work[j], r),
             UNCHANGED <<streamed, polled>>
      PROVE  RecordsSound'
  <2>1. work \in [Jobs -> Records]
    BY <1>0 DEF RecordsSound
  <2>2. work' \in [Jobs -> Records] /\ work'[j] = r /\ \A k \in Jobs \ {j} : work'[k] = work[k]
    BY <1>5, <2>1
  <2>3. ASSUME NEW a \in Records, Behind(a, work[j]) PROVE Behind(a, r)
    <3>1. CASE a = Analysis!Nothing
      BY <3>1 DEF Behind
    <3>2. CASE a # Analysis!Nothing
      <4>1. a \in Analysis!Record /\ Analysis!Leq(a, work[j])
        BY <2>3, <3>2 DEF Records, Behind
      <4>2. work[j] # Analysis!Nothing /\ work[j] \in Records
        BY <2>1, <4>1, LeqProperties
      <4> QED
        BY <1>5, <4>1, <4>2, LeqTransitive DEF Behind
    <3> QED
      BY <3>1, <3>2
  <2>4. /\ streamed'.job \in Jobs => Behind(streamed'.rec, work'[streamed'.job])
        /\ \A k \in Jobs : Behind(polled'[k], work'[k])
    BY <1>0, <1>5, <2>2, <2>3 DEF RecordsSound
  <2> QED
    BY <1>0, <1>5, <2>2, <2>4 DEF RecordsSound
<1>6. CASE Analysis!Opened \/ Analysis!Frame
  BY <1>1, <1>3, <1>6 DEF Analysis!Opened, Analysis!Frame
<1>7. CASE Analysis!Message
  <2>1. active \in Jobs
    BY <1>0, <1>7 DEF Analysis!Message, SocketSound
  <2>2. PICK r \in Analysis!Since(Analysis!streamedJob, work[active]), last \in BOOLEAN :
          streamed' = [job |-> active, rec |-> r, live |-> ~last]
    BY <1>7 DEF Analysis!Message
  <2>3. r \in Records /\ Behind(r, work[active])
    BY <1>0, <1>1, <2>1, SinceProperties DEF RecordsSound
  <2>4. UNCHANGED <<polled, work>> /\ active # NoJob
    BY <1>7, <2>1, ConsoleAssumption DEF Analysis!Message, Analysis!AnalysisAssumption
  <2>5. (~last) \in BOOLEAN
    OBVIOUS
  <2> QED
    BY <1>3, <2>1, <2>2, <2>3, <2>4, <2>5
<1>8. CASE Analysis!Closes
  BY <1>4, <1>8 DEF Analysis!Closes
<1>9. ASSUME NEW j \in Jobs, Analysis!OldCloses(j) PROVE RecordsSound'
  BY <1>4, <1>9 DEF Analysis!OldCloses
<1>10. ASSUME NEW j \in Jobs, Analysis!PollAnswered(j) PROVE RecordsSound'
  <2>1. PICK r \in Analysis!Since(polled[j], work[j]) : polled' = [polled EXCEPT ![j] = r]
    BY <1>10 DEF Analysis!PollAnswered
  <2>2. r \in Records /\ Behind(r, work[j])
    BY <1>0, <1>10, SinceProperties DEF RecordsSound
  <2>3. UNCHANGED <<streamed, work>>
    BY <1>10 DEF Analysis!PollAnswered
  <2> QED
    BY <1>0, <2>1, <2>2, <2>3 DEF RecordsSound
<1>11. ASSUME NEW j \in Jobs, Analysis!Works(j) PROVE RecordsSound'
  <2>1. PICK r \in Analysis!Record : Analysis!Leq(work[j], r) /\ work' = [work EXCEPT ![j] = r]
    BY <1>11 DEF Analysis!Works
  <2>2. UNCHANGED <<streamed, polled>>
    BY <1>11 DEF Analysis!Works, Analysis!streamVars
  <2> QED
    BY <1>5, <1>11, <2>1, <2>2 DEF Records
<1>12. ASSUME NEW s \in Analysis!Slots, Analysis!JobCreated(s) PROVE RecordsSound'
  <2> DEFINE j == CHOOSE k \in Jobs : work[k] = Analysis!Nothing
  <2>1. j \in Jobs /\ work[j] = Analysis!Nothing
    BY <1>12 DEF Analysis!JobCreated
  <2>2. work' = [work EXCEPT ![j] = Analysis!Created] /\ UNCHANGED <<streamed, polled>>
    BY <1>12 DEF Analysis!JobCreated
  <2> HIDE DEF j
  <2> QED
    BY <1>5, <2>1, <2>2, CreatedIsARecord DEF Records
<1>13. CASE \/ Analysis!TokenAnswered \/ Analysis!Poll \/ Analysis!ChooseFile
            \/ Analysis!Begin("analyze") \/ Analysis!Begin("upload") \/ Analysis!AnalyzeAnother
  BY <1>2, <1>13 DEF Analysis!TokenAnswered, Analysis!Poll, Analysis!ChooseFile, Analysis!Begin,
                     Analysis!AnalyzeAnother, Analysis!streamVars
<1>14. ASSUME NEW j \in Jobs, Analysis!PollFails(j) PROVE RecordsSound'
  BY <1>2, <1>14 DEF Analysis!PollFails
<1>15. ASSUME NEW s \in Analysis!Slots, Analysis!UploadStored(s) \/ Analysis!StartFails(s)
       PROVE  RecordsSound'
  BY <1>2, <1>15 DEF Analysis!UploadStored, Analysis!StartFails, Analysis!streamVars
<1>16. ASSUME NEW i \in DOMAIN runs, Analysis!OpenRun(i) PROVE RecordsSound'
  BY <1>2, <1>16 DEF Analysis!OpenRun
<1>17. CASE Analysis!LeavePage
  <2>1. /\ streamed' = [job |-> NoJob, rec |-> Analysis!Nothing, live |-> FALSE]
        /\ polled' = [j \in Jobs |-> Analysis!Nothing] /\ work' = work
    BY <1>17 DEF Analysis!LeavePage
  <2> QED
    BY <1>0, <2>1, ConsoleAssumption DEF RecordsSound, Records, Behind, Analysis!AnalysisAssumption
<1> QED
  BY <1>6, <1>7, <1>8, <1>9, <1>10, <1>11, <1>12, <1>13, <1>14, <1>15, <1>16, <1>17
     DEF Analysis!AnalysisNext

\* The list of this visit's jobs keeps to its length.
LEMMA RunsProperties ==
  ASSUME NEW j \in Jobs, NEW held \in Seq(Jobs), Len(held) <= KeptRuns, NEW longer,
         longer = SubSeq(<<j>> \o held, 1, IF Len(held) < KeptRuns THEN Len(held) + 1
                                                                  ELSE KeptRuns)
  PROVE  longer \in Seq(Jobs) /\ Len(longer) <= KeptRuns
<1> DEFINE n == IF Len(held) < KeptRuns THEN Len(held) + 1 ELSE KeptRuns
<1>1. Len(held) \in Nat /\ KeptRuns \in Nat \ {0}
  BY ConsoleAssumption, LenProperties DEF Analysis!AnalysisAssumption
<1>2. n \in Nat /\ 1 <= n /\ n <= KeptRuns /\ n <= Len(held) + 1
  BY <1>1
<1>3. /\ <<j>> \in Seq(Jobs) /\ Len(<<j>>) = 1
      /\ <<j>> \o held \in Seq(Jobs) /\ Len(<<j>> \o held) = Len(held) + 1
  <2>1. <<j>> \in Seq(Jobs) /\ Len(<<j>>) = 1
    OBVIOUS
  <2>2. <<j>> \o held \in Seq(Jobs) /\ Len(<<j>> \o held) = Len(<<j>>) + Len(held)
    BY <2>1, ConcatProperties
  <2> QED
    BY <1>1, <2>1, <2>2
<1> DEFINE both == <<j>> \o held
<1>4. \A i \in 1..n : both[i] \in Jobs
  <2> TAKE i \in 1..n
  <2>1. i \in 1..Len(both)
    BY <1>1, <1>2, <1>3
  <2> QED
    BY <1>3, <2>1, ElementOfSeq
<1>5. longer = SubSeq(both, 1, n)
  OBVIOUS
<1> HIDE DEF n, both
<1>6. SubSeq(both, 1, n) \in Seq(Jobs) /\ Len(SubSeq(both, 1, n)) = n
  BY <1>2, <1>4, SubSeqProperties
<1> QED
  BY <1>2, <1>5, <1>6

LEMMA EndsKeepsUploads ==
  ASSUME UploadsSound, NEW s \in Analysis!Slots, Analysis!Ends(s)
  PROVE  /\ uploads' \in [Analysis!Slots -> {"none", "upload", "analyze"}]
         /\ start' \in 0..MaxUploads
BY ConsoleAssumption DEF UploadsSound, Analysis!Ends, Analysis!AnalysisAssumption

LEMMA UploadsKept ==
  ASSUME HistoryInv, Analysis!AnalysisNext
  PROVE  UploadsSound'
<1>0. UploadsSound /\ SocketSound /\ RecordsSound
  BY HistoryParts
<1>1. ASSUME UNCHANGED <<uploads, start, runs>>, picked' \in BOOLEAN, asked' \subseteq Jobs
      PROVE  UploadsSound'
  BY <1>0, <1>1 DEF UploadsSound
<1>2. CASE \/ Analysis!TokenAnswered \/ Analysis!Opened \/ Analysis!Frame \/ Analysis!Message
           \/ Analysis!Closes \/ Analysis!Poll \/ Analysis!ChooseFile
  <2>1. UNCHANGED <<uploads, start, runs>> /\ picked' \in BOOLEAN
    BY <1>0, <1>2 DEF Analysis!TokenAnswered, Analysis!Opened, Analysis!Frame, Analysis!Message,
                      Analysis!Closes, Analysis!Poll, Analysis!ChooseFile, Analysis!pageVars,
                      Analysis!streamVars, UploadsSound
  <2>2. asked' \subseteq asked \cup (Jobs \cap {active})
    BY <1>0, <1>2 DEF Analysis!TokenAnswered, Analysis!Opened, Analysis!Frame, Analysis!Message,
                      Analysis!Closes, Analysis!Poll, Analysis!ChooseFile, Analysis!streamVars,
                      Analysis!needsPolling, SocketSound
  <2> QED
    BY <1>0, <1>1, <2>1, <2>2 DEF UploadsSound
<1>3. ASSUME NEW j \in Jobs, \/ Analysis!OldCloses(j) \/ Analysis!PollAnswered(j)
                             \/ Analysis!PollFails(j) \/ Analysis!Works(j)
      PROVE  UploadsSound'
  <2>1. UNCHANGED <<uploads, start, runs, picked>> /\ asked' \subseteq asked
    BY <1>3 DEF Analysis!OldCloses, Analysis!PollAnswered, Analysis!PollFails, Analysis!Works,
                Analysis!pageVars, Analysis!streamVars
  <2> QED
    BY <1>0, <1>1, <2>1 DEF UploadsSound
<1>4. ASSUME NEW stage \in {"upload", "analyze"}, Analysis!Begin(stage) PROVE UploadsSound'
  <2>1. PICK s \in Analysis!Slots : start' = s /\ uploads' = [uploads EXCEPT ![s] = stage]
    BY <1>4 DEF Analysis!Begin
  <2>2. UNCHANGED <<picked, runs, asked>>
    BY <1>4 DEF Analysis!Begin, Analysis!streamVars
  <2> QED
    BY <1>0, <2>1, <2>2, ConsoleAssumption
       DEF UploadsSound, Analysis!Slots, Analysis!AnalysisAssumption
<1>5. ASSUME NEW s \in Analysis!Slots, Analysis!UploadStored(s) PROVE UploadsSound'
  BY <1>0, <1>5 DEF Analysis!UploadStored, Analysis!streamVars, UploadsSound
<1>6. ASSUME NEW s \in Analysis!Slots, Analysis!StartFails(s) PROVE UploadsSound'
  <2>1. UNCHANGED <<picked, runs, asked>> /\ Analysis!Ends(s)
    BY <1>6 DEF Analysis!StartFails, Analysis!streamVars
  <2> QED
    BY <1>0, <2>1, EndsKeepsUploads DEF UploadsSound
<1>7. ASSUME NEW s \in Analysis!Slots, Analysis!JobCreated(s) PROVE UploadsSound'
  <2>1. /\ UNCHANGED <<picked, asked>> /\ Analysis!Ends(s)
        /\ \E j \in Jobs :
             runs' = SubSeq(<<j>> \o runs, 1, IF Len(runs) < KeptRuns THEN Len(runs) + 1
                                                                      ELSE KeptRuns)
    BY <1>7 DEF Analysis!JobCreated
  <2>2. runs' \in Seq(Jobs) /\ Len(runs') <= KeptRuns
    BY <1>0, <2>1, RunsProperties DEF UploadsSound
  <2> QED
    BY <1>0, <2>1, <2>2, EndsKeepsUploads DEF UploadsSound
<1>8. ASSUME NEW i \in DOMAIN runs, Analysis!OpenRun(i) PROVE UploadsSound'
  BY <1>0, <1>1, <1>8 DEF Analysis!OpenRun, Analysis!pageVars, UploadsSound
<1>9. 0 \in 0..MaxUploads /\ <<>> \in Seq(Jobs) /\ Len(<<>>) <= KeptRuns
  BY ConsoleAssumption DEF Analysis!AnalysisAssumption
<1>10. CASE Analysis!AnalyzeAnother
  <2>1. picked' = FALSE /\ start' = 0 /\ UNCHANGED <<uploads, runs, asked>>
    BY <1>10 DEF Analysis!AnalyzeAnother
  <2> QED
    BY <1>0, <1>9, <2>1 DEF UploadsSound
<1>11. CASE Analysis!LeavePage
  <2>1. /\ picked' = FALSE /\ start' = 0 /\ runs' = <<>> /\ asked' = {}
        /\ uploads' = [s \in Analysis!Slots |-> "none"]
    BY <1>11 DEF Analysis!LeavePage
  <2> QED
    BY <1>9, <2>1 DEF UploadsSound
<1> QED
  BY <1>2, <1>3, <1>4, <1>5, <1>6, <1>7, <1>8, <1>10, <1>11 DEF Analysis!AnalysisNext

LEMMA HistoryStarts == ConsoleInit => HistoryInv
<1> SUFFICES ASSUME ConsoleInit PROVE HistoryInv
  OBVIOUS
<1>1. /\ active = NoJob /\ picked = FALSE
      /\ uploads = [s \in Analysis!Slots |-> "none"] /\ start = 0 /\ runs = <<>>
      /\ streamed = [job |-> NoJob, rec |-> Analysis!Nothing, live |-> FALSE]
      /\ socket = [phase |-> "none", finished |-> FALSE] /\ closing = {} /\ asked = {}
      /\ polled = [j \in Jobs |-> Analysis!Nothing] /\ work = [j \in Jobs |-> Analysis!Nothing]
  BY DEF ConsoleInit, Analysis!AnalysisInit, Analysis!PageInit, Analysis!NoSocketYet
<1>2. SocketSound
  BY <1>1 DEF SocketSound
<1>3. RecordsSound
  BY <1>1, ConsoleAssumption DEF RecordsSound, Records, Behind, Analysis!AnalysisAssumption
<1>4. UploadsSound
  <2>1. 0 \in 0..MaxUploads /\ <<>> \in Seq(Jobs) /\ Len(<<>>) <= KeptRuns
    BY ConsoleAssumption DEF Analysis!AnalysisAssumption
  <2> QED
    BY <1>1, <2>1 DEF UploadsSound
<1> QED
  BY <1>2, <1>3, <1>4, HistoryParts

LEMMA HistoryKept == HistoryInv /\ [ConsoleNext]_consoleVars => HistoryInv'
<1> SUFFICES ASSUME HistoryInv, [ConsoleNext]_consoleVars PROVE HistoryInv'
  OBVIOUS
<1>1. CASE Analysis!AnalysisNext
  <2>1. SocketSound' /\ RecordsSound' /\ UploadsSound'
    BY <1>1, SocketKept, RecordsKept, UploadsKept
  <2>2. HistoryInv' <=> SocketSound' /\ RecordsSound' /\ UploadsSound'
    BY DEF HistoryInv, SocketSound, RecordsSound, UploadsSound, Analysis!AnalysisTypeOK, Records
  <2> QED
    BY <2>1, <2>2
<1>2. CASE UNCHANGED analysisVars
  BY <1>2 DEF analysisVars, HistoryInv, Analysis!AnalysisTypeOK
<1> QED
  BY <1>1, <1>2, OnePartMoves

(***************************************************************************)
(* Progress stands                                                         *)
(***************************************************************************)
\* What ProgressStands says of a step.
ProgressStep ==
  active' = active /\ active # NoJob =>
    LET was == Analysis!shown
        now == Analysis!shown'
    IN  /\ Analysis!Tone(was) # "cyan" => Analysis!Tone(now) = Analysis!Tone(was)
        /\ Analysis!isFinished(now) \/ was.percent <= now.percent

\* Two records of a job, streamed and polled: what they have grown into.
LEMMA CandidatesGrow ==
  ASSUME HistoryInv, Analysis!AnalysisNext, active' = active, active \in Jobs
  PROVE  \/ UNCHANGED <<streamed, polled>>
         \/ Analysis!streamedJob' = Analysis!streamedJob /\ polled' = polled
         \/ /\ work' = work
            /\ Behind(Analysis!streamedJob, Analysis!streamedJob')
            /\ Behind(polled[active], polled'[active])
<1>0. /\ active # NoJob /\ Analysis!streamedJob \in Records
      /\ polled \in [Jobs -> Records] /\ work \in [Jobs -> Records]
      /\ streamed.job \in Jobs \cup {NoJob}
      /\ streamed = [job |-> streamed.job, rec |-> streamed.rec, live |-> streamed.live]
  <2>1. RecordsSound
    BY HistoryParts
  <2> QED
    BY <2>1, StreamedProperties, ConsoleAssumption DEF RecordsSound, Analysis!AnalysisAssumption
<1>1. \A r \in Records : Behind(r, r)
  BY DEF Behind, Analysis!Leq
<1>2. CASE Analysis!Opened \/ Analysis!Frame
  <2>1. /\ streamed'.job = active' /\ streamed'.rec = Analysis!streamedJob /\ polled' = polled
    BY <1>2 DEF Analysis!Opened, Analysis!Frame
  <2> QED
    BY <2>1 DEF Analysis!streamedJob, Analysis!current
<1>3. CASE Analysis!Message
  <2>1. PICK r \in Analysis!Since(Analysis!streamedJob, work[active]), last \in BOOLEAN :
          streamed' = [job |-> active, rec |-> r, live |-> ~last]
    BY <1>3 DEF Analysis!Message
  <2>2. Analysis!streamedJob' = r
    BY <2>1 DEF Analysis!streamedJob, Analysis!current
  <2>3. work' = work /\ polled' = polled
    BY <1>3 DEF Analysis!Message
  <2> QED
    BY <1>0, <1>1, <2>1, <2>2, <2>3, SinceProperties
<1>4. ASSUME NEW j, streamed' = Analysis!closed(j), polled' = polled
      PROVE  Analysis!streamedJob' = Analysis!streamedJob
  <2>1. streamed'.job = streamed.job /\ streamed'.rec = streamed.rec
    BY <1>0, <1>4 DEF Analysis!closed
  <2> QED
    BY <2>1 DEF Analysis!streamedJob, Analysis!current
<1>5. CASE Analysis!Closes
  BY <1>4, <1>5 DEF Analysis!Closes
<1>6. ASSUME NEW j \in Jobs, Analysis!OldCloses(j)
      PROVE  Analysis!streamedJob' = Analysis!streamedJob /\ polled' = polled
  BY <1>4, <1>6 DEF Analysis!OldCloses
<1>7. ASSUME NEW j \in Jobs, Analysis!PollAnswered(j)
      PROVE  /\ work' = work
             /\ Behind(Analysis!streamedJob, Analysis!streamedJob')
             /\ Behind(polled[active], polled'[active])
  <2>1. PICK r \in Analysis!Since(polled[j], work[j]) : polled' = [polled EXCEPT ![j] = r]
    BY <1>7 DEF Analysis!PollAnswered
  <2>2. streamed' = streamed /\ work' = work
    BY <1>7 DEF Analysis!PollAnswered
  <2>3. Analysis!streamedJob' = Analysis!streamedJob
    BY <2>2 DEF Analysis!streamedJob, Analysis!current
  <2>4. Behind(polled[j], r)
    BY <1>0, <2>1, SinceProperties
  <2>5. Behind(polled[active], polled'[active])
    BY <1>0, <1>1, <2>1, <2>4
  <2> QED
    BY <1>0, <1>1, <2>2, <2>3, <2>5
<1>8. CASE \/ Analysis!TokenAnswered \/ Analysis!Poll \/ Analysis!ChooseFile
           \/ Analysis!Begin("analyze") \/ Analysis!Begin("upload") \/ Analysis!AnalyzeAnother
  BY <1>8 DEF Analysis!TokenAnswered, Analysis!Poll, Analysis!ChooseFile, Analysis!Begin,
              Analysis!AnalyzeAnother, Analysis!streamVars
<1>9. ASSUME NEW j \in Jobs, Analysis!PollFails(j) \/ Analysis!Works(j)
      PROVE  UNCHANGED <<streamed, polled>>
  BY <1>9 DEF Analysis!PollFails, Analysis!Works, Analysis!streamVars
<1>10. ASSUME NEW s \in Analysis!Slots, \/ Analysis!UploadStored(s) \/ Analysis!StartFails(s)
                                        \/ Analysis!JobCreated(s)
       PROVE  UNCHANGED <<streamed, polled>>
  BY <1>10 DEF Analysis!UploadStored, Analysis!StartFails, Analysis!JobCreated,
               Analysis!streamVars
<1>11. ASSUME NEW i \in DOMAIN runs, Analysis!OpenRun(i) PROVE UNCHANGED <<streamed, polled>>
  BY <1>11 DEF Analysis!OpenRun
<1>12. ~Analysis!LeavePage
  BY <1>0 DEF Analysis!LeavePage
<1> QED
  BY <1>2, <1>3, <1>5, <1>6, <1>7, <1>8, <1>9, <1>10, <1>11, <1>12 DEF Analysis!AnalysisNext

LEMMA ProgressStepHolds ==
  ASSUME HistoryInv, HistoryInv', [ConsoleNext]_consoleVars
  PROVE  ProgressStep
<1> SUFFICES ASSUME active' = active, active # NoJob PROVE ProgressStep
  BY DEF ProgressStep
<1> DEFINE s == Analysis!streamedJob
           p == polled[active]
<1>0. /\ active \in Jobs
      /\ s \in Records /\ s' \in Records /\ p \in Records /\ p' \in Records
      /\ work[active] \in Records
      /\ Behind(s, work[active]) /\ Behind(p, work[active])
      /\ Behind(s', work'[active]) /\ Behind(p', work'[active])
  <2>1. active \in Jobs
    BY DEF HistoryInv, Analysis!AnalysisTypeOK
  <2>2. s \in Records /\ Behind(s, work[active])
    BY <2>1, StreamedProperties
  <2>3. s' \in Records /\ Behind(s', work'[active])
    <3>1. streamed'.rec \in Records /\ Analysis!Nothing \in Records
      BY DEF HistoryInv, Analysis!AnalysisTypeOK, Records
    <3> QED
      BY <2>1, <3>1 DEF HistoryInv, Analysis!streamedJob, Analysis!current, Behind
  <2>4. /\ p \in Records /\ p' \in Records /\ work[active] \in Records
        /\ Behind(p, work[active]) /\ Behind(p', work'[active])
    BY <2>1 DEF HistoryInv, Analysis!AnalysisTypeOK, Records
  <2> QED
    BY <2>1, <2>2, <2>3, <2>4
<1>1. Analysis!shown = Best(s, p) /\ Analysis!shown' = Best(s', p')
  BY DEF Analysis!shown, Best
<1>2. \A r \in Records : Behind(r, r)
  BY DEF Behind, Analysis!Leq
<1>3. CASE s' = s /\ p' = p
  <2>1. Analysis!shown' = Analysis!shown
    BY <1>1, <1>3
  <2>2. Best(s, p) \in {s, p, Analysis!Created} /\ Analysis!Created \in Records
    BY <1>0, BestProperties, CreatedIsARecord DEF Records
  <2>3. Analysis!shown.percent \in Int
    BY <1>0, <1>1, <2>2, RecordProperties
  <2> QED
    BY <2>1, <2>3 DEF ProgressStep
<1>4. CASE work' = work /\ Behind(s, s') /\ Behind(p, p')
  <2> HIDE DEF s, p
  <2> QED
    BY <1>0, <1>1, <1>4, BestOnlyGrows DEF ProgressStep
<1>5. CASE Analysis!AnalysisNext
  <2>1. UNCHANGED <<streamed, polled>> => s' = s /\ p' = p
    BY DEF Analysis!streamedJob, Analysis!current
  <2>2. polled' = polled => p' = p
    OBVIOUS
  <2> QED
    BY <1>0, <1>3, <1>4, <1>5, <2>1, <2>2, CandidatesGrow
<1>6. CASE UNCHANGED analysisVars
  <2>1. s' = s /\ p' = p
    BY <1>6 DEF analysisVars, Analysis!streamedJob, Analysis!current
  <2> QED
    BY <1>3, <2>1
<1> QED
  BY <1>5, <1>6, OnePartMoves

\* While a job stays on the page, its progress never goes back and its end is
\* final, however the stream and the polls overtake each other.
THEOREM ProgressAlwaysStands == ConsoleSpec => ProgressStands
<1>1. HistoryInv /\ HistoryInv' /\ [ConsoleNext]_consoleVars => [ProgressStep]_Analysis!analysisVars
  BY ProgressStepHolds
<1>2. ProgressStands <=> [][ProgressStep]_Analysis!analysisVars
  BY DEF ProgressStands, Analysis!ProgressStands, ProgressStep
<1> QED
  BY <1>1, <1>2, HistoryStarts, HistoryKept, PTL DEF ConsoleSpec

(***************************************************************************)
(* Sums over finite sets                                                   *)
(***************************************************************************)
\* A family that has a subset of S once it has all smaller ones has them all.
LEMMA SubsetInduction ==
  ASSUME NEW S, IsFiniteSet(S), NEW F,
         \A T \in SUBSET S : (\A U \in (SUBSET T) \ {T} : U \in F) => T \in F
  PROVE  \A T \in SUBSET S : T \in F
<1> DEFINE Left == {T \in SUBSET S : T \notin F}
<1> SUFFICES ASSUME Left # {} PROVE FALSE
  OBVIOUS
<1>1. Left \subseteq FiniteSubsetsOf(S)
  BY FS_Subset DEF FiniteSubsetsOf
<1>2. PICK T \in Left : \A U \in Left : ~(<<U, T>> \in StrictSubsetOrdering(S))
  <2> HIDE DEF Left
  <2> QED
    BY <1>1, FS_StrictSubsetOrderingWellFounded, WFMin
<1>3. ASSUME NEW U \in (SUBSET T) \ {T} PROVE <<U, T>> \in StrictSubsetOrdering(S)
  <2> DEFINE pair == <<U, T>>
  <2>1. pair \in (SUBSET S) \X (SUBSET S) /\ pair[1] \subseteq pair[2] /\ pair[1] # pair[2]
    BY <1>2, <1>3
  <2> HIDE DEF pair
  <2> QED
    BY <2>1 DEF StrictSubsetOrdering
<1>4. T \in SUBSET S /\ T \notin F
  BY <1>2
<1>5. ASSUME NEW U \in (SUBSET T) \ {T} PROVE U \in F
  BY <1>2, <1>3, <1>4, <1>5
<1> QED
  BY <1>4, <1>5

Chosen(s) == CHOOSE x \in s : TRUE

\* The function by which the library sums g over the subsets of S.
IsSum(it, g, S) ==
  it = [s \in SUBSET S |-> IF s = {} THEN 0 ELSE g[Chosen(s)] + it[s \ {Chosen(s)}]]

Sum(g, S) == (CHOOSE it : IsSum(it, g, S))[S]

LEMMA SumIs == \A g, S : Reading!SumFunctionOnSet(g, S) = Sum(g, S)
BY Zenon DEF Sum, IsSum, Chosen, Reading!SumFunctionOnSet, Reading!FoldFunctionOnSet,
   Reading!MapThenFoldSet

LEMMA ChosenIn == \A s : s # {} => Chosen(s) \in s
BY DEF Chosen

LEMMA IsSumValue ==
  ASSUME NEW g, NEW S, NEW w, IsSum(w, g, S), NEW s \in SUBSET S
  PROVE  w[s] = IF s = {} THEN 0 ELSE g[Chosen(s)] + w[s \ {Chosen(s)}]
<1>1. w = [r \in SUBSET S |-> IF r = {} THEN 0 ELSE g[Chosen(r)] + w[r \ {Chosen(r)}]]
  BY DEF IsSum
<1> QED
  BY <1>1

LEMMA SumUnique ==
  ASSUME NEW g, NEW S, IsFiniteSet(S), NEW v, NEW w, IsSum(v, g, S), IsSum(w, g, S)
  PROVE  v = w
<1> DEFINE F == {T \in SUBSET S : v[T] = w[T]}
<1>1. ASSUME NEW T \in SUBSET S, \A U \in (SUBSET T) \ {T} : U \in F PROVE T \in F
  <2>1. /\ v[T] = IF T = {} THEN 0 ELSE g[Chosen(T)] + v[T \ {Chosen(T)}]
        /\ w[T] = IF T = {} THEN 0 ELSE g[Chosen(T)] + w[T \ {Chosen(T)}]
    BY IsSumValue
  <2>2. T # {} => T \ {Chosen(T)} \in (SUBSET T) \ {T}
    BY ChosenIn
  <2> QED
    BY <1>1, <2>1, <2>2
<1>2. \A T \in SUBSET S : T \in F
  <2> HIDE DEF F
  <2> QED
    BY <1>1, SubsetInduction
<1>3. /\ v = [s \in SUBSET S |-> IF s = {} THEN 0 ELSE g[Chosen(s)] + v[s \ {Chosen(s)}]]
      /\ w = [s \in SUBSET S |-> IF s = {} THEN 0 ELSE g[Chosen(s)] + w[s \ {Chosen(s)}]]
  BY DEF IsSum
<1>4. v = [s \in SUBSET S |-> v[s]] /\ w = [s \in SUBSET S |-> w[s]]
  BY <1>3
<1>5. \A s \in SUBSET S : v[s] = w[s]
  BY <1>2
<1> QED
  BY <1>4, <1>5

LEMMA SumRestricted ==
  ASSUME NEW g, NEW S, NEW w, IsSum(w, g, S), NEW T \in SUBSET S
  PROVE  IsSum([s \in SUBSET T |-> w[s]], g, T)
<1> DEFINE v == [s \in SUBSET T |-> w[s]]
<1>1. ASSUME NEW s \in SUBSET T
      PROVE  w[s] = IF s = {} THEN 0 ELSE g[Chosen(s)] + v[s \ {Chosen(s)}]
  <2>1. s \in SUBSET S /\ s \ {Chosen(s)} \in SUBSET T
    OBVIOUS
  <2>2. v[s \ {Chosen(s)}] = w[s \ {Chosen(s)}]
    BY <2>1
  <2> QED
    BY <2>1, <2>2, IsSumValue
<1>2. v = [s \in SUBSET T |-> IF s = {} THEN 0 ELSE g[Chosen(s)] + v[s \ {Chosen(s)}]]
  <2> HIDE DEF v
  <2>1. v = [s \in SUBSET T |-> w[s]]
    BY DEF v
  <2> QED
    BY <1>1, <2>1
<1> QED
  BY <1>2 DEF IsSum

LEMMA SumExists ==
  ASSUME NEW g, NEW S, IsFiniteSet(S)
  PROVE  \E it : IsSum(it, g, S)
<1> DEFINE F == {T \in SUBSET S : \E it : IsSum(it, g, T)}
<1>1. ASSUME NEW T \in SUBSET S, \A U \in (SUBSET T) \ {T} : U \in F PROVE T \in F
  <2> DEFINE of(U) == CHOOSE it : IsSum(it, g, U)
             less == [U \in (SUBSET T) \ {T} |-> of(U)[U]]
             h == [U \in SUBSET T |-> IF U # T THEN less[U] ELSE IF T = {} THEN 0
                                     ELSE g[Chosen(T)] + less[T \ {Chosen(T)}]]
  <2>1. ASSUME NEW U \in (SUBSET T) \ {T} PROVE IsSum(of(U), g, U)
    BY <1>1
  <2>2. ASSUME NEW U \in (SUBSET T) \ {T}, NEW V \in SUBSET U
        PROVE  of(U)[V] = of(V)[V]
    <3>1. V \in (SUBSET T) \ {T} /\ IsFiniteSet(V)
      BY FS_Subset
    <3>2. IsSum([s \in SUBSET V |-> of(U)[s]], g, V) /\ IsSum(of(V), g, V)
      BY <2>1, <3>1, SumRestricted
    <3> HIDE DEF of
    <3>3. [s \in SUBSET V |-> of(U)[s]] = of(V)
      BY <3>1, <3>2, SumUnique
    <3>4. [s \in SUBSET V |-> of(U)[s]][V] = of(U)[V]
      OBVIOUS
    <3> QED
      BY <3>3, <3>4
  <2>3. ASSUME NEW U \in (SUBSET T) \ {T}
        PROVE  less[U] = IF U = {} THEN 0 ELSE g[Chosen(U)] + less[U \ {Chosen(U)}]
    <3>1. less[U] = of(U)[U]
      OBVIOUS
    <3>2. U \ {Chosen(U)} \in (SUBSET T) \ {T} /\ U \ {Chosen(U)} \in SUBSET U
      OBVIOUS
    <3>3. less[U \ {Chosen(U)}] = of(U)[U \ {Chosen(U)}]
      BY <3>2, <2>2
    <3>4. of(U)[U] = IF U = {} THEN 0 ELSE g[Chosen(U)] + of(U)[U \ {Chosen(U)}]
      <4> HIDE DEF of
      <4> QED
        BY <2>1, IsSumValue
    <3> HIDE DEF less, of
    <3> QED
      BY <3>1, <3>3, <3>4
  <2>4. ASSUME NEW U \in SUBSET T
        PROVE  h[U] = IF U = {} THEN 0 ELSE g[Chosen(U)] + h[U \ {Chosen(U)}]
    <3> HIDE DEF less
    <3>1. U # {} => U \ {Chosen(U)} \in (SUBSET T) \ {T}
      BY ChosenIn
    <3> QED
      BY <2>3, <3>1
  <2>5. IsSum(h, g, T)
    <3>1. h = [U \in SUBSET T |-> h[U]]
      OBVIOUS
    <3> HIDE DEF h
    <3>2. h = [U \in SUBSET T |-> IF U = {} THEN 0 ELSE g[Chosen(U)] + h[U \ {Chosen(U)}]]
      BY <2>4, <3>1
    <3> QED
      BY <3>2 DEF IsSum
  <2> QED
    BY <2>5
<1>2. S \in F
  <2> HIDE DEF F
  <2> QED
    BY <1>1, SubsetInduction
<1> QED
  BY <1>2

LEMMA SumEquation ==
  ASSUME NEW g, NEW S, IsFiniteSet(S)
  PROVE  /\ Sum(g, {}) = 0
         /\ S # {} => Sum(g, S) = g[Chosen(S)] + Sum(g, S \ {Chosen(S)})
<1> DEFINE of(U) == CHOOSE it : IsSum(it, g, U)
<1>1. ASSUME NEW U \in SUBSET S PROVE IsSum(of(U), g, U) /\ IsFiniteSet(U)
  BY SumExists, FS_Subset
<1>2. Sum(g, {}) = of({})[{}] /\ Sum(g, S) = of(S)[S]
      /\ Sum(g, S \ {Chosen(S)}) = of(S \ {Chosen(S)})[S \ {Chosen(S)}]
  BY DEF Sum
<1> HIDE DEF of
<1>3. of({})[{}] = 0
  <2>1. {} \in SUBSET {} /\ {} \in SUBSET S
    OBVIOUS
  <2>2. IsSum(of({}), g, {})
    BY <1>1, <2>1
  <2> QED
    BY <2>1, <2>2, IsSumValue
<1>4. ASSUME S # {} PROVE of(S)[S] = g[Chosen(S)] + of(S \ {Chosen(S)})[S \ {Chosen(S)}]
  <2> DEFINE T == S \ {Chosen(S)}
  <2>1. T \in SUBSET S /\ S \in SUBSET S
    OBVIOUS
  <2>2. of(S)[S] = g[Chosen(S)] + of(S)[T]
    BY <1>1, <1>4, <2>1, IsSumValue
  <2>3. IsSum([s \in SUBSET T |-> of(S)[s]], g, T) /\ IsSum(of(T), g, T) /\ IsFiniteSet(T)
    <3> HIDE DEF T
    <3> QED
      BY <1>1, <2>1, SumRestricted
  <2> HIDE DEF T
  <2>4. [s \in SUBSET T |-> of(S)[s]] = of(T)
    BY <2>3, SumUnique
  <2>5. [s \in SUBSET T |-> of(S)[s]][T] = of(S)[T]
    OBVIOUS
  <2>6. of(S)[S] = g[Chosen(S)] + of(T)[T]
    BY <2>2, <2>4, <2>5
  <2> QED
    BY <2>6 DEF T
<1> QED
  BY <1>2, <1>3, <1>4

LEMMA SumIsInt ==
  ASSUME NEW S, IsFiniteSet(S), NEW g, \A x \in S : g[x] \in Int
  PROVE  Sum(g, S) \in Int
<1> DEFINE F == {T \in SUBSET S : Sum(g, T) \in Int}
<1>1. ASSUME NEW T \in SUBSET S, \A U \in (SUBSET T) \ {T} : U \in F PROVE T \in F
  <2>1. IsFiniteSet(T)
    BY FS_Subset
  <2>2. CASE T = {}
    BY <2>1, <2>2, SumEquation
  <2>3. CASE T # {}
    <3>1. T \ {Chosen(T)} \in F /\ Chosen(T) \in S
      BY <1>1, <2>3, ChosenIn
    <3> QED
      BY <2>1, <2>3, <3>1, SumEquation
  <2> QED
    BY <2>2, <2>3
<1>2. S \in F
  <2> HIDE DEF F
  <2> QED
    BY <1>1, SubsetInduction
<1> QED
  BY <1>2

\* The sum does not depend on the order in which the elements are chosen.
LEMMA SumRemove ==
  ASSUME NEW S, IsFiniteSet(S), NEW g, \A x \in S : g[x] \in Int, NEW y \in S
  PROVE  Sum(g, S) = g[y] + Sum(g, S \ {y})
<1> DEFINE F == {T \in SUBSET S : \A x \in T : Sum(g, T) = g[x] + Sum(g, T \ {x})}
<1>1. ASSUME NEW T \in SUBSET S, \A U \in (SUBSET T) \ {T} : U \in F PROVE T \in F
  <2> SUFFICES ASSUME NEW x \in T PROVE Sum(g, T) = g[x] + Sum(g, T \ {x})
    OBVIOUS
  <2> DEFINE c == Chosen(T)
  <2>1. c \in T /\ IsFiniteSet(T)
    BY FS_Subset, ChosenIn
  <2>2. Sum(g, T) = g[c] + Sum(g, T \ {c})
    BY <2>1, SumEquation
  <2>3. CASE x = c
    BY <2>2, <2>3
  <2>4. CASE x # c
    <3> HIDE DEF c
    <3>1. T \ {c} \in F /\ T \ {x} \in F
      BY <1>1, <2>1
    <3>2. /\ Sum(g, T \ {c}) = g[x] + Sum(g, (T \ {c}) \ {x})
          /\ Sum(g, T \ {x}) = g[c] + Sum(g, (T \ {x}) \ {c})
      BY <2>1, <2>4, <3>1
    <3>3. (T \ {c}) \ {x} = (T \ {x}) \ {c} /\ IsFiniteSet((T \ {x}) \ {c})
      BY FS_Subset
    <3>4. Sum(g, (T \ {x}) \ {c}) \in Int /\ g[x] \in Int /\ g[c] \in Int
      BY <2>1, <3>3, SumIsInt
    <3> DEFINE r == Sum(g, (T \ {x}) \ {c})
    <3>5. Sum(g, (T \ {c}) \ {x}) = r
      BY <3>3
    <3> HIDE DEF F, r
    <3>6. Sum(g, T \ {c}) = g[x] + r /\ Sum(g, T \ {x}) = g[c] + r
      BY <3>2, <3>5 DEF r
    <3> QED
      BY <2>2, <3>4, <3>6 DEF r
  <2> QED
    BY <2>3, <2>4
<1>2. S \in F
  <2> HIDE DEF F
  <2> QED
    BY <1>1, SubsetInduction
<1> QED
  BY <1>2

\* Equal summands, equal sums.
LEMMA SumSame ==
  ASSUME NEW S, IsFiniteSet(S), NEW g, NEW h, \A x \in S : g[x] = h[x]
  PROVE  Sum(g, S) = Sum(h, S)
<1> DEFINE F == {T \in SUBSET S : Sum(g, T) = Sum(h, T)}
<1>1. ASSUME NEW T \in SUBSET S, \A U \in (SUBSET T) \ {T} : U \in F PROVE T \in F
  <2>1. IsFiniteSet(T) /\ Sum(g, {}) = 0 /\ Sum(h, {}) = 0
    BY FS_Subset, SumEquation
  <2>2. CASE T # {}
    <3>1. T \ {Chosen(T)} \in F /\ Chosen(T) \in S
      BY <1>1, <2>2, ChosenIn
    <3> QED
      BY <2>1, <2>2, <3>1, SumEquation
  <2> QED
    BY <2>1, <2>2
<1>2. S \in F
  <2> HIDE DEF F
  <2> QED
    BY <1>1, SubsetInduction
<1> QED
  BY <1>2

\* A sum of combinations is the combination of the sums.
LEMMA SumLinear ==
  ASSUME NEW S, IsFiniteSet(S), NEW a \in Int, NEW b \in Int, NEW f, NEW g, NEW h,
         \A x \in S : f[x] \in Int /\ g[x] \in Int /\ h[x] = a * f[x] + b * g[x]
  PROVE  Sum(h, S) = a * Sum(f, S) + b * Sum(g, S)
<1> DEFINE F == {T \in SUBSET S : Sum(h, T) = a * Sum(f, T) + b * Sum(g, T)}
<1>1. ASSUME NEW T \in SUBSET S, \A U \in (SUBSET T) \ {T} : U \in F PROVE T \in F
  <2>1. /\ IsFiniteSet(T) /\ IsFiniteSet(T \ {Chosen(T)})
        /\ Sum(f, {}) = 0 /\ Sum(g, {}) = 0 /\ Sum(h, {}) = 0
    BY FS_Subset, SumEquation
  <2>2. CASE T # {}
    <3> DEFINE c == Chosen(T)
               U == T \ {c}
    <3>1. U \in F /\ c \in S
      BY <1>1, <2>2, ChosenIn
    <3>2. /\ Sum(f, T) = f[c] + Sum(f, U) /\ Sum(g, T) = g[c] + Sum(g, U)
          /\ Sum(h, T) = h[c] + Sum(h, U)
      BY <2>1, <2>2, SumEquation
    <3>3. Sum(f, U) \in Int /\ Sum(g, U) \in Int
      BY <2>1, SumIsInt
    <3>4. f[c] \in Int /\ g[c] \in Int /\ h[c] = a * f[c] + b * g[c]
      BY <3>1
    <3>5. Sum(h, U) = a * Sum(f, U) + b * Sum(g, U)
      BY <3>1
    <3> HIDE DEF c, U
    <3>6. /\ a * Sum(f, T) = a * f[c] + a * Sum(f, U)
          /\ b * Sum(g, T) = b * g[c] + b * Sum(g, U)
      BY <3>2, <3>3, <3>4
    <3>7. /\ a * f[c] \in Int /\ a * Sum(f, U) \in Int
          /\ b * g[c] \in Int /\ b * Sum(g, U) \in Int
      BY <3>3, <3>4
    <3>8. Sum(h, T) = a * Sum(f, T) + b * Sum(g, T)
      BY <3>2, <3>4, <3>5, <3>6, <3>7
    <3> QED
      BY <3>8
  <2>3. CASE T = {}
    <3>1. a * 0 + b * 0 = 0
      OBVIOUS
    <3> QED
      BY <2>1, <2>3, <3>1
  <2> QED
    BY <2>2, <2>3
<1>2. S \in F
  <2> HIDE DEF F
  <2> QED
    BY <1>1, SubsetInduction
<1> QED
  BY <1>2

LEMMA SumIsNat ==
  ASSUME NEW S, IsFiniteSet(S), NEW g, \A x \in S : g[x] \in Nat
  PROVE  Sum(g, S) \in Nat /\ \A x \in S : g[x] <= Sum(g, S)
<1> DEFINE F == {T \in SUBSET S : Sum(g, T) \in Nat}
<1>1. ASSUME NEW T \in SUBSET S, \A U \in (SUBSET T) \ {T} : U \in F PROVE T \in F
  <2>1. IsFiniteSet(T) /\ Sum(g, {}) = 0
    BY FS_Subset, SumEquation
  <2>2. CASE T # {}
    <3>1. T \ {Chosen(T)} \in F /\ Chosen(T) \in S
      BY <1>1, <2>2, ChosenIn
    <3> QED
      BY <2>1, <2>2, <3>1, SumEquation
  <2> QED
    BY <2>1, <2>2
<1>2. \A T \in SUBSET S : T \in F
  <2> HIDE DEF F
  <2> QED
    BY <1>1, SubsetInduction
<1>3. ASSUME NEW x \in S PROVE g[x] <= Sum(g, S)
  <2>1. Sum(g, S \ {x}) \in Nat
    BY <1>2
  <2>2. Sum(g, S) = g[x] + Sum(g, S \ {x})
    BY SumRemove
  <2> QED
    BY <2>1, <2>2
<1> QED
  BY <1>2, <1>3

LEMMA SumOfZeros ==
  ASSUME NEW S, IsFiniteSet(S), NEW g, \A x \in S : g[x] = 0
  PROVE  Sum(g, S) = 0
<1> DEFINE F == {T \in SUBSET S : Sum(g, T) = 0}
<1>1. ASSUME NEW T \in SUBSET S, \A U \in (SUBSET T) \ {T} : U \in F PROVE T \in F
  <2>1. IsFiniteSet(T) /\ Sum(g, {}) = 0
    BY FS_Subset, SumEquation
  <2>2. CASE T # {}
    <3>1. T \ {Chosen(T)} \in F /\ Chosen(T) \in S
      BY <1>1, <2>2, ChosenIn
    <3> QED
      BY <2>1, <2>2, <3>1, SumEquation
  <2> QED
    BY <2>1, <2>2
<1>2. S \in F
  <2> HIDE DEF F
  <2> QED
    BY <1>1, SubsetInduction
<1> QED
  BY <1>2

\* The sum of ones is the cardinality.
LEMMA SumOfOnes ==
  ASSUME NEW S, IsFiniteSet(S), NEW g, \A x \in S : g[x] = 1
  PROVE  Sum(g, S) = Cardinality(S)
<1> DEFINE F == {T \in SUBSET S : Sum(g, T) = Cardinality(T)}
<1>1. ASSUME NEW T \in SUBSET S, \A U \in (SUBSET T) \ {T} : U \in F PROVE T \in F
  <2>1. IsFiniteSet(T) /\ Sum(g, {}) = 0 /\ Cardinality({}) = 0
    BY FS_Subset, FS_EmptySet, SumEquation
  <2>2. CASE T # {}
    <3>1. T \ {Chosen(T)} \in F /\ Chosen(T) \in T
      BY <1>1, <2>2, ChosenIn
    <3>2. Cardinality(T \ {Chosen(T)}) = Cardinality(T) - 1 /\ Cardinality(T) \in Nat
      BY <2>1, <3>1, FS_RemoveElement, FS_CardinalityType
    <3>3. Sum(g, T) = 1 + Sum(g, T \ {Chosen(T)})
      BY <2>1, <2>2, <3>1, SumEquation
    <3> QED
      BY <3>1, <3>2, <3>3
  <2> QED
    BY <2>1, <2>2
<1>2. S \in F
  <2> HIDE DEF F
  <2> QED
    BY <1>1, SubsetInduction
<1> QED
  BY <1>2

(***************************************************************************)
(* The score taken apart                                                   *)
(***************************************************************************)
Weights(S) == Sum(Reading!Points, S)

LEMMA AdditiveIs ==
  ASSUME NEW S, NEW bonus
  PROVE  Reading!Additive(S, bonus) = 10 + bonus + Weights(S)
BY SumIs DEF Reading!Additive, Weights

LEMMA FactorsFinite == IsFiniteSet(DOMAIN Reading!Points)
<1>1. /\ IsFiniteSet({"loitering"} \cup {"toward_fence"})
      /\ IsFiniteSet({"repeat_appearance"} \cup {"running"})
  BY FS_Singleton, FS_Union
<1>2. IsFiniteSet(({"loitering"} \cup {"toward_fence"})
                    \cup ({"repeat_appearance"} \cup {"running"}))
  BY <1>1, FS_Union
<1>3. IsFiniteSet((({"loitering"} \cup {"toward_fence"})
                    \cup ({"repeat_appearance"} \cup {"running"})) \cup {"weapon_detected"})
  BY <1>2, FS_AddElement
<1>4. DOMAIN Reading!Points = (({"loitering"} \cup {"toward_fence"})
                    \cup ({"repeat_appearance"} \cup {"running"})) \cup {"weapon_detected"}
  BY DEF Reading!Points
<1> QED
  BY <1>3, <1>4

LEMMA WeightsProperties ==
  ASSUME NEW S \in SUBSET DOMAIN Reading!Points
  PROVE  /\ Weights(S) \in Nat
         /\ Weights(S) = Weights(S \cap {"loitering"}) + Weights(S \ {"loitering"})
         /\ Weights(S \cap {"loitering"}) \in Nat
         /\ Weights(S \ {"loitering"}) \in Nat
<1>1. \A f \in DOMAIN Reading!Points : Reading!Points[f] \in Nat
  BY DEF Reading!Points
<1>2. ASSUME NEW T \in SUBSET S PROVE IsFiniteSet(T) /\ Weights(T) \in Nat
  <2>1. IsFiniteSet(T)
    BY FactorsFinite, FS_Subset
  <2> QED
    BY <1>1, <2>1, SumIsNat DEF Weights
<1>3. S \cap {"loitering"} \in SUBSET S /\ S \ {"loitering"} \in SUBSET S /\ S \in SUBSET S
  OBVIOUS
<1>4. Weights(S \cap {"loitering"}) \in Nat /\ Weights(S \ {"loitering"}) \in Nat
      /\ Weights(S) \in Nat /\ IsFiniteSet(S) /\ IsFiniteSet({"loitering"})
  BY <1>2, <1>3, FS_Singleton
<1>5. Weights({}) = 0
  BY FS_EmptySet, SumEquation DEF Weights
<1>6. CASE "loitering" \in S
  <2>1. S \cap {"loitering"} = {"loitering"} /\ {"loitering"} \ {"loitering"} = {}
    BY <1>6
  <2>2. \A f \in S : Reading!Points[f] \in Int
    BY <1>1
  <2>3. Weights(S) = Reading!Points["loitering"] + Weights(S \ {"loitering"})
    BY <1>4, <1>6, <2>2, SumRemove DEF Weights
  <2>4. Weights({"loitering"}) = Reading!Points["loitering"] + Weights({"loitering"} \ {"loitering"})
    <3>1. \A f \in {"loitering"} : Reading!Points[f] \in Int
      BY <1>6, <2>2
    <3> QED
      BY <1>4, <3>1, SumRemove DEF Weights
  <2>5. Reading!Points["loitering"] \in Int
    BY <1>6, <2>2
  <2>6. Weights(S \cap {"loitering"}) = Reading!Points["loitering"]
    <3>1. Weights(S \cap {"loitering"}) = Weights({"loitering"})
      BY <2>1
    <3>2. Weights({"loitering"} \ {"loitering"}) = 0
      BY <1>5, <2>1
    <3> QED
      BY <2>4, <2>5, <3>1, <3>2
  <2> QED
    BY <1>4, <2>3, <2>6
<1>7. CASE "loitering" \notin S
  <2>1. S \cap {"loitering"} = {} /\ S \ {"loitering"} = S
    BY <1>7
  <2> QED
    BY <1>4, <1>5, <2>1
<1> QED
  BY <1>6, <1>7

\* The two ways to take one and a half times a score.
HalfEven(s) ==
  LET half == (3 * s) \div 2
  IN  IF (3 * s) % 2 = 0 \/ half % 2 = 0 THEN half ELSE half + 1
HalfUp(s) == (3 * s + 1) \div 2

LEMMA Roundings ==
  ASSUME NEW s \in Nat
  PROVE  /\ HalfEven(s) \in Nat /\ HalfUp(s) \in Nat
         /\ HalfEven(s) - HalfUp(s) \in {-1, 0}
         /\ 3 * s - 1 <= 2 * HalfEven(s) /\ 2 * HalfEven(s) <= 3 * s + 1
         /\ 3 * s <= 2 * HalfUp(s) /\ 2 * HalfUp(s) <= 3 * s + 1
BY DEF HalfEven, HalfUp

Risks == [factors : SUBSET DOMAIN Reading!Points, bonus : Reading!Bonuses, night : BOOLEAN]

LEMMA ScoresAre ==
  ASSUME NEW r \in Risks
  PROVE  LET s == 10 + r.bonus + Weights(r.factors)
             known == 10 + r.bonus + Weights(r.factors \cap {"loitering"})
             up(n) == IF r.night THEN HalfUp(n) ELSE n
         IN  /\ s \in Nat /\ known \in Nat
             /\ s = known + Weights(r.factors \ {"loitering"})
             /\ Weights(r.factors \ {"loitering"}) \in Nat
             /\ Reading!calculate(r) = Reading!Lesser(100, IF r.night THEN HalfEven(s) ELSE s)
             /\ Reading!parseRiskReasons(r) = Reading!calculate(r) - Reading!Lesser(100, up(s))
             /\ Reading!explainDetectionRisk(r)
                  = Reading!calculate(r) - Reading!Lesser(100, up(known))
<1>1. r.factors \in SUBSET DOMAIN Reading!Points /\ r.bonus \in Nat
  BY DEF Risks, Reading!Bonuses
<1>2. /\ Weights(r.factors) \in Nat
      /\ Weights(r.factors)
           = Weights(r.factors \cap {"loitering"}) + Weights(r.factors \ {"loitering"})
      /\ Weights(r.factors \cap {"loitering"}) \in Nat
      /\ Weights(r.factors \ {"loitering"}) \in Nat
  BY <1>1, WeightsProperties
<1>3. /\ Reading!Additive(r.factors, r.bonus) = 10 + r.bonus + Weights(r.factors)
      /\ Reading!Additive(r.factors \cap {"loitering"}, r.bonus)
           = 10 + r.bonus + Weights(r.factors \cap {"loitering"})
  BY AdditiveIs
<1>4. Reading!calculate(r) = Reading!Lesser(100, IF r.night
        THEN HalfEven(10 + r.bonus + Weights(r.factors)) ELSE 10 + r.bonus + Weights(r.factors))
  BY <1>3 DEF Reading!calculate, HalfEven
<1>5. Reading!parseRiskReasons(r) = Reading!calculate(r) - Reading!Lesser(100, IF r.night
        THEN HalfUp(10 + r.bonus + Weights(r.factors)) ELSE 10 + r.bonus + Weights(r.factors))
  BY <1>3 DEF Reading!parseRiskReasons, Reading!implied, HalfUp
<1>6. Reading!explainDetectionRisk(r) = Reading!calculate(r) - Reading!Lesser(100, IF r.night
        THEN HalfUp(10 + r.bonus + Weights(r.factors \cap {"loitering"}))
        ELSE 10 + r.bonus + Weights(r.factors \cap {"loitering"}))
  BY <1>3 DEF Reading!explainDetectionRisk, Reading!implied, HalfUp
<1> QED
  BY <1>1, <1>2, <1>4, <1>5, <1>6

\* The weighted mean of the channels lies between any two bounds of them.
LEMMA FusionBetween ==
  ASSUME NEW r \in Risks, NEW confidence \in Nat, NEW dwell \in Nat,
         NEW most \in Int, NEW least \in Int,
         LET c == Reading!Channels(r, confidence, dwell)
         IN  \A k \in DOMAIN c : least <= c[k] /\ c[k] <= most
  PROVE  Reading!fuseConfidence(Reading!Channels(r, confidence, dwell))
           \in (100 * least)..(100 * most)
<1> DEFINE c == Reading!Channels(r, confidence, dwell)
<1>1. Reading!calculate(r) \in Nat
  <2>1. 10 + r.bonus + Weights(r.factors) \in Nat
    BY ScoresAre
  <2>2. HalfEven(10 + r.bonus + Weights(r.factors)) \in Nat
    BY <2>1, Roundings
  <2>3. Reading!calculate(r) = Reading!Lesser(100, IF r.night
          THEN HalfEven(10 + r.bonus + Weights(r.factors)) ELSE 10 + r.bonus + Weights(r.factors))
    BY ScoresAre
  <2> QED
    BY <2>1, <2>2, <2>3 DEF Reading!Lesser
<1>2. r.bonus \in Nat
  BY DEF Risks, Reading!Bonuses
<1>3. /\ c.detector = confidence /\ c.behaviour = Reading!calculate(r)
      /\ c.zone = Reading!Lesser(100, r.bonus) /\ c.persistence = Reading!Lesser(100, dwell)
      /\ DOMAIN c = {"detector", "behaviour", "zone", "persistence"}
  BY DEF Reading!Channels
<1>4. Reading!Lesser(100, r.bonus) \in Nat /\ Reading!Lesser(100, dwell) \in Nat
  BY <1>2 DEF Reading!Lesser
<1>5. /\ c.detector \in Nat /\ c.behaviour \in Nat /\ c.zone \in Nat /\ c.persistence \in Nat
  BY <1>1, <1>3, <1>4
<1> HIDE DEF c
<1>6. /\ least <= c.detector /\ c.detector <= most /\ least <= c.behaviour /\ c.behaviour <= most
      /\ least <= c.zone /\ c.zone <= most /\ least <= c.persistence /\ c.persistence <= most
  <2>1. \A k \in DOMAIN c : least <= c[k] /\ c[k] <= most
    BY DEF c
  <2> QED
    BY <1>3, <2>1
<1>7. Reading!fuseConfidence(c) \in (100 * least)..(100 * most)
  BY <1>5, <1>6 DEF Reading!fuseConfidence
<1> QED
  BY <1>7 DEF c

LEMMA RiskIsExplained ==
  ASSUME risk \in Risks
  PROVE  Reading!RiskExplained
<1> DEFINE s == 10 + risk.bonus + Weights(risk.factors)
           known == 10 + risk.bonus + Weights(risk.factors \cap {"loitering"})
           hidden == Weights(risk.factors \ {"loitering"})
<1>1. /\ s \in Nat /\ known \in Nat /\ s = known + hidden /\ hidden \in Nat
      /\ Reading!calculate(risk) = Reading!Lesser(100, IF risk.night THEN HalfEven(s) ELSE s)
      /\ Reading!parseRiskReasons(risk) = Reading!calculate(risk)
           - Reading!Lesser(100, IF risk.night THEN HalfUp(s) ELSE s)
      /\ Reading!explainDetectionRisk(risk) = Reading!calculate(risk)
           - Reading!Lesser(100, IF risk.night THEN HalfUp(known) ELSE known)
  BY ScoresAre
<1>2. risk.night \in BOOLEAN
  BY DEF Risks
<1> HIDE DEF s, known, hidden
<1>3. /\ HalfEven(s) \in Nat /\ HalfUp(s) \in Nat /\ HalfUp(known) \in Nat
      /\ HalfEven(s) - HalfUp(s) \in {-1, 0}
      /\ 3 * s - 1 <= 2 * HalfEven(s) /\ 2 * HalfUp(known) <= 3 * known + 1
  BY <1>1, Roundings
<1>4. Reading!parseRiskReasons(risk) \in (IF risk.night THEN {-1, 0} ELSE {0})
  BY <1>1, <1>2, <1>3 DEF Reading!Lesser
<1>5. /\ Reading!explainDetectionRisk(risk) >= (IF hidden = 0 /\ risk.night THEN -1 ELSE 0)
      /\ ~risk.night /\ Reading!calculate(risk) < 100 => Reading!explainDetectionRisk(risk) = hidden
  <2>1. CASE hidden = 0
    <3>1. HalfUp(known) = HalfUp(s) /\ known = s
      BY <1>1, <2>1
    <3> QED
      BY <1>1, <1>2, <1>3, <2>1, <3>1 DEF Reading!Lesser
  <2>2. CASE hidden > 0
    BY <1>1, <1>2, <1>3, <2>2 DEF Reading!Lesser
  <2> QED
    BY <1>1, <2>1, <2>2
<1>6. ASSUME NEW confidence \in {0, 60, 100}, NEW dwell \in {0, 50, 300}
      PROVE  LET c == Reading!Channels(risk, confidence, dwell)
                 values == {c[k] : k \in DOMAIN c}
             IN  \A most, least \in values :
                   (\A v \in values : least <= v /\ v <= most) =>
                     Reading!fuseConfidence(c) \in (100 * least)..(100 * most)
  <2> DEFINE c == Reading!Channels(risk, confidence, dwell)
             values == {c[k] : k \in DOMAIN c}
  <2>1. ASSUME NEW most \in values, NEW least \in values,
               \A v \in values : least <= v /\ v <= most
        PROVE  Reading!fuseConfidence(c) \in (100 * least)..(100 * most)
    <3>1. \A k \in DOMAIN c : least <= c[k] /\ c[k] <= most
      BY <2>1
    <3>2. values \subseteq Int
      <4>1. risk.bonus \in Nat /\ Reading!calculate(risk) \in Nat
        BY <1>1, <1>2, <1>3 DEF Risks, Reading!Bonuses, Reading!Lesser
      <4> QED
        BY <4>1 DEF Reading!Channels, Reading!Lesser
    <3> HIDE DEF values
    <3> QED
      BY <2>1, <3>1, <3>2, FusionBetween
  <2> QED
    BY <2>1
<1>7. hidden = Reading!SumFunctionOnSet(Reading!Points, risk.factors \ {"loitering"})
  BY SumIs DEF hidden, Weights
<1> QED
  BY <1>4, <1>5, <1>6, <1>7 DEF Reading!RiskExplained

(***************************************************************************)
(* Positions in zones                                                      *)
(***************************************************************************)
LEMMA SameCount == \A S : Reading!Cardinality(S) = Cardinality(S)
BY DEF Reading!Cardinality, Cardinality

\* Which edges of a polygon with four corners a ray crosses decides alone.
LEMMA FourCorners ==
  ASSUME NEW x, NEW y, NEW a, NEW b, NEW c, NEW d, NEW inside \in BOOLEAN,
         ~Reading!Crosses(x, y, b, a), ~Reading!Crosses(x, y, d, c),
         \/ ~Reading!Crosses(x, y, a, d) /\ (Reading!Crosses(x, y, c, b) <=> inside)
         \/ (Reading!Crosses(x, y, a, d) <=> ~inside) /\ Reading!Crosses(x, y, c, b)
  PROVE  Reading!pointInPolygon(x, y, <<a, b, c, d>>) <=> inside
<1> DEFINE p == <<a, b, c, d>>
           S == {i \in 1..4 : Reading!Crosses(x, y, p[i], p[IF i = 1 THEN 4 ELSE i - 1])}
<1>1. /\ Len(p) = 4 /\ p[1] = a /\ p[2] = b /\ p[3] = c /\ p[4] = d
  OBVIOUS
<1>2. Reading!pointInPolygon(x, y, p) <=> Cardinality(S) % 2 = 1
  BY <1>1, SameCount DEF Reading!pointInPolygon
<1>3. /\ 1 \in S <=> Reading!Crosses(x, y, a, d)
      /\ 2 \notin S /\ 4 \notin S
      /\ 3 \in S <=> Reading!Crosses(x, y, c, b)
      /\ S \subseteq 1..4
  BY <1>1
<1> HIDE DEF S, p
<1>4. Cardinality({}) = 0 /\ Cardinality({1}) = 1 /\ Cardinality({3}) = 1
      /\ Cardinality({1} \cup {3}) = 2
  <2>1. Cardinality({}) = 0 /\ Cardinality({1}) = 1 /\ Cardinality({3}) = 1 /\ IsFiniteSet({1})
    BY FS_EmptySet, FS_Singleton
  <2>2. Cardinality({1} \cup {3}) = IF 3 \in {1} THEN Cardinality({1}) ELSE Cardinality({1}) + 1
    BY <2>1, FS_AddElement
  <2> QED
    BY <2>1, <2>2
<1>5. /\ 1 \notin S /\ 3 \notin S => S = {}
      /\ 1 \in S /\ 3 \notin S => S = {1}
      /\ 1 \notin S /\ 3 \in S => S = {3}
      /\ 1 \in S /\ 3 \in S => S = {1} \cup {3}
  <2>1. \A i \in S : i = 1 \/ i = 3
    BY <1>3
  <2> QED
    BY <2>1
<1>6. CASE inside
  <2>1. S = {3}
    BY <1>3, <1>5, <1>6
  <2> QED
    BY <1>2, <1>4, <1>6, <2>1 DEF p
<1>7. CASE ~inside
  <2>1. S = {} \/ S = {1} \cup {3}
    BY <1>3, <1>5, <1>7
  <2> QED
    BY <1>2, <1>4, <1>7, <2>1 DEF p
<1> QED
  BY <1>6, <1>7

LEMMA CrossesLevel ==
  ASSUME NEW x, NEW y, NEW a, NEW b, a[2] = b[2]
  PROVE  ~Reading!Crosses(x, y, a, b)
BY DEF Reading!Crosses

\* An edge from the lower border at u to the upper border at v, either way round.
LEMMA CrossesAscent ==
  ASSUME NEW x \in Int, NEW y \in Int, NEW u \in Int, NEW v \in Int, NEW h \in Int,
         0 <= y, y < h
  PROVE  /\ Reading!Crosses(x, y, <<u, 0>>, <<v, h>>) <=> h * x < h * u + (v - u) * y
         /\ Reading!Crosses(x, y, <<v, h>>, <<u, 0>>) <=> h * x < h * u + (v - u) * y
<1> DEFINE lower == <<u, 0>>
           upper == <<v, h>>
<1>1. lower[1] = u /\ lower[2] = 0 /\ upper[1] = v /\ upper[2] = h
  OBVIOUS
<1> HIDE DEF lower, upper
<1>2. Reading!Crosses(x, y, lower, upper) <=> (x - u) * (h - 0) < (v - u) * (y - 0)
  BY <1>1 DEF Reading!Crosses
<1>3. Reading!Crosses(x, y, upper, lower) <=> (x - v) * (0 - h) > (u - v) * (y - h)
  BY <1>1 DEF Reading!Crosses
<1>4. (x - u) * (h - 0) = h * x - h * u /\ (v - u) * (y - 0) = (v - u) * y
  OBVIOUS
<1>5. (x - v) * (0 - h) = h * v - h * x /\ (u - v) * (y - h) = -((v - u) * y) + h * v - h * u
  OBVIOUS
<1>6. h * x \in Int /\ h * u \in Int /\ h * v \in Int /\ (v - u) * y \in Int
  OBVIOUS
<1>7. Reading!Crosses(x, y, lower, upper) <=> h * x < h * u + (v - u) * y
  BY <1>2, <1>4, <1>6
<1>8. Reading!Crosses(x, y, upper, lower) <=> h * x < h * u + (v - u) * y
  BY <1>3, <1>5, <1>6
<1> QED
  BY <1>7, <1>8 DEF lower, upper

LEMMA ZonesArePartition ==
  ASSUME \A i \in DOMAIN track : track[i].x \in Xs /\ track[i].y \in Ys
  PROVE  Reading!ZonesPartition
<1>1. /\ Width \in Nat /\ Height \in Nat
      /\ Xs \subseteq 0..(Width - 1) /\ Ys \subseteq 0..(Height - 1)
  BY ConsoleAssumption DEF Reading!ReadingAssumption
<1>2. ASSUME NEW i \in DOMAIN track, NEW top \in Xs, NEW bottom \in Xs
      PROVE  LET x == track[i].x
                 y == track[i].y
                 left == << <<0, 0>>, <<top, 0>>, <<bottom, Height>>, <<0, Height>> >>
                 right == << <<top, 0>>, <<Width, 0>>, <<Width, Height>>, <<bottom, Height>> >>
                 west == Height * x < Height * top + (bottom - top) * y
             IN  /\ Reading!pointInPolygon(x, y, left) <=> west
                 /\ Reading!pointInPolygon(x, y, right) <=> ~west
  <2> DEFINE x == track[i].x
             y == track[i].y
             west == Height * x < Height * top + (bottom - top) * y
  <2>1. /\ x \in Int /\ 0 <= x /\ x < Width /\ y \in Int /\ 0 <= y /\ y < Height
        /\ top \in Int /\ bottom \in Int /\ Width \in Int /\ Height \in Int
    <3>1. x \in Xs /\ y \in Ys
      BY <1>2
    <3> HIDE DEF x, y
    <3>2. x \in 0..(Width - 1) /\ y \in 0..(Height - 1)
          /\ top \in 0..(Width - 1) /\ bottom \in 0..(Width - 1)
      BY <1>1, <1>2, <3>1
    <3> QED
      BY <1>1, <3>2
  <2> HIDE DEF x, y
  <2>2. /\ ~Reading!Crosses(x, y, <<top, 0>>, <<0, 0>>)
        /\ ~Reading!Crosses(x, y, <<0, Height>>, <<bottom, Height>>)
        /\ ~Reading!Crosses(x, y, <<Width, 0>>, <<top, 0>>)
        /\ ~Reading!Crosses(x, y, <<bottom, Height>>, <<Width, Height>>)
    BY CrossesLevel
  <2>3. ~Reading!Crosses(x, y, <<0, 0>>, <<0, Height>>)
    <3>1. Reading!Crosses(x, y, <<0, 0>>, <<0, Height>>) <=> Height * x < Height * 0 + (0 - 0) * y
      BY <2>1, CrossesAscent
    <3>2. Height * x >= 0 /\ Height * 0 + (0 - 0) * y = 0 /\ Height * x \in Int
      BY <2>1
    <3> QED
      BY <3>1, <3>2
  <2>4. Reading!Crosses(x, y, <<Width, Height>>, <<Width, 0>>)
    <3>1. Reading!Crosses(x, y, <<Width, Height>>, <<Width, 0>>)
            <=> Height * x < Height * Width + (Width - Width) * y
      BY <2>1, CrossesAscent
    <3>2. Height * x < Height * Width + (Width - Width) * y
      BY <2>1
    <3> QED
      BY <3>1, <3>2
  <2>5. /\ Reading!Crosses(x, y, <<top, 0>>, <<bottom, Height>>) <=> west
        /\ Reading!Crosses(x, y, <<bottom, Height>>, <<top, 0>>) <=> west
    BY <2>1, CrossesAscent
  <2>6. west \in BOOLEAN
    OBVIOUS
  <2> HIDE DEF west
  <2>7. Reading!pointInPolygon(x, y, << <<0, 0>>, <<top, 0>>, <<bottom, Height>>, <<0, Height>> >>)
          <=> west
    BY <2>2, <2>3, <2>5, <2>6, FourCorners
  <2>8. Reading!pointInPolygon(x, y,
            << <<top, 0>>, <<Width, 0>>, <<Width, Height>>, <<bottom, Height>> >>) <=> ~west
    BY <2>2, <2>4, <2>5, <2>6, FourCorners
  <2> QED
    BY <2>7, <2>8 DEF x, y, west
<1> QED
  BY <1>2 DEF Reading!ZonesPartition

(***************************************************************************)
(* Headings of the path                                                    *)
(***************************************************************************)
Spots == [t : Nat, x : Int, y : Int]

LEMMA HeadingProperties ==
  ASSUME NEW a, NEW b, a.x \in Int, a.y \in Int, b.x \in Int, b.y \in Int
  PROVE  /\ Reading!Heading(a, b) \in Reading!Headings
         /\ \A h \in Reading!Headings :
              Reading!Heading(b, a) = h <=> Reading!Heading(a, b) = <<-h[1], -h[2]>>
<1> DEFINE dx == b.x - a.x
           dy == a.y - b.y
           far == Reading!Greater(Reading!Abs(dx), Reading!Abs(dy))
           axis == Reading!Square(Reading!Abs(dx) + Reading!Abs(dy)) < 2 * Reading!Square(far)
           still == Reading!Square(dx) + Reading!Square(dy) < 9
           along == IF dx = 0 \/ (axis /\ Reading!Abs(dx) < far) THEN 0 ELSE IF dx > 0 THEN 1 ELSE -1
           up == IF dy = 0 \/ (axis /\ Reading!Abs(dy) < far) THEN 0 ELSE IF dy > 0 THEN 1 ELSE -1
<1>1. Reading!Heading(a, b) = IF still THEN <<0, 0>> ELSE <<along, up>>
  BY DEF Reading!Heading
<1>2. dx \in Int /\ dy \in Int /\ a.x - b.x = -dx /\ b.y - a.y = -dy
  OBVIOUS
<1>3. /\ Reading!Abs(-dx) = Reading!Abs(dx) /\ Reading!Abs(-dy) = Reading!Abs(dy)
      /\ Reading!Square(-dx) = Reading!Square(dx) /\ Reading!Square(-dy) = Reading!Square(dy)
  <2> HIDE DEF dx, dy
  <2> QED
    BY <1>2 DEF Reading!Abs, Reading!Greater, Reading!Square
<1>4. Reading!Heading(b, a) = IF still THEN <<0, 0>>
        ELSE << IF -dx = 0 \/ (axis /\ Reading!Abs(dx) < far) THEN 0 ELSE IF -dx > 0 THEN 1 ELSE -1,
                IF -dy = 0 \/ (axis /\ Reading!Abs(dy) < far) THEN 0 ELSE IF -dy > 0 THEN 1 ELSE -1 >>
  <2> HIDE DEF dx, dy
  <2> QED
    BY <1>2, <1>3 DEF Reading!Heading
<1> HIDE DEF dx, dy, far, axis, still
<1>5. Reading!Heading(b, a) = IF still THEN <<0, 0>> ELSE <<-along, -up>>
  BY <1>2, <1>4
<1>6. along \in {-1, 0, 1} /\ up \in {-1, 0, 1}
  OBVIOUS
<1> HIDE DEF along, up
<1>7. Reading!Heading(a, b) \in Reading!Headings
  BY <1>1, <1>6 DEF Reading!Headings
<1>8. ASSUME NEW h \in Reading!Headings
      PROVE  Reading!Heading(b, a) = h <=> Reading!Heading(a, b) = <<-h[1], -h[2]>>
  <2>1. h[1] \in {-1, 0, 1} /\ h[2] \in {-1, 0, 1} /\ h = <<h[1], h[2]>>
    BY DEF Reading!Headings
  <2>2. CASE still
    BY <1>1, <1>5, <2>1, <2>2
  <2>3. CASE ~still
    BY <1>1, <1>5, <1>6, <2>1, <2>3
  <2> QED
    BY <2>2, <2>3
<1> QED
  BY <1>7, <1>8

\* The elements with each value add up to all elements.
LEMMA FibresAddUp ==
  ASSUME NEW S, IsFiniteSet(S), NEW I, IsFiniteSet(I), NEW H \in [I -> S], NEW g,
         \A s \in S : g[s] = Cardinality({i \in I : H[i] = s})
  PROVE  Sum(g, S) = Cardinality(I)
<1> DEFINE over(T) == {i \in I : H[i] \in T}
           F == {T \in SUBSET S : Sum(g, T) = Cardinality(over(T))}
<1>1. ASSUME NEW T \in SUBSET S, \A U \in (SUBSET T) \ {T} : U \in F PROVE T \in F
  <2>1. IsFiniteSet(T) /\ Sum(g, {}) = 0 /\ Cardinality({}) = 0
    BY FS_Subset, FS_EmptySet, SumEquation
  <2>2. CASE T # {}
    <3> DEFINE c == Chosen(T)
               U == T \ {c}
               at == {i \in I : H[i] = c}
    <3>1. U \in F /\ c \in T /\ c \in S
      BY <1>1, <2>2, ChosenIn
    <3>2. Sum(g, T) = g[c] + Sum(g, U)
      BY <2>1, <2>2, SumEquation
    <3>3. Sum(g, U) = Cardinality(over(U)) /\ g[c] = Cardinality(at)
      BY <3>1
    <3>4. over(T) = at \cup over(U) /\ at \cap over(U) = {}
      BY <3>1
    <3>5. IsFiniteSet(at) /\ IsFiniteSet(over(U))
      BY FS_Subset
    <3> HIDE DEF at, over, c, U
    <3>6. Cardinality(at \cup over(U)) = Cardinality(at) + Cardinality(over(U)) - Cardinality(at \cap over(U))
      BY <3>5, FS_Union
    <3>7. Cardinality(at) \in Nat /\ Cardinality(over(U)) \in Nat
      BY <3>5, FS_CardinalityType
    <3>8. Cardinality(at \cap over(U)) = 0 /\ Cardinality(over(T)) = Cardinality(at \cup over(U))
      BY <2>1, <3>4
    <3>9. Sum(g, T) = Cardinality(over(T))
      BY <3>2, <3>3, <3>6, <3>7, <3>8
    <3> QED
      BY <3>9
  <2>3. CASE T = {}
    <3>1. over(T) = {}
      BY <2>3
    <3>2. Sum(g, T) = Cardinality(over(T))
      BY <2>1, <2>3, <3>1
    <3> QED
      BY <3>2
  <2> QED
    BY <2>2, <2>3
<1>2. S \in F
  <2> HIDE DEF F
  <2> QED
    BY <1>1, SubsetInduction
<1>3. over(S) = I
  OBVIOUS
<1> QED
  BY <1>2, <1>3

LEMMA HeadingsFinite == IsFiniteSet(Reading!Headings)
<1>1. IsFiniteSet({0} \cup {1})
  BY FS_Singleton, FS_Union
<1>2. IsFiniteSet(({0} \cup {1}) \cup {-1})
  BY <1>1, FS_AddElement
<1>3. IsFiniteSet({-1, 0, 1})
  <2>1. ({0} \cup {1}) \cup {-1} = {-1, 0, 1}
    OBVIOUS
  <2> QED
    BY <1>2, <2>1
<1> QED
  BY <1>3, FS_Product DEF Reading!Headings

\* The steps of a path that have a heading.
Steps(p, h) == {i \in 2..Len(p) : Reading!Heading(p[i - 1], p[i]) = h}

LEMMA HistogramIs ==
  ASSUME NEW p
  PROVE  /\ Reading!directionHistogram(p) = [h \in Reading!Headings |-> Cardinality(Steps(p, h))]
         /\ \A h \in Reading!Headings : Reading!directionHistogram(p)[h] = Cardinality(Steps(p, h))
BY SameCount DEF Reading!directionHistogram, Steps

LEMMA StepsOnTheWayBack ==
  ASSUME NEW p \in Seq(Spots), NEW h \in Reading!Headings,
         NEW q, q \in Seq(Spots), Len(q) = Len(p), \A i \in 1..Len(p) : q[i] = p[Len(p) + 1 - i]
  PROVE  Cardinality(Steps(q, h)) = Cardinality(Steps(p, <<-h[1], -h[2]>>))
<1> DEFINE n == Len(p)
           A == Steps(q, h)
           B == Steps(p, <<-h[1], -h[2]>>)
           f == [i \in A |-> n + 2 - i]
<1>1. n \in Nat
  OBVIOUS
<1>2. ASSUME NEW i \in 2..n
      PROVE  n + 2 - i \in 2..n /\ (i \in A <=> n + 2 - i \in B)
  <2>1. /\ i - 1 \in 1..n /\ i \in 1..n /\ n + 2 - i \in 2..n
        /\ n + 1 - (i - 1) = n + 2 - i /\ n + 1 - i = (n + 2 - i) - 1
        /\ n + 2 - i \in 1..n /\ n + 1 - i \in 1..n
    BY <1>1, <1>2
  <2>2. q[i - 1] = p[n + 2 - i] /\ q[i] = p[(n + 2 - i) - 1]
    BY <2>1
  <2>3. p[n + 2 - i] \in Spots /\ p[n + 1 - i] \in Spots
    BY <2>1
  <2> DEFINE a == p[n + 1 - i]
             b == p[n + 2 - i]
  <2>4. a.x \in Int /\ a.y \in Int /\ b.x \in Int /\ b.y \in Int
    BY <2>3 DEF Spots
  <2>5. q[i - 1] = b /\ q[i] = a /\ p[(n + 2 - i) - 1] = a
    BY <2>1, <2>2
  <2> HIDE DEF a, b, n
  <2>6. Reading!Heading(b, a) = h <=> Reading!Heading(a, b) = <<-h[1], -h[2]>>
    BY <2>4, HeadingProperties
  <2>7. i \in A <=> Reading!Heading(b, a) = h
    BY <1>2, <2>5 DEF Steps, n
  <2>8. n + 2 - i \in B <=> Reading!Heading(a, b) = <<-h[1], -h[2]>>
    BY <2>1, <2>5 DEF Steps, b, n
  <2> QED
    BY <2>1, <2>6, <2>7, <2>8
<1>3. A \subseteq 2..n /\ B \subseteq 2..n /\ IsFiniteSet(A)
  <2>1. A \subseteq 2..n /\ B \subseteq 2..n
    BY DEF Steps
  <2>2. IsFiniteSet(2..n)
    BY <1>1, FS_Interval
  <2> QED
    BY <2>1, <2>2, FS_Subset
<1> HIDE DEF A, B, n
<1>4. f \in [A -> B]
  BY <1>2, <1>3
<1>5. \A i, j \in A : f[i] = f[j] => i = j
  BY <1>1, <1>3
<1>6. \A j \in B : \E i \in A : f[i] = j
  <2> SUFFICES ASSUME NEW j \in B PROVE \E i \in A : f[i] = j
    OBVIOUS
  <2>1. j \in 2..n /\ n + 2 - j \in 2..n /\ n + 2 - (n + 2 - j) = j
    BY <1>1, <1>3
  <2>2. n + 2 - j \in A
    BY <1>2, <2>1
  <2> QED
    BY <2>1, <2>2
<1>7. f \in Bijection(A, B)
  BY <1>4, <1>5, <1>6 DEF Bijection, Injection, Surjection, IsInjective
<1>8. Cardinality(B) = Cardinality(A)
  BY <1>3, <1>7, FS_Bijection DEF ExistsBijection
<1> QED
  BY <1>8 DEF A, B

LEMMA PathAddsUp ==
  ASSUME track \in Seq(Spots)
  PROVE  Reading!HeadingsAddUp
<1> DEFINE n == Len(track)
           back == [i \in DOMAIN track |-> track[Len(track) + 1 - i]]
           count == Reading!directionHistogram(track)
<1>1. n \in Nat /\ DOMAIN track = 1..n /\ \A i \in 1..n : track[i] \in Spots
  OBVIOUS
<1>2. back \in Seq(Spots) /\ Len(back) = n /\ \A i \in 1..n : back[i] = track[n + 1 - i]
  <2>1. back = [i \in 1..n |-> track[n + 1 - i]]
    BY <1>1
  <2>2. \A i \in 1..n : n + 1 - i \in 1..n
    BY <1>1
  <2>3. back \in [1..n -> Spots]
    BY <1>1, <2>1, <2>2
  <2> HIDE DEF back
  <2>4. back \in Seq(Spots) /\ Len(back) = n
    BY <1>1, <2>3
  <2> QED
    BY <2>1, <2>4
<1>3. ASSUME NEW h \in Reading!Headings
      PROVE  Reading!directionHistogram(back)[h] = count[<<-h[1], -h[2]>>]
  <2>1. <<-h[1], -h[2]>> \in Reading!Headings
    BY DEF Reading!Headings
  <2>2. Cardinality(Steps(back, h)) = Cardinality(Steps(track, <<-h[1], -h[2]>>))
    <3> HIDE DEF back
    <3> QED
      BY <1>2, StepsOnTheWayBack
  <2> QED
    BY <2>1, <2>2, HistogramIs
<1>4. ASSUME track # <<>>
      PROVE  Sum(count, Reading!Headings) = n - 1
  <2> DEFINE H == [i \in 2..n |-> Reading!Heading(track[i - 1], track[i])]
  <2>1. ASSUME NEW i \in 2..n PROVE H[i] \in Reading!Headings
    <3>1. track[i - 1] \in Spots /\ track[i] \in Spots
      BY <1>1, <2>1
    <3> QED
      BY <3>1, HeadingProperties DEF Spots
  <2>2. H \in [2..n -> Reading!Headings]
    BY <2>1
  <2>3. \A h \in Reading!Headings : Steps(track, h) = {i \in 2..n : H[i] = h}
    BY DEF Steps
  <2>4. \A h \in Reading!Headings : count[h] = Cardinality({i \in 2..n : H[i] = h})
    BY <2>3, HistogramIs
  <2> HIDE DEF H, count
  <2>5. IsFiniteSet(2..n) /\ Cardinality(2..n) = n - 1
    <3>1. n >= 1
      BY <1>1, <1>4
    <3> HIDE DEF n
    <3> QED
      BY <1>1, <3>1, FS_Interval
  <2> QED
    BY <2>2, <2>4, <2>5, HeadingsFinite, FibresAddUp
<1>5. ASSUME n >= 2, 2 * count[<<0, 0>>] >= n
      PROVE  Reading!describeDirection(track, {}) = {"Stationary"}
  <2>1. count[<<0, 0>>] \in Nat
    <3>1. <<0, 0>> \in Reading!Headings
      BY DEF Reading!Headings
    <3>2. IsFiniteSet(Steps(track, <<0, 0>>))
      <4>1. IsFiniteSet(2..n) /\ Steps(track, <<0, 0>>) \subseteq 2..n
        BY <1>1, FS_Interval DEF Steps
      <4> QED
        BY <4>1, FS_Subset
    <3> QED
      BY <3>1, <3>2, HistogramIs, FS_CardinalityType
  <2> DEFINE still == count[<<0, 0>>]
  <2>2. still > n - 1 - still
    BY <1>1, <1>5, <2>1
  <2>3. /\ "toward_fence" \notin {} /\ ~(n < 2)
    BY <1>1, <1>5
  <2> QED
    BY <1>1, <1>5, <2>2, <2>3 DEF Reading!describeDirection
<1>6. Reading!SumFunction(count) = Sum(count, Reading!Headings)
  <2>1. DOMAIN count = Reading!Headings
    BY HistogramIs
  <2> QED
    BY <2>1, SumIs DEF Reading!SumFunction
<1> QED
  BY <1>3, <1>4, <1>5, <1>6 DEF Reading!HeadingsAddUp

(***************************************************************************)
(* The forecast                                                            *)
(***************************************************************************)
\* What is left of the values v, scaled by d, after the line c + m * t.
Rest(I, d, c, m, t, v) == [i \in I |-> d * v[i] - (c + m * t[i])]
Times(I, f, g) == [i \in I |-> f[i] * g[i]]

LEMMA TimesInt ==
  ASSUME NEW I, NEW f \in [I -> Int], NEW g \in [I -> Int]
  PROVE  Times(I, f, g) \in [I -> Int]
BY DEF Times

\* Sums of the rests, and of the rests times the times.
LEMMA RestSums ==
  ASSUME NEW I, IsFiniteSet(I), NEW t \in [I -> Int], NEW v \in [I -> Int],
         NEW d \in Int, NEW c \in Int, NEW m \in Int
  PROVE  LET r == Rest(I, d, c, m, t, v)
         IN  /\ Sum(r, I) = d * Sum(v, I) - c * Cardinality(I) - m * Sum(t, I)
             /\ Sum(Times(I, t, r), I)
                  = d * Sum(Times(I, t, v), I) - c * Sum(t, I) - m * Sum(Times(I, t, t), I)
<1> DEFINE r == Rest(I, d, c, m, t, v)
           one == [i \in I |-> 1]
           line == [i \in I |-> c * one[i] + m * t[i]]
           tline == [i \in I |-> c * t[i] + m * Times(I, t, t)[i]]
<1>1. /\ one \in [I -> Int] /\ Times(I, t, t) \in [I -> Int] /\ Times(I, t, v) \in [I -> Int]
      /\ r \in [I -> Int]
  BY TimesInt DEF Rest
<1>2. line \in [I -> Int] /\ tline \in [I -> Int]
  BY <1>1
<1>3. \A i \in I : r[i] = d * v[i] + (-1) * line[i]
  BY <1>1, <1>2 DEF Rest
<1>4. \A i \in I : Times(I, t, r)[i] = d * Times(I, t, v)[i] + (-1) * tline[i]
  <2> SUFFICES ASSUME NEW i \in I
               PROVE  Times(I, t, r)[i] = d * Times(I, t, v)[i] + (-1) * tline[i]
    OBVIOUS
  <2>1. t[i] \in Int /\ v[i] \in Int
    OBVIOUS
  <2>2. /\ Times(I, t, r)[i] = t[i] * (d * v[i] - (c + m * t[i]))
        /\ Times(I, t, v)[i] = t[i] * v[i]
        /\ tline[i] = c * t[i] + m * (t[i] * t[i])
    BY DEF Times, Rest
  <2>3. t[i] * (d * v[i] - (c + m * t[i]))
          = d * (t[i] * v[i]) + (-1) * (c * t[i] + m * (t[i] * t[i]))
    BY <2>1
  <2> QED
    BY <2>2, <2>3
<1>5. \A i \in I : line[i] = c * one[i] + m * t[i] /\ tline[i] = c * t[i] + m * Times(I, t, t)[i]
  OBVIOUS
<1>6. \A i \in I : one[i] = 1
  OBVIOUS
<1> HIDE DEF r, one, line, tline
<1>7. /\ \A i \in I : one[i] \in Int /\ line[i] \in Int /\ tline[i] \in Int /\ t[i] \in Int
           /\ v[i] \in Int /\ Times(I, t, t)[i] \in Int /\ Times(I, t, v)[i] \in Int
      /\ -1 \in Int
  BY <1>1, <1>2
<1>8. Sum(line, I) = c * Sum(one, I) + m * Sum(t, I)
  BY <1>5, <1>7, SumLinear
<1>9. Sum(tline, I) = c * Sum(t, I) + m * Sum(Times(I, t, t), I)
  BY <1>5, <1>7, SumLinear
<1>10. Sum(r, I) = d * Sum(v, I) + (-1) * Sum(line, I)
  BY <1>3, <1>7, SumLinear
<1>11. Sum(Times(I, t, r), I) = d * Sum(Times(I, t, v), I) + (-1) * Sum(tline, I)
  BY <1>4, <1>7, SumLinear
<1>12. Sum(one, I) = Cardinality(I) /\ Cardinality(I) \in Nat
  BY <1>6, SumOfOnes, FS_CardinalityType
<1>13. /\ Sum(t, I) \in Int /\ Sum(v, I) \in Int /\ Sum(Times(I, t, t), I) \in Int
       /\ Sum(Times(I, t, v), I) \in Int
  BY <1>7, SumIsInt
<1>14. Sum(r, I) = d * Sum(v, I) - c * Cardinality(I) - m * Sum(t, I)
  BY <1>8, <1>10, <1>12, <1>13
<1>15. Sum(Times(I, t, r), I)
         = d * Sum(Times(I, t, v), I) - c * Sum(t, I) - m * Sum(Times(I, t, t), I)
  BY <1>9, <1>11, <1>13
<1> QED
  BY <1>14, <1>15 DEF r

\* The distances of n numbers from their mean, scaled by n, squared and summed.
LEMMA Spread ==
  ASSUME NEW I, IsFiniteSet(I), NEW t \in [I -> Int]
  PROVE  LET n == Cardinality(I)
             T == Sum(t, I)
             off == Rest(I, n, T, 0, t, t)
         IN  /\ Sum(Times(I, off, off), I) = n * (n * Sum(Times(I, t, t), I) - T * T)
             /\ off \in [I -> Int]
<1> DEFINE n == Cardinality(I)
           T == Sum(t, I)
           off == Rest(I, n, T, 0, t, t)
<1>1. n \in Nat /\ T \in Int
  BY FS_CardinalityType, SumIsInt
<1> HIDE DEF n, T
<1>2. off \in [I -> Int] /\ \A i \in I : off[i] = n * t[i] - (T + 0 * t[i])
  BY <1>1 DEF Rest
<1>3. \A i \in I : Times(I, off, off)[i] = n * Times(I, t, off)[i] + (-T) * off[i]
  <2> SUFFICES ASSUME NEW i \in I
               PROVE  Times(I, off, off)[i] = n * Times(I, t, off)[i] + (-T) * off[i]
    OBVIOUS
  <2> HIDE DEF off
  <2>1. t[i] \in Int /\ off[i] = n * t[i] - T
    BY <1>1, <1>2
  <2>2. Times(I, off, off)[i] = off[i] * off[i] /\ Times(I, t, off)[i] = t[i] * off[i]
    BY DEF Times
  <2>3. (n * t[i] - T) * (n * t[i] - T) = n * (t[i] * (n * t[i] - T)) + (-T) * (n * t[i] - T)
    BY <1>1, <2>1
  <2> QED
    BY <2>1, <2>2, <2>3
<1>4. /\ Sum(off, I) = n * T - T * n - 0 * T
      /\ Sum(Times(I, t, off), I) = n * Sum(Times(I, t, t), I) - T * T - 0 * Sum(Times(I, t, t), I)
  BY <1>1, RestSums DEF n, T
<1> HIDE DEF off
<1>5. Times(I, t, off) \in [I -> Int] /\ Times(I, t, t) \in [I -> Int]
  BY <1>2, TimesInt
<1>6. Sum(Times(I, off, off), I) = n * Sum(Times(I, t, off), I) + (-T) * Sum(off, I)
  <2>1. \A i \in I : Times(I, t, off)[i] \in Int /\ off[i] \in Int
    BY <1>2, <1>5
  <2> QED
    BY <1>1, <1>3, <2>1, SumLinear
<1>7. Sum(Times(I, t, t), I) \in Int
  BY <1>5, SumIsInt
<1>8. Sum(off, I) = 0 /\ Sum(Times(I, t, off), I) = n * Sum(Times(I, t, t), I) - T * T
  BY <1>1, <1>4, <1>7
<1>9. Sum(Times(I, off, off), I) = n * (n * Sum(Times(I, t, t), I) - T * T)
  <2>1. (-T) * 0 = 0
    BY <1>1
  <2> QED
    BY <1>1, <1>6, <1>7, <1>8, <2>1
<1> QED
  BY <1>2, <1>9 DEF off, n, T

\* The rests of two lines differ by a line.
Apart(I, t, r, e, a, b) == \A i \in I : e[i] = r[i] + (a + b * t[i])

\* How the squares grow from one line to another.
LEMMA SquaresGrow ==
  ASSUME NEW I, IsFiniteSet(I), NEW t \in [I -> Int], NEW r \in [I -> Int],
         NEW a \in Int, NEW b \in Int,
         NEW e \in [I -> Int], Apart(I, t, r, e, a, b)
  PROVE  /\ \E p, q \in Int : p * Sum(r, I) + q * Sum(Times(I, t, r), I)
                                <= Sum(Times(I, e, e), I) - Sum(Times(I, r, r), I)
         /\ Sum(Times(I, e, e), I) \in Int /\ Sum(Times(I, r, r), I) \in Int
<1> DEFINE line == [i \in I |-> a + b * t[i]]
           cross == [i \in I |-> (2 * a) * r[i] + (2 * b) * Times(I, t, r)[i]]
           more == [i \in I |-> 1 * cross[i] + 1 * Times(I, line, line)[i]]
<1>1. /\ line \in [I -> Int] /\ Times(I, t, r) \in [I -> Int] /\ Times(I, r, r) \in [I -> Int]
  BY TimesInt
<1>2. \A i \in I : line[i] = a + b * t[i]
  OBVIOUS
<1> HIDE DEF line
<1>3. Times(I, line, line) \in [I -> Int] /\ cross \in [I -> Int]
  BY <1>1, TimesInt
<1>4. \A i \in I : cross[i] = (2 * a) * r[i] + (2 * b) * Times(I, t, r)[i]
  OBVIOUS
<1> HIDE DEF cross
<1>5. more \in [I -> Int] /\ \A i \in I : more[i] = 1 * cross[i] + 1 * Times(I, line, line)[i]
  BY <1>3
<1> HIDE DEF more
<1>6. \A i \in I : Times(I, e, e)[i] = 1 * Times(I, r, r)[i] + 1 * more[i]
  <2> SUFFICES ASSUME NEW i \in I
               PROVE  Times(I, e, e)[i] = 1 * Times(I, r, r)[i] + 1 * more[i]
    OBVIOUS
  <2>1. t[i] \in Int /\ r[i] \in Int /\ e[i] = r[i] + (a + b * t[i])
    BY DEF Apart
  <2>2. /\ Times(I, e, e)[i] = e[i] * e[i] /\ Times(I, r, r)[i] = r[i] * r[i]
        /\ Times(I, t, r)[i] = t[i] * r[i] /\ Times(I, line, line)[i] = line[i] * line[i]
    BY DEF Times
  <2>3. more[i] = ((2 * a) * r[i] + (2 * b) * (t[i] * r[i])) + (a + b * t[i]) * (a + b * t[i])
    <3>1. /\ cross[i] = (2 * a) * r[i] + (2 * b) * (t[i] * r[i]) /\ cross[i] \in Int
          /\ line[i] * line[i] = (a + b * t[i]) * (a + b * t[i]) /\ line[i] * line[i] \in Int
      BY <1>1, <1>2, <1>3, <1>4, <2>2
    <3> QED
      BY <1>5, <2>2, <3>1
  <2>4. (r[i] + (a + b * t[i])) * (r[i] + (a + b * t[i]))
          = r[i] * r[i] + (((2 * a) * r[i] + (2 * b) * (t[i] * r[i]))
                            + (a + b * t[i]) * (a + b * t[i]))
    BY <2>1
  <2> QED
    BY <1>1, <1>5, <2>1, <2>2, <2>3, <2>4
<1>7. /\ \A i \in I : Times(I, r, r)[i] \in Int /\ more[i] \in Int /\ r[i] \in Int
           /\ Times(I, t, r)[i] \in Int /\ cross[i] \in Int /\ Times(I, line, line)[i] \in Int
      /\ 1 \in Int /\ 2 * a \in Int /\ 2 * b \in Int
  BY <1>1, <1>3, <1>5
<1>8. Sum(Times(I, e, e), I) = 1 * Sum(Times(I, r, r), I) + 1 * Sum(more, I)
  BY <1>6, <1>7, SumLinear
<1>9. Sum(more, I) = 1 * Sum(cross, I) + 1 * Sum(Times(I, line, line), I)
  BY <1>5, <1>7, SumLinear
<1>10. \E p, q \in Int : Sum(cross, I) = p * Sum(r, I) + q * Sum(Times(I, t, r), I)
  <2> DEFINE p == 2 * a
             q == 2 * b
  <2>1. p \in Int /\ q \in Int /\ \A i \in I : cross[i] = p * r[i] + q * Times(I, t, r)[i]
    BY <1>4, <1>7
  <2> HIDE DEF p, q
  <2> DEFINE tr == Times(I, t, r)
  <2>2. \A i \in I : r[i] \in Int /\ tr[i] \in Int /\ cross[i] = p * r[i] + q * tr[i]
    BY <1>7, <2>1
  <2> HIDE DEF tr
  <2>3. Sum(cross, I) = p * Sum(r, I) + q * Sum(tr, I)
    BY <2>1, <2>2, SumLinear
  <2>4. Sum(cross, I) = p * Sum(r, I) + q * Sum(Times(I, t, r), I)
    BY <2>3 DEF tr
  <2> QED
    BY <2>1, <2>4
<1>12. Sum(Times(I, line, line), I) \in Nat
  <2>1. \A i \in I : Times(I, line, line)[i] \in Nat
    <3> SUFFICES ASSUME NEW i \in I PROVE Times(I, line, line)[i] \in Nat
      OBVIOUS
    <3>1. line[i] \in Int /\ Times(I, line, line)[i] = line[i] * line[i]
      BY <1>1 DEF Times
    <3>2. \A n \in Int : n * n \in Nat
      OBVIOUS
    <3> QED
      BY <3>1, <3>2
  <2> QED
    BY <2>1, SumIsNat
<1>13. Sum(Times(I, r, r), I) \in Int /\ Sum(cross, I) \in Int
  BY <1>7, SumIsInt
<1> DEFINE s == Sum(cross, I)
<1>14. Sum(Times(I, e, e), I) - Sum(Times(I, r, r), I) >= s /\ Sum(Times(I, e, e), I) \in Int
  BY <1>8, <1>9, <1>12, <1>13
<1>15. PICK p \in Int, q \in Int : s = p * Sum(r, I) + q * Sum(Times(I, t, r), I)
  BY <1>10
<1> HIDE DEF s
<1>16. p * Sum(r, I) + q * Sum(Times(I, t, r), I)
         <= Sum(Times(I, e, e), I) - Sum(Times(I, r, r), I)
  BY <1>14, <1>15
<1> QED
  BY <1>13, <1>14, <1>16

\* A line whose rests and whose rests times the times add up to nothing is the
\* closest of all.
LEMMA Closest ==
  ASSUME NEW I, IsFiniteSet(I), NEW t \in [I -> Int], NEW r \in [I -> Int],
         NEW a \in Int, NEW b \in Int,
         NEW e \in [I -> Int], Apart(I, t, r, e, a, b)
  PROVE  Sum(r, I) = 0 /\ Sum(Times(I, t, r), I) = 0
           => Sum(Times(I, r, r), I) <= Sum(Times(I, e, e), I)
<1> DEFINE sr == Sum(r, I)
           str == Sum(Times(I, t, r), I)
           srr == Sum(Times(I, r, r), I)
           see == Sum(Times(I, e, e), I)
<1>1. (\E p, q \in Int : p * sr + q * str <= see - srr) /\ see \in Int /\ srr \in Int
  BY SquaresGrow
<1> HIDE DEF sr, str, srr, see
<1>2. sr = 0 /\ str = 0 => srr <= see
  BY <1>1
<1> QED
  BY <1>2 DEF sr, str, srr, see

LEMMA LeastSquares ==
  ASSUME NEW I, IsFiniteSet(I), NEW t \in [I -> Int], NEW v \in [I -> Int],
         NEW last \in I, t[last] = 0
  PROVE  LET fit == Reading!linearFit(I, t, v)
             r == Rest(I, fit.den, fit.intercept, fit.slope, t, v)
         IN  /\ fit.den \in Nat \ {0} /\ fit.slope \in Int /\ fit.intercept \in Int
             /\ r \in [I -> Int] /\ Sum(r, I) = 0 /\ Sum(Times(I, t, r), I) = 0
<1> DEFINE n == Cardinality(I)
           T == Sum(t, I)
           V == Sum(v, I)
           TT == Sum(Times(I, t, t), I)
           TV == Sum(Times(I, t, v), I)
           den == n * TT - T * T
           num == n * TV - T * V
           fit == Reading!linearFit(I, t, v)
           off == Rest(I, n, T, 0, t, t)
<1>1. /\ Times(I, t, t) \in [I -> Int] /\ Times(I, t, v) \in [I -> Int]
      /\ n \in Nat /\ n # 0 /\ T \in Int /\ V \in Int /\ TT \in Int /\ TV \in Int
  <2>1. Times(I, t, t) \in [I -> Int] /\ Times(I, t, v) \in [I -> Int]
    BY TimesInt
  <2>2. n \in Nat /\ n # 0
    BY FS_CardinalityType, FS_EmptySet
  <2>3. T \in Int /\ V \in Int /\ TT \in Int /\ TV \in Int
    BY <2>1, SumIsInt
  <2> QED
    BY <2>1, <2>2, <2>3
<1>2. fit = IF den = 0 THEN [den |-> n, slope |-> 0, intercept |-> V]
            ELSE [den |-> n * den, slope |-> n * num, intercept |-> V * den - num * T]
  <2>1. /\ [i \in I |-> t[i] * t[i]] = Times(I, t, t) /\ [i \in I |-> t[i] * v[i]] = Times(I, t, v)
    BY DEF Times
  <2> QED
    BY <2>1, SumIs, SameCount DEF Reading!linearFit
<1>3. /\ Sum(Times(I, off, off), I) = n * den
      /\ off \in [I -> Int] /\ \A i \in I : Times(I, off, off)[i] = off[i] * off[i]
      /\ \A i \in I : off[i] = n * t[i] - (T + 0 * t[i])
  <2>1. Sum(Times(I, off, off), I) = n * den /\ off \in [I -> Int]
    BY Spread
  <2>2. \A i \in I : Times(I, off, off)[i] = off[i] * off[i]
    BY DEF Times
  <2>3. \A i \in I : off[i] = n * t[i] - (T + 0 * t[i])
    BY DEF Rest
  <2> QED
    BY <2>1, <2>2, <2>3
<1> HIDE DEF off, T, V, TT, TV, n
<1>4. \A i \in I : Times(I, off, off)[i] \in Nat
  <2>1. \A k \in Int : k * k \in Nat
    OBVIOUS
  <2>2. \A i \in I : off[i] \in Int
    BY <1>3
  <2> QED
    BY <1>3, <2>1, <2>2
<1>5. n * den \in Nat /\ \A i \in I : Times(I, off, off)[i] <= n * den
  BY <1>3, <1>4, SumIsNat
<1>6. den \in Nat
  <2>1. den \in Int
    BY <1>1
  <2> HIDE DEF den
  <2>2. den < 0 => n * den < 0
    BY <1>1, <2>1
  <2> QED
    BY <1>5, <2>1, <2>2
<1>7. ASSUME den = 0 PROVE T = 0 /\ TT = 0 /\ TV = 0
  <2>1. \A i \in I : off[i] = 0
    <3> SUFFICES ASSUME NEW i \in I PROVE off[i] = 0
      OBVIOUS
    <3>1. n * den = 0
      BY <1>1, <1>7
    <3>2. Times(I, off, off)[i] = 0
      BY <1>4, <1>5, <3>1
    <3>3. off[i] * off[i] = 0 /\ off[i] \in Int
      BY <1>3, <3>2
    <3> QED
      BY <3>3
  <2>2. T = 0
    <3>1. 0 = n * t[last] - (T + 0 * t[last])
      BY <1>3, <2>1
    <3> QED
      BY <1>1, <3>1
  <2>3. \A i \in I : t[i] = 0
    <3> SUFFICES ASSUME NEW i \in I PROVE t[i] = 0
      OBVIOUS
    <3>1. 0 = n * t[i] - (0 + 0 * t[i]) /\ t[i] \in Int
      BY <1>3, <2>1, <2>2
    <3>2. n * t[i] = 0
      BY <1>1, <3>1
    <3>3. \A k \in Nat : n * k >= k
      BY <1>1
    <3> DEFINE k == IF t[i] >= 0 THEN t[i] ELSE -t[i]
    <3>4. k \in Nat /\ n * k = 0
      BY <1>1, <3>1, <3>2
    <3> HIDE DEF k
    <3>5. k = 0
      BY <3>3, <3>4
    <3> QED
      BY <3>1, <3>5 DEF k
  <2>4. \A i \in I : Times(I, t, t)[i] = 0 /\ Times(I, t, v)[i] = 0
    <3>1. \A i \in I : v[i] \in Int
      OBVIOUS
    <3> QED
      BY <2>3, <3>1 DEF Times
  <2>5. TT = 0 /\ TV = 0
    BY <2>4, SumOfZeros DEF TT, TV
  <2> QED
    BY <2>2, <2>5
<1>8. ASSUME NEW d \in Int, NEW c \in Int, NEW m \in Int
      PROVE  LET r == Rest(I, d, c, m, t, v)
             IN  /\ r \in [I -> Int]
                 /\ Sum(r, I) = d * V - c * n - m * T
                 /\ Sum(Times(I, t, r), I) = d * TV - c * T - m * TT
  <2>1. Rest(I, d, c, m, t, v) \in [I -> Int]
    BY DEF Rest
  <2> QED
    BY <2>1, RestSums DEF n, T, V, TT, TV
<1>9. CASE den = 0
  <2>1. fit.den = n /\ fit.slope = 0 /\ fit.intercept = V
    BY <1>2, <1>9
  <2> HIDE DEF fit, den
  <2>2. /\ n * V - V * n - 0 * T = 0 /\ n * TV - V * T - 0 * TT = 0
    <3>1. T = 0 /\ TT = 0 /\ TV = 0
      BY <1>7, <1>9
    <3> QED
      BY <1>1, <3>1
  <2>3. /\ fit.den \in Int /\ fit.slope \in Int /\ fit.intercept \in Int
        /\ fit.den \in Nat \ {0}
        /\ fit.den * V - fit.intercept * n - fit.slope * T = 0
        /\ fit.den * TV - fit.intercept * T - fit.slope * TT = 0
    BY <1>1, <2>1, <2>2
  <2> DEFINE r == Rest(I, fit.den, fit.intercept, fit.slope, t, v)
  <2>4. r \in [I -> Int] /\ Sum(r, I) = 0 /\ Sum(Times(I, t, r), I) = 0
    <3> DEFINE d == fit.den
               c == fit.intercept
               m == fit.slope
    <3>1. /\ d \in Int /\ c \in Int /\ m \in Int
          /\ d * V - c * n - m * T = 0 /\ d * TV - c * T - m * TT = 0
      BY <2>3
    <3> HIDE DEF d, c, m
    <3>2. LET rest == Rest(I, d, c, m, t, v)
          IN  /\ rest \in [I -> Int]
              /\ Sum(rest, I) = d * V - c * n - m * T
              /\ Sum(Times(I, t, rest), I) = d * TV - c * T - m * TT
      BY <1>8, <3>1
    <3> QED
      BY <3>1, <3>2 DEF d, c, m
  <2> QED
    BY <2>3, <2>4 DEF fit
<1>10. CASE den # 0
  <2>1. fit.den = n * den /\ fit.slope = n * num /\ fit.intercept = V * den - num * T
    BY <1>2, <1>10
  <2>2. /\ (n * den) * V - (V * den - num * T) * n - (n * num) * T = 0
    <3>1. den \in Int /\ num \in Int
      BY <1>1
    <3> HIDE DEF den, num
    <3> QED
      BY <1>1, <3>1
  <2>3. (n * den) * TV - (V * den - num * T) * T - (n * num) * TT = 0
    <3>1. den \in Int /\ num \in Int
      BY <1>1
    <3>2. (n * den) * TV - (V * den - num * T) * T - (n * num) * TT
            = den * (n * TV - T * V) - num * (n * TT - T * T)
      <4> HIDE DEF den, num
      <4> QED
        BY <1>1, <3>1
    <3>3. den * (n * TV - T * V) - num * (n * TT - T * T) = den * num - num * den
      OBVIOUS
    <3>4. den * num - num * den = 0
      <4> HIDE DEF den, num
      <4> QED
        BY <3>1
    <3> QED
      BY <3>2, <3>3, <3>4
  <2>4. /\ n * den \in Nat \ {0} /\ n * num \in Int /\ V * den - num * T \in Int
    <3>1. den \in Nat /\ num \in Int
      BY <1>1, <1>6
    <3> HIDE DEF den, num
    <3> QED
      BY <1>1, <1>10, <3>1
  <2> HIDE DEF fit, den, num
  <2>5. /\ fit.den \in Int /\ fit.slope \in Int /\ fit.intercept \in Int
        /\ fit.den * V - fit.intercept * n - fit.slope * T = 0
        /\ fit.den * TV - fit.intercept * T - fit.slope * TT = 0
    BY <2>1, <2>2, <2>3, <2>4
  <2> QED
    BY <1>8, <2>1, <2>4, <2>5 DEF fit
<1> QED
  BY <1>9, <1>10

\* A fit looks at its positions only.
LEMMA FitOfWindow ==
  ASSUME NEW I, IsFiniteSet(I), NEW t, NEW v
  PROVE  Reading!linearFit(I, t, v)
           = Reading!linearFit(I, [i \in I |-> t[i]], [i \in I |-> v[i]])
<1> DEFINE tI == [i \in I |-> t[i]]
           vI == [i \in I |-> v[i]]
<1>1. \A i \in I : t[i] = tI[i] /\ v[i] = vI[i]
  OBVIOUS
<1>2. /\ [i \in I |-> t[i] * t[i]] = [i \in I |-> tI[i] * tI[i]]
      /\ [i \in I |-> t[i] * v[i]] = [i \in I |-> tI[i] * vI[i]]
  BY <1>1
<1> HIDE DEF tI, vI
<1>3. Sum(t, I) = Sum(tI, I) /\ Sum(v, I) = Sum(vI, I)
  BY <1>1, SumSame
<1>4. Reading!linearFit(I, t, v) = Reading!linearFit(I, tI, vI)
  BY <1>2, <1>3, SumIs DEF Reading!linearFit
<1> QED
  BY <1>4 DEF tI, vI

LEMMA ForecastIsClosest ==
  ASSUME track \in Seq(Spots)
  PROVE  Reading!ForecastFits
<1> DEFINE window == Reading!Recent(track)
           z == Len(track)
           v == [i \in DOMAIN track |-> track[i].x]
           fit == Reading!predictTrajectory(track, v)
           d == fit.den
           c == fit.intercept
           m == fit.slope
           ago(i) == track[z].t - track[i].t
           least == Reading!SumFunction([i \in window |->
                      Reading!Square(d * v[i] - (c - m * ago(i)))])
           other(a, b, sign) == Reading!SumFunction([i \in window |->
                      Reading!Square(d * (v[i] - (a - sign * b * ago(i))))])
<1> SUFFICES ASSUME Cardinality(window) >= 3
             PROVE  d > 0 /\ \A a, b \in Xs, sign \in {-1, 1} : least <= other(a, b, sign)
  BY SameCount DEF Reading!ForecastFits
<1> DEFINE t == [i \in window |-> track[i].t - track[z].t]
           w == [i \in window |-> track[i].x]
<1>1. /\ z \in Nat /\ DOMAIN track = 1..z /\ window \subseteq 1..z
      /\ \A i \in 1..z : track[i].t \in Int /\ track[i].x \in Int
  <2>1. z \in Nat /\ DOMAIN track = 1..z /\ \A i \in 1..z : track[i] \in Spots
    OBVIOUS
  <2> QED
    BY <2>1 DEF Spots, Reading!Recent
<1>2. IsFiniteSet(window)
  <2>1. IsFiniteSet(1..z)
    BY <1>1, FS_Interval
  <2> QED
    BY <1>1, <2>1, FS_Subset
<1>3. z \in window
  <2>1. window # {}
    <3> SUFFICES ASSUME window = {} PROVE FALSE
      OBVIOUS
    <3>1. Cardinality(window) = 0
      BY FS_EmptySet
    <3> QED
      BY <3>1
  <2>2. z \in 1..z
    BY <1>1, <2>1
  <2> QED
    BY <1>1, <2>2 DEF Reading!Recent
<1>4. /\ t \in [window -> Int] /\ w \in [window -> Int] /\ t[z] = 0
      /\ \A i \in window : t[i] = -ago(i) /\ w[i] = v[i] /\ ago(i) \in Int
  BY <1>1, <1>3
<1>5. fit = Reading!linearFit(window, t, w)
  <2> DEFINE tt == [i \in DOMAIN track |-> track[i].t - track[Len(track)].t]
  <2>1. fit = Reading!linearFit(window, tt, v)
    BY DEF Reading!predictTrajectory
  <2>2. t = [i \in window |-> tt[i]] /\ w = [i \in window |-> v[i]]
    BY <1>1
  <2> HIDE DEF tt, t, w, v, window, fit
  <2> QED
    BY <1>2, <2>1, <2>2, FitOfWindow
<1> DEFINE r == Rest(window, d, c, m, t, w)
<1> HIDE DEF t, w, window, fit
<1>6. /\ d \in Nat \ {0} /\ c \in Int /\ m \in Int /\ r \in [window -> Int]
      /\ Sum(r, window) = 0 /\ Sum(Times(window, t, r), window) = 0
  BY <1>2, <1>3, <1>4, <1>5, LeastSquares
<1> HIDE DEF d, c, m, ago, v
<1>7. least = Sum(Times(window, r, r), window)
  <2>1. \A i \in window : r[i] = d * v[i] - (c - m * ago(i))
    <3> SUFFICES ASSUME NEW i \in window PROVE r[i] = d * v[i] - (c - m * ago(i))
      OBVIOUS
    <3>1. r[i] = d * w[i] - (c + m * t[i])
      BY DEF Rest
    <3>2. t[i] = -ago(i) /\ ago(i) \in Int /\ w[i] = v[i] /\ v[i] \in Int
      BY <1>4
    <3>3. c + m * (-ago(i)) = c - m * ago(i)
      BY <1>6, <3>2
    <3> QED
      BY <3>1, <3>2, <3>3
  <2> HIDE DEF r
  <2>2. [i \in window |-> Reading!Square(d * v[i] - (c - m * ago(i)))] = Times(window, r, r)
    BY <2>1 DEF Times, Reading!Square
  <2>3. DOMAIN Times(window, r, r) = window
    BY DEF Times
  <2> QED
    BY <2>2, <2>3, SumIs DEF Reading!SumFunction
<1>8. ASSUME NEW a \in Xs, NEW b \in Xs, NEW sign \in {-1, 1}
      PROVE  Sum(Times(window, r, r), window) <= other(a, b, sign)
  <2> DEFINE e == [i \in window |-> d * (v[i] - (a - sign * b * ago(i)))]
             p == c - d * a
             q == m - d * (sign * b)
  <2>1. a \in Int /\ b \in Int /\ sign \in Int /\ sign * b \in Int
    <3>1. Xs \subseteq 0..(Width - 1) /\ Width \in Nat
      BY ConsoleAssumption DEF Reading!ReadingAssumption
    <3>2. a \in 0..(Width - 1) /\ b \in 0..(Width - 1)
      BY <3>1
    <3> QED
      BY <3>1, <3>2
  <2>2. p \in Int /\ q \in Int
    BY <1>6, <2>1
  <2>3. \A i \in window : v[i] \in Int /\ ago(i) \in Int /\ w[i] = v[i] /\ t[i] = -ago(i)
    BY <1>4
  <2>4. e \in [window -> Int]
    BY <1>6, <2>1, <2>3
  <2>5. \A i \in window : e[i] = r[i] + (p + q * t[i])
    <3> SUFFICES ASSUME NEW i \in window PROVE e[i] = r[i] + (p + q * t[i])
      OBVIOUS
    <3> DEFINE x == v[i]
               g == ago(i)
               s == sign * b
    <3>1. x \in Int /\ g \in Int /\ s \in Int /\ a \in Int /\ d \in Int /\ c \in Int /\ m \in Int
      BY <1>6, <2>1, <2>3
    <3>2. r[i] = d * x - (c + m * (-g)) /\ e[i] = d * (x - (a - s * g))
          /\ p + q * t[i] = (c - d * a) + (m - d * s) * (-g)
      BY <2>3 DEF Rest
    <3> HIDE DEF x, g, s
    <3>3. d * (x - (a - s * g)) = (d * x - (c + m * (-g))) + ((c - d * a) + (m - d * s) * (-g))
      BY <3>1
    <3> QED
      BY <3>2, <3>3
  <2> HIDE DEF e, p, q, r
  <2>6. Apart(window, t, r, e, p, q)
    BY <2>5 DEF Apart
  <2>7. Sum(Times(window, r, r), window) <= Sum(Times(window, e, e), window)
    BY <1>2, <1>4, <1>6, <2>2, <2>4, <2>6, Closest
  <2>8. [i \in window |-> Reading!Square(d * (v[i] - (a - sign * b * ago(i))))]
          = Times(window, e, e)
    BY DEF Times, e, Reading!Square
  <2>9. DOMAIN Times(window, e, e) = window
    BY DEF Times
  <2> QED
    BY <2>7, <2>8, <2>9, SumIs DEF Reading!SumFunction
<1> HIDE DEF least, other
<1> QED
  BY <1>6, <1>7, <1>8

(***************************************************************************)
(* The same person on two cameras                                          *)
(***************************************************************************)
\* Times of a sighting are in order.
Orderly(e) == e.first \in Nat /\ e.last \in Nat /\ e.first <= e.last

LEMMA GapProperties ==
  ASSUME NEW a, NEW b, Orderly(a), Orderly(b)
  PROVE  Reading!gap(a, b) \in Nat /\ Reading!gap(a, b) = Reading!gap(b, a)
<1>1. a.first \in Nat /\ a.last \in Nat /\ b.first \in Nat /\ b.last \in Nat
      /\ a.first <= a.last /\ b.first <= b.last
  BY DEF Orderly
<1>2. CASE b.first >= a.last
  BY <1>1, <1>2 DEF Reading!gap
<1>3. CASE b.first < a.last /\ b.last <= a.first
  BY <1>1, <1>3 DEF Reading!gap
<1>4. CASE b.first < a.last /\ b.last > a.first
  BY <1>1, <1>4 DEF Reading!gap
<1> QED
  BY <1>1, <1>2, <1>3, <1>4

\* The score as a function of the gap and of what the sightings have in common.
Scored(g, likely, both) ==
  LET near == 100 * (300 - g)
      class == IF likely THEN near ELSE (near * 4) \div 10
  IN  ((IF both THEN Reading!Lesser(30000, class + 3000) ELSE class) * 8) \div 10

LEMMA HandoverIs ==
  ASSUME NEW a, NEW b
  PROVE  Reading!Handover(a, b)
           = Scored(Reading!gap(a, b), a.class = b.class, a.elevated /\ b.elevated)
BY DEF Reading!Handover, Scored

LEMMA ScoredProperties ==
  ASSUME NEW g \in Nat, NEW h \in Nat, h <= g, g <= 300,
         NEW likely \in BOOLEAN, NEW both \in BOOLEAN
  PROVE  /\ Scored(g, likely, both) \in Nat /\ Scored(g, likely, both) <= 24000
         /\ Scored(g, likely, both) <= Scored(h, likely, both)
<1> DEFINE class(n) == IF likely THEN 100 * (300 - n) ELSE ((100 * (300 - n)) * 4) \div 10
           total(n) == IF both THEN Reading!Lesser(30000, n + 3000) ELSE n
<1>1. /\ class(g) \in Nat /\ class(h) \in Nat
      /\ class(g) <= 30000 /\ class(h) <= 30000 /\ class(g) <= class(h)
  <2>1. CASE likely
    BY <2>1
  <2>2. CASE ~likely
    BY <2>2
  <2> QED
    BY <2>1, <2>2
<1>2. /\ Scored(g, likely, both) = (total(class(g)) * 8) \div 10
      /\ Scored(h, likely, both) = (total(class(h)) * 8) \div 10
  BY DEF Scored
<1> HIDE DEF class
<1>3. /\ total(class(g)) \in Nat /\ total(class(h)) \in Nat
      /\ total(class(g)) <= 30000 /\ total(class(g)) <= total(class(h))
  BY <1>1 DEF Reading!Lesser
<1> HIDE DEF total
<1> QED
  BY <1>2, <1>3

LEMMA SightingsAreRanked ==
  ASSUME sightings \in [reference : Reading!Sightings, other : Reading!Sightings],
         Orderly(sightings.reference), Orderly(sightings.other)
  PROVE  Reading!SightingsRanked
<1> DEFINE a == sightings.reference
           b == sightings.other
<1>0. /\ a \in Reading!Sightings /\ b \in Reading!Sightings /\ Orderly(a) /\ Orderly(b)
      /\ Instants \subseteq Nat
  BY ConsoleAssumption DEF Reading!ReadingAssumption
<1> HIDE DEF a, b
<1>1. a.elevated \in BOOLEAN /\ b.elevated \in BOOLEAN
  BY <1>0 DEF Reading!Sightings
<1>2. Reading!gap(a, b) \in Nat /\ Reading!gap(a, b) = Reading!gap(b, a)
  BY <1>0, GapProperties
<1>3. Reading!correlateTracks(a, b) = Reading!correlateTracks(b, a)
  <2>1. Reading!Handover(a, b) = Reading!Handover(b, a)
    <3>1. (a.class = b.class) = (b.class = a.class)
          /\ (a.elevated /\ b.elevated) = (b.elevated /\ a.elevated)
      BY <1>1
    <3> QED
      BY <1>2, <3>1, HandoverIs
  <2> QED
    BY <1>2, <2>1 DEF Reading!correlateTracks
<1>4. ASSUME a.camera # b.camera, a.uuid # b.uuid \/ a.uuid = "none",
             NEW c, c.camera = b.camera, c.uuid = b.uuid, Orderly(c)
      PROVE  Reading!correlateTracks(a, c) = IF Reading!gap(a, c) > 300 THEN 0 ELSE Reading!Handover(a, c)
  BY <1>4 DEF Reading!correlateTracks
<1>5. ASSUME NEW c, Orderly(c), Reading!gap(a, c) <= 300
      PROVE  Reading!Handover(a, c) \in Nat /\ Reading!Handover(a, c) <= 24000
  <2>1. Reading!gap(a, c) \in Nat
    BY <1>0, <1>5, GapProperties
  <2> DEFINE likely == a.class = c.class
             both == a.elevated /\ c.elevated
             g == Reading!gap(a, c)
  <2>2. likely \in BOOLEAN /\ both \in BOOLEAN
    OBVIOUS
  <2>3. Reading!Handover(a, c) = Scored(g, likely, both)
    BY HandoverIs
  <2>4. g \in Nat /\ g <= g /\ g <= 300
    BY <1>5, <2>1
  <2> HIDE DEF likely, both, g
  <2>5. Scored(g, likely, both) \in Nat /\ Scored(g, likely, both) <= 24000
    BY <2>2, <2>4, ScoredProperties
  <2> QED
    BY <2>3, <2>5
<1>6. ASSUME a.camera # b.camera, a.uuid # b.uuid \/ a.uuid = "none"
      PROVE  /\ Reading!correlateTracks(a, b) <= 24000
             /\ Reading!correlateTracks(a, b) # 0 => Reading!gap(a, b) <= 300
  <2>1. Reading!correlateTracks(a, b)
          = IF Reading!gap(a, b) > 300 THEN 0 ELSE Reading!Handover(a, b)
    BY <1>0, <1>4, <1>6
  <2> QED
    BY <1>0, <1>2, <1>5, <2>1
<1>7. ASSUME a.camera # b.camera, a.uuid # b.uuid \/ a.uuid = "none",
             NEW e \in Instants, e >= b.first,
             Reading!gap(a, [b EXCEPT !.last = e]) < Reading!gap(a, b)
      PROVE  Reading!correlateTracks(a, [b EXCEPT !.last = e]) >= Reading!correlateTracks(a, b)
  <2> DEFINE c == [b EXCEPT !.last = e]
  <2>1. /\ c.camera = b.camera /\ c.uuid = b.uuid /\ c.class = b.class /\ c.elevated = b.elevated
        /\ Orderly(c)
    BY <1>0, <1>7 DEF Orderly, Reading!Sightings
  <2>2. Reading!gap(a, c) < Reading!gap(a, b)
    BY <1>7
  <2> HIDE DEF c
  <2>3. Reading!correlateTracks(a, c) >= Reading!correlateTracks(a, b)
    <3>1. Reading!correlateTracks(a, b)
            = IF Reading!gap(a, b) > 300 THEN 0 ELSE Reading!Handover(a, b)
      BY <1>0, <1>4, <1>7
    <3>2. Reading!correlateTracks(a, c)
            = IF Reading!gap(a, c) > 300 THEN 0 ELSE Reading!Handover(a, c)
      BY <1>4, <1>7, <2>1
    <3>3. Reading!gap(a, c) \in Nat
      BY <1>0, <2>1, GapProperties
    <3>4. CASE Reading!gap(a, b) > 300
      <4>1. Reading!gap(a, c) <= 300 => Reading!Handover(a, c) \in Nat
        BY <1>5, <2>1
      <4> QED
        BY <3>1, <3>2, <3>3, <3>4, <4>1
    <3>5. CASE Reading!gap(a, b) <= 300
      <4>1. Reading!gap(a, c) <= Reading!gap(a, b)
        BY <1>2, <2>2, <3>3
      <4> DEFINE likely == a.class = b.class
                 both == a.elevated /\ b.elevated
      <4>2. /\ Reading!Handover(a, b) = Scored(Reading!gap(a, b), likely, both)
            /\ Reading!Handover(a, c) = Scored(Reading!gap(a, c), likely, both)
        BY <2>1, HandoverIs
      <4>3. likely \in BOOLEAN /\ both \in BOOLEAN
        OBVIOUS
      <4> HIDE DEF likely, both
      <4>4. Scored(Reading!gap(a, b), likely, both) <= Scored(Reading!gap(a, c), likely, both)
        BY <1>2, <3>3, <3>5, <4>1, <4>3, ScoredProperties
      <4>5. Reading!Handover(a, b) \in Nat /\ Reading!Handover(a, c) \in Nat
        BY <1>0, <1>2, <1>5, <2>1, <3>3, <3>5, <4>1
      <4>6. Reading!Handover(a, c) >= Reading!Handover(a, b)
        BY <4>2, <4>4, <4>5
      <4> QED
        BY <1>2, <2>2, <3>1, <3>2, <3>3, <3>5, <4>6
    <3> QED
      BY <1>2, <3>4, <3>5
  <2> QED
    BY <2>3 DEF c
<1> QED
  BY <1>3, <1>6, <1>7 DEF a, b, Reading!SightingsRanked

(***************************************************************************)
(* The dialogs that explain an alert                                       *)
(***************************************************************************)
Position == [t : Nat, x : Xs, y : Ys]

ReadingTypes ==
  /\ reading \in {"risk", "path", "sightings"}
  /\ risk \in [factors : SUBSET DOMAIN Reading!Points, bonus : Reading!Bonuses, night : BOOLEAN]
  /\ track \in Seq(Position) /\ Len(track) <= MaxPoints
  /\ sightings \in [reference : Reading!Sightings, other : Reading!Sightings]

LEMMA ReadingTypesAre == ReadingTypes => Reading!ReadingTypeOK
<1> SUFFICES ASSUME ReadingTypes PROVE Reading!ReadingTypeOK
  OBVIOUS
<1>1. ASSUME NEW i \in DOMAIN track PROVE track[i] \in Position
  BY <1>1 DEF ReadingTypes
<1> QED
  BY <1>1 DEF ReadingTypes, Position, Reading!ReadingTypeOK

LEMMA OnceIsASighting == Reading!Once \in Reading!Sightings /\ Reading!Seen(Reading!Once)
<1>1. PICK i \in Instants : TRUE
  BY ConsoleAssumption DEF Reading!ReadingAssumption
<1> DEFINE e == [camera |-> "C1", track |-> 1, uuid |-> "none", class |-> "person",
                 elevated |-> FALSE, first |-> i, last |-> i]
<1>2. e \in Reading!Sightings /\ e.camera = "C1" /\ e.track = 1 /\ Reading!Seen(e)
  BY DEF Reading!Sightings, Reading!Seen
<1> HIDE DEF e
<1> QED
  BY <1>2 DEF Reading!Once

LEMMA ReadingTypesStart == Reading!ReadingInit => ReadingTypes
<1> SUFFICES ASSUME Reading!ReadingInit PROVE ReadingTypes
  OBVIOUS
<1>1. track \in Seq(Position) /\ Len(track) <= MaxPoints
  BY ConsoleAssumption DEF Reading!ReadingAssumption, Reading!ReadingInit
<1>2. Reading!NoRisk \in [factors : SUBSET DOMAIN Reading!Points, bonus : Reading!Bonuses,
                          night : BOOLEAN]
  BY DEF Reading!NoRisk, Reading!Bonuses
<1>3. reading \in {"risk", "path", "sightings"}
  BY DEF Reading!ReadingInit
<1>4. risk \in [factors : SUBSET DOMAIN Reading!Points, bonus : Reading!Bonuses,
                night : BOOLEAN]
  BY <1>2 DEF Reading!ReadingInit
<1>5. sightings \in [reference : Reading!Sightings, other : Reading!Sightings]
  BY OnceIsASighting DEF Reading!ReadingInit
<1> QED
  BY <1>1, <1>3, <1>4, <1>5 DEF ReadingTypes

LEMMA ReadingTypesKept ==
  ASSUME ReadingTypes, Reading!ReadingNext
  PROVE  ReadingTypes'
<1>1. CASE Reading!FactorRecorded
  <2>1. risk' \in [factors : SUBSET DOMAIN Reading!Points, bonus : Reading!Bonuses,
                   night : BOOLEAN]
    BY <1>1 DEF ReadingTypes, Reading!FactorRecorded
  <2> QED
    BY <1>1, <2>1 DEF ReadingTypes, Reading!FactorRecorded
<1>2. CASE Reading!PositionAdded
  <2>1. PICK x \in Xs, y \in Ys, dt \in Gaps :
          track' = Append(track, [t |-> IF track = <<>> THEN 0 ELSE track[Len(track)].t + dt,
                                  x |-> x, y |-> y])
    BY <1>2 DEF Reading!PositionAdded
  <2> DEFINE p == [t |-> IF track = <<>> THEN 0 ELSE track[Len(track)].t + dt, x |-> x, y |-> y]
  <2>2. track # <<>> => track[Len(track)].t \in Nat
    <3>1. track # <<>> => track[Len(track)] \in Position
      BY DEF ReadingTypes
    <3> QED
      BY <3>1 DEF Position
  <2>3. dt \in Nat /\ MaxPoints \in Nat
    BY ConsoleAssumption DEF Reading!ReadingAssumption
  <2>4. p \in Position
    BY <2>2, <2>3 DEF Position
  <2>5. track' = Append(track, p)
    BY <2>1
  <2> HIDE DEF p
  <2>6. track' \in Seq(Position) /\ Len(track') = Len(track) + 1
    BY <2>4, <2>5 DEF ReadingTypes
  <2>7. Len(track') <= MaxPoints
    BY <1>2, <2>3, <2>6 DEF ReadingTypes, Reading!PositionAdded
  <2> QED
    BY <1>2, <2>6, <2>7 DEF ReadingTypes, Reading!PositionAdded
<1>3. CASE Reading!SightingGrows
  <2>1. PICK e \in {"reference", "other"}, i \in Instants :
          sightings' = [sightings EXCEPT ![e].last = i]
    BY <1>3 DEF Reading!SightingGrows
  <2>2. sightings[e] \in Reading!Sightings
    BY DEF ReadingTypes
  <2>3. [sightings[e] EXCEPT !.last = i] \in Reading!Sightings
    BY <2>2 DEF Reading!Sightings
  <2>4. sightings' \in [reference : Reading!Sightings, other : Reading!Sightings]
    BY <2>1, <2>3 DEF ReadingTypes
  <2> QED
    BY <1>3, <2>4 DEF ReadingTypes, Reading!SightingGrows
<1> QED
  BY <1>1, <1>2, <1>3 DEF Reading!ReadingNext

(***************************************************************************)
(* All dialogs                                                             *)
(***************************************************************************)
ReadingInv ==
  /\ ReadingTypes
  /\ Orderly(sightings.reference) /\ Orderly(sightings.other)

LEMMA SightingTimes ==
  ASSUME NEW e \in Reading!Sightings
  PROVE  e.first \in Nat /\ e.last \in Nat
BY ConsoleAssumption DEF Reading!ReadingAssumption, Reading!Sightings

LEMMA ReadingInvStarts == ConsoleInit => ReadingInv
<1> SUFFICES ASSUME ConsoleInit PROVE ReadingInv
  OBVIOUS
<1>1. Reading!ReadingInit
  BY DEF ConsoleInit
<1>2. ReadingTypes
  BY <1>1, ReadingTypesStart
<1>3. Reading!Once \in Reading!Sightings /\ Reading!Seen(Reading!Once)
  BY OnceIsASighting
<1>4. PICK a \in Reading!Sightings, b \in Reading!Sightings :
        Reading!Seen(a) /\ Reading!Seen(b) /\ sightings = [reference |-> a, other |-> b]
  BY <1>1, <1>3 DEF Reading!ReadingInit
<1>5. Orderly(a) /\ Orderly(b)
  BY <1>4, SightingTimes DEF Orderly, Reading!Seen
<1> QED
  BY <1>2, <1>4, <1>5 DEF ReadingInv

LEMMA ReadingInvKept == ReadingInv /\ [ConsoleNext]_consoleVars => ReadingInv'
<1> SUFFICES ASSUME ReadingInv, [ConsoleNext]_consoleVars PROVE ReadingInv'
  OBVIOUS
<1>1. CASE UNCHANGED readingVars
  BY <1>1 DEF readingVars, ReadingInv, ReadingTypes
<1>2. CASE Reading!ReadingNext
  <2>1. ReadingTypes'
    BY <1>2, ReadingTypesKept DEF ReadingInv
  <2>2. CASE UNCHANGED sightings
    BY <2>1, <2>2 DEF ReadingInv
  <2>3. CASE Reading!SightingGrows
    <3>1. PICK e \in {"reference", "other"}, i \in Instants :
            i > sightings[e].last /\ sightings' = [sightings EXCEPT ![e].last = i]
      BY <2>3 DEF Reading!SightingGrows
    <3>2. sightings[e] \in Reading!Sightings /\ i \in Nat /\ Orderly(sightings[e])
      BY <3>1, ConsoleAssumption DEF ReadingInv, ReadingTypes, Reading!ReadingAssumption
    <3>3. Orderly([sightings[e] EXCEPT !.last = i])
      BY <3>1, <3>2 DEF Orderly, Reading!Sightings
    <3>4. sightings' = [sightings EXCEPT ![e] = [sightings[e] EXCEPT !.last = i]]
      BY <3>1
    <3> DEFINE longer == [sightings[e] EXCEPT !.last = i]
    <3> HIDE DEF longer
    <3>5. /\ sightings'.reference \in {sightings.reference, longer}
          /\ sightings'.other \in {sightings.other, longer}
      BY <3>4 DEF longer, ReadingInv, ReadingTypes
    <3> QED
      BY <2>1, <3>3, <3>5 DEF longer, ReadingInv
  <2> QED
    BY <1>2, <2>2, <2>3 DEF Reading!ReadingNext, Reading!FactorRecorded, Reading!PositionAdded
<1> QED
  BY <1>1, <1>2, OnePartMoves

LEMMA ReadingsSoundHolds == ReadingInv => ReadingsSound
<1> SUFFICES ASSUME ReadingInv PROVE ReadingsSound
  OBVIOUS
<1>1. Reading!RiskExplained
  BY RiskIsExplained DEF ReadingInv, ReadingTypes, Risks
<1>2. track \in Seq(Position) /\ Xs \subseteq Int /\ Ys \subseteq Int
  BY ConsoleAssumption DEF ReadingInv, ReadingTypes, Reading!ReadingAssumption
<1>3. \A i \in DOMAIN track : track[i] \in Position
  BY <1>2
<1>4. track \in Seq(Spots)
  <2>1. Position \subseteq Spots
    BY <1>2 DEF Position, Spots
  <2> QED
    BY <1>2, <1>3, <2>1
<1>5. Reading!HeadingsAddUp /\ Reading!ForecastFits
  BY <1>4, PathAddsUp, ForecastIsClosest
<1>6. Reading!ZonesPartition
  BY <1>3, ZonesArePartition DEF Position
<1>7. Reading!SightingsRanked
  BY SightingsAreRanked DEF ReadingInv, ReadingTypes
<1> QED
  BY <1>1, <1>5, <1>6, <1>7 DEF ReadingsSound, Reading!ReadingsSound

\* What the dialogs say of a track follows from its data, whatever they are: the
\* score is explained by its factors up to a rounding, the headings add up, no
\* line fits the path better than the forecast, adjoining zones share no position,
\* and two tracks are found from either side.
THEOREM ReadingsStaySound == ConsoleSpec => []ReadingsSound
<1>1. ReadingInv => ReadingsSound
  BY ReadingsSoundHolds
<1> QED
  BY <1>1, ReadingInvStarts, ReadingInvKept, PTL DEF ConsoleSpec
=============================================================================
