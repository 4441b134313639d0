------------------------------ MODULE FileUpload ------------------------------
(* An upload of the web client's file panel (src/webclient/src/ui/file-panel.ts):
   uploadFiles is one loop that announces a file, waits for the go-ahead, reads
   a block, hands it to the worker, waits for its word that it was sent, and so
   on; the go-ahead comes from the remote device or, when the target exists
   there, from the user.  The loop waits on a resolver the event handlers call,
   so a step that forgot one would leave it waiting for ever.

   Abstracted: a file is `UpBlocks` blocks; a resolver is the place the loop
   waits at; the worker passes commands on in order. *)
EXTENDS Integers, Sequences, SequencesExt, FiniteSets

CONSTANTS UpMaxFiles, UpBlocks

ASSUME UploadAssumption == UpMaxFiles \in Nat \ {0} /\ UpBlocks \in Nat \ {0}

VARIABLES
    upFiles,   \* the files of the transfer are 1 .. upFiles
    upStatus,  \* job.status
    upPolicy,  \* job.policy: "ask", or the answer given for all files
    channel,   \* the file connection is up
    file,      \* the file the loop is at
    at,        \* "confirming", "reading" a block, "sending" it, "pausing", "left" the loop
    offset,    \* blocks of the file sent
    questions, \* files the user is asked about
    upSkipped, \* files the user left out
    upWorker,  \* commands the worker has not handled
    upFar,     \* what the device has not received
    upPage,    \* events the page has not handled
    far        \* the device: "taking" files, having `got` blocks of each, "over" or "done"

loopVars == <<file, at, offset>>
upVars == <<upFiles, upStatus, upPolicy, channel, loopVars, questions, upSkipped,
            upWorker, upFar, upPage, far>>

UpFiles == 1 .. upFiles
M(k, f) == [k |-> k, f |-> f, n |-> 0]
JobStopped(status) == status \in {"cancelled", "error"} \/ ~channel
Post(msgs) == upWorker' = IF channel THEN upWorker \o msgs ELSE upWorker
-----------------------------------------------------------------------------
(* The loop of uploadFiles. *)

\* From here to the next await, with n blocks of the file sent and `first`
\* posted before: more of the file is read, unless the job was stopped; or its
\* end is marked, stopped or not, and the next file is announced, or the end.
GoOn(n, status, first) ==
    IF n < UpBlocks
    THEN /\ at' = IF JobStopped(status) THEN "left" ELSE "reading"
         /\ offset' = n
         /\ UNCHANGED file
         /\ Post(first)
    ELSE LET next == IF JobStopped(status) THEN <<>>
                     ELSE IF file = upFiles THEN <<M("done", 0)>> ELSE <<M("digest", file + 1)>>
         IN /\ at' = IF JobStopped(status) \/ file = upFiles THEN "left" ELSE "confirming"
            /\ file' = IF at' = "left" THEN file ELSE file + 1
            /\ offset' = 0
            /\ Post(first \o <<M("eof", file)>> \o next)

\* A skipped file is passed over.
PassOver(first) ==
    /\ at' = IF file = upFiles THEN "left" ELSE "confirming"
    /\ file' = IF at' = "left" THEN file ELSE file + 1
    /\ offset' = 0
    /\ Post(first \o IF file = upFiles THEN <<M("done", 0)>> ELSE <<M("digest", file + 1)>>)

\* Mutant: where the device wants the file to go on is not looked at.
ConfirmedFromStart(skip, n, first) ==
    IF at # "confirming" THEN Post(first) /\ UNCHANGED loopVars
    ELSE IF JobStopped(upStatus) THEN at' = "left" /\ Post(first) /\ UNCHANGED <<file, offset>>
    ELSE IF skip THEN PassOver(first)
    ELSE GoOn(0, upStatus, first)

\* The go-ahead reaches the loop, if it waits for one.
Confirmed(skip, n, first) ==
    IF at # "confirming" THEN Post(first) /\ UNCHANGED loopVars
    ELSE IF JobStopped(upStatus) THEN at' = "left" /\ Post(first) /\ UNCHANGED <<file, offset>>
    ELSE IF skip THEN PassOver(first)
    ELSE GoOn(n, upStatus, first)

\* The job is stopped: whatever the loop waits for, it is woken.
StopJob(status, first) ==
    /\ upStatus' = status
    /\ IF at = "confirming" THEN at' = "left" /\ Post(first) /\ UNCHANGED <<file, offset>>
       ELSE IF at = "sending" THEN GoOn(offset + 1, status, first)
       ELSE Post(first) /\ UNCHANGED loopVars

\* file.slice answers: the block is posted without another look at the job.
ReadBlock ==
    /\ at = "reading"
    /\ at' = "sending"
    /\ Post(<<M("block", file)>>)
    /\ UNCHANGED <<upFiles, upStatus, upPolicy, channel, file, offset, questions, upSkipped,
                   upFar, upPage, far>>

ReadFails ==
    /\ at = "reading"
    /\ at' = "left"
    /\ IF JobStopped(upStatus)
       THEN UNCHANGED <<upStatus, upWorker>>
       ELSE upStatus' = "error" /\ Post(<<M("error", 0)>>)
    /\ UNCHANGED <<upFiles, upPolicy, channel, file, offset, questions, upSkipped, upFar, upPage, far>>

\* The pause for a deep backlog of the socket is over.
Resume ==
    /\ at = "pausing"
    /\ GoOn(offset, upStatus, <<>>)
    /\ UNCHANGED <<upFiles, upStatus, upPolicy, channel, questions, upSkipped, upFar, upPage, far>>
-----------------------------------------------------------------------------
(* What else the page does. *)

Answer(f, decision) ==
    /\ upSkipped' = IF decision = "skip" THEN upSkipped \cup {f} ELSE upSkipped
    /\ Confirmed(decision = "skip", 0, <<M(decision, f)>>)

PageReceives ==
    /\ upPage # <<>>
    /\ upPage' = Tail(upPage)
    /\ LET m == Head(upPage) IN
       \/ /\ m.k = "confirm"
          /\ Confirmed(FALSE, m.n, <<>>)
          /\ UNCHANGED <<upStatus, questions, upSkipped>>
       \/ /\ m.k = "digest"
          /\ IF upPolicy = "ask"
             THEN /\ questions' = questions \cup {m.f}
                  /\ UNCHANGED <<loopVars, upSkipped, upWorker>>
             ELSE Answer(m.f, upPolicy) /\ UNCHANGED questions
          /\ UNCHANGED upStatus
       \/ /\ m.k = "sent"
          /\ \/ at = "sending" /\ GoOn(offset + 1, upStatus, <<>>)
             \/ /\ at = "sending"
                /\ at' = "pausing" /\ offset' = offset + 1
                /\ UNCHANGED <<file, upWorker>>
             \/ at # "sending" /\ UNCHANGED <<loopVars, upWorker>>
          /\ UNCHANGED <<upStatus, questions, upSkipped>>
       \/ /\ m.k = "done"
          /\ upStatus' = IF upStatus = "running" THEN "done" ELSE upStatus
          /\ UNCHANGED <<loopVars, upWorker, questions, upSkipped>>
       \/ /\ m.k = "skipped"
          /\ upStatus' = "done"
          /\ UNCHANGED <<loopVars, upWorker, questions, upSkipped>>
       \/ /\ m.k = "error"
          /\ StopJob("error", <<>>)
          /\ UNCHANGED <<questions, upSkipped>>
    /\ UNCHANGED <<upFiles, upPolicy, channel, upFar, far>>

\* The user answers whether to replace a file of the device, for it or for all.
UserAnswers(f, decision, applyAll) ==
    /\ f \in questions
    /\ questions' = questions \ {f}
    /\ upPolicy' = IF applyAll THEN decision ELSE upPolicy
    /\ Answer(f, decision)
    /\ UNCHANGED <<upFiles, upStatus, channel, upFar, upPage, far>>

\* cancelJob, by its button or as the answer to a question.
UpCancel(answering) ==
    /\ upStatus \notin {"done", "cancelled"}
    /\ questions' = questions \ answering
    /\ StopJob("cancelled", <<M("cancel", 0)>>)
    /\ UNCHANGED <<upFiles, upPolicy, channel, upSkipped, upFar, upPage, far>>

\* teardown, when the file connection is lost.  A loop that is reading then
\* hands its block to nobody.
UpChannelLost ==
    /\ channel
    /\ channel' = FALSE
    /\ upStatus' = IF upStatus = "running" THEN "error" ELSE upStatus
    /\ at' = IF upStatus = "running" /\ at \in {"confirming", "sending"} THEN "left" ELSE at
    /\ upWorker' = <<>> /\ upFar' = <<>> /\ upPage' = <<>>
    /\ UNCHANGED <<upFiles, upPolicy, file, offset, questions, upSkipped, far>>
-----------------------------------------------------------------------------
(* The worker passes commands on, in order. *)

\* Mutant: the page hears nothing of a block.
WorkerSendsOnly ==
    /\ upWorker # <<>>
    /\ upWorker' = Tail(upWorker)
    /\ upFar' = Append(upFar, Head(upWorker))
    /\ UNCHANGED <<upFiles, upStatus, upPolicy, channel, loopVars, questions, upSkipped, upPage, far>>

\* A block, or the end of a file, is acknowledged to the page once it is sent.
WorkerSends ==
    /\ upWorker # <<>>
    /\ LET m == Head(upWorker) IN
       /\ upWorker' = Tail(upWorker)
       /\ upFar' = Append(upFar, m)
       /\ upPage' = IF m.k \in {"block", "eof"} THEN Append(upPage, M("sent", m.f)) ELSE upPage
    /\ UNCHANGED <<upFiles, upStatus, upPolicy, channel, loopVars, questions, upSkipped, far>>

\* The device, as the panel relies on it: an announced file it confirms, from
\* the block on that it still lacks, or asks about; the end it echoes.  The skip of
\* the only file it may acknowledge by an error of that name.
FarReceives ==
    /\ upFar # <<>>
    /\ upFar' = Tail(upFar)
    /\ LET m == Head(upFar) IN
       IF far.k # "taking" THEN UNCHANGED <<far, upPage>>
       ELSE
       \/ /\ m.k = "digest"
          /\ \/ \E n \in 0 .. UpBlocks :
                  /\ far' = [far EXCEPT !.got[m.f] = n]
                  /\ upPage' = Append(upPage, [k |-> "confirm", f |-> m.f, n |-> n])
             \/ far' = far /\ upPage' = Append(upPage, M("digest", m.f))
       \/ /\ m.k = "block"
          /\ far' = [far EXCEPT !.got[m.f] = @ + 1]
          /\ UNCHANGED upPage
       \/ /\ m.k \in {"eof", "skip", "overwrite"}
          /\ \/ UNCHANGED upPage
             \/ m.k = "skip" /\ upFiles = 1 /\ upPage' = Append(upPage, M("skipped", m.f))
          /\ UNCHANGED far
       \/ /\ m.k \in {"cancel", "error"}
          /\ far' = [far EXCEPT !.k = "over"]
          /\ UNCHANGED upPage
       \/ /\ m.k = "done"
          /\ far' = [far EXCEPT !.k = "done"]
          /\ upPage' = Append(upPage, M("done", 0))
    /\ UNCHANGED <<upFiles, upStatus, upPolicy, channel, loopVars, questions, upSkipped, upWorker>>

FarFails ==
    /\ channel /\ far.k = "taking"
    /\ far' = [far EXCEPT !.k = "over"]
    /\ upPage' = Append(upPage, M("error", 0))
    /\ UNCHANGED <<upFiles, upStatus, upPolicy, channel, loopVars, questions, upSkipped,
                   upWorker, upFar>>
-----------------------------------------------------------------------------
\* uploadFiles, up to its first await.
UpInit ==
    /\ upFiles \in 1 .. UpMaxFiles
    /\ upStatus = "running" /\ upPolicy = "ask" /\ channel = TRUE
    /\ file = 1 /\ at = "confirming" /\ offset = 0
    /\ questions = {} /\ upSkipped = {}
    /\ upWorker = <<M("digest", 1)>> /\ upFar = <<>> /\ upPage = <<>>
    /\ far = [k |-> "taking", got |-> [f \in UpFiles |-> 0]]

UpNext ==
    \/ ReadBlock \/ ReadFails \/ Resume \/ PageReceives \/ UpChannelLost
    \/ WorkerSends \/ FarReceives \/ FarFails
    \/ \E answering \in SUBSET questions : UpCancel(answering)
    \/ \E f \in questions, decision \in {"overwrite", "skip"}, applyAll \in BOOLEAN :
         UserAnswers(f, decision, applyAll)

UpSpec == UpInit /\ [][UpNext]_upVars
-----------------------------------------------------------------------------
(* Properties. *)

\* The types of the variables.
UpTypeOK ==
    /\ upFiles \in 1 .. UpMaxFiles /\ channel \in BOOLEAN
    /\ upStatus \in {"running", "done", "error", "cancelled"}
    /\ upPolicy \in {"ask", "overwrite", "skip"}
    /\ file \in UpFiles /\ offset \in 0 .. UpBlocks
    /\ at \in {"confirming", "reading", "sending", "pausing", "left"}
    /\ questions \subseteq UpFiles /\ upSkipped \subseteq UpFiles

\* While the job runs, what its loop waits for is on its way: the announcement
\* or its answer, a question to the user, the block or the worker's word of it.
\* No event handler consumed it without waking the loop.
LoopIsAwaited ==
    LET under == Range(upWorker \o upFar \o upPage) IN
    upStatus = "running" /\ ~(\E m \in under : m.k = "error") =>
        /\ at = "confirming" =>
              \/ file \in questions
              \/ \E m \in under : m.k \in {"digest", "confirm"} /\ m.f = file
        /\ at = "sending" =>
              \E m \in Range(upWorker \o upPage) : m.k \in {"block", "sent"}

\* What the panel reports as sent the device has in full, each block once, but
\* for the files the user skipped.
SentIsWhole ==
    upStatus = "done" => \A f \in UpFiles \ upSkipped : far.got[f] = UpBlocks
=============================================================================
