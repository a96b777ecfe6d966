------------------------------ MODULE StdioTransport ------------------------------
(***************************************************************************)
(* StdioTransport (src/src/transport/stdio.cpp): a thread of its own blocks  *)
(* in getline and posts every line to the strand; writes run on the strand   *)
(* under output_mutex; close() may be called from any thread, also by the    *)
(* output stream in the middle of a write.                                   *)
(***************************************************************************)
EXTENDS Naturals, Sequences

CONSTANTS
    Reads,        \* read_message calls, each made at most once
    Writes,       \* write_message calls, each made at most once
    Closers,      \* close() calls of other threads
    InnerClosers, \* close() calls the output stream makes inside a write
    MaxLines      \* bound: lines of the input

VARIABLES
    closed,       \* SharedState::closed
    thread,       \* the reader thread
    lines,        \* lines it has read
    posted,       \* what it has posted to the strand, oldest first: lines, and 0 for the end
    wakePosted,   \* close_state has posted the wake
    queue,        \* SharedState::queue
    inputEnded,   \* SharedState::input_ended
    readPending,  \* SharedState::read_pending
    readWoken,    \* read_signal was cancelled while a read waited
    call,         \* where each read and write is
    closer        \* where each close() is

vars == <<closed, thread, lines, posted, wakePosted, queue, inputEnded, readPending, readWoken, call,
          closer>>

Calls == Reads \cup Writes
AllClosers == Closers \cup InnerClosers

\* The values each variable of the transport can hold.
TypeOK ==
    /\ closed \in BOOLEAN /\ wakePosted \in BOOLEAN /\ inputEnded \in BOOLEAN
    /\ readPending \in BOOLEAN /\ readWoken \in BOOLEAN
    /\ thread \in {"off", "reading", "holding", "ended"}
    /\ lines \in 0..MaxLines
    /\ posted \in Seq(0..MaxLines) /\ queue \in Seq(1..MaxLines)
    /\ call \in [Calls -> {"idle", "spawned", "waiting", "locking", "writing", "done", "failed"}]
    /\ closer \in [AllClosers -> {"idle", "first", "again", "returned"}]

Init ==
    /\ closed = FALSE /\ wakePosted = FALSE /\ inputEnded = FALSE
    /\ readPending = FALSE /\ readWoken = FALSE
    /\ thread = "off" /\ lines = 0
    /\ posted = <<>> /\ queue = <<>>
    /\ call = [c \in Calls |-> "idle"]
    /\ closer = [c \in AllClosers |-> "idle"]

inputVars == <<thread, lines, posted>>
readVars == <<queue, inputEnded, readPending, readWoken>>

\* The write that has the strand, blocked on output_mutex or inside the stream.
StrandFree == \A w \in Writes : call[w] \notin {"locking", "writing"}

\* output_mutex is held by a write; the barrier of close_state holds it for no
\* time of its own.
OutputHeld == \E w \in Writes : call[w] = "writing"

---------------------------------------------------------------------------
\* read_message: the first one starts the reader thread, unless closed.
CallRead(r) ==
    /\ r \in Reads /\ call[r] = "idle"
    /\ call' = [call EXCEPT ![r] = "spawned"]
    /\ thread' = IF thread = "off" /\ ~closed THEN "reading" ELSE thread
    /\ UNCHANGED <<closed, lines, posted, wakePosted, readVars, closer>>

\* write_message
CallWrite(w) ==
    /\ w \in Writes /\ call[w] = "idle"
    /\ call' = [call EXCEPT ![w] = "spawned"]
    /\ UNCHANGED <<closed, inputVars, wakePosted, readVars, closer>>

\* getline returns a line.
GetLine ==
    /\ thread = "reading"
    /\ lines < MaxLines
    /\ lines' = lines + 1
    /\ thread' = "holding"
    /\ UNCHANGED <<closed, posted, wakePosted, readVars, call, closer>>

\* The thread looks at `closed` and posts the line, or ends.
PostLine ==
    /\ thread = "holding"
    /\ IF closed
       THEN thread' = "ended" /\ posted' = Append(posted, 0)
       ELSE thread' = "reading" /\ posted' = Append(posted, lines)
    /\ UNCHANGED <<closed, lines, wakePosted, readVars, call, closer>>

\* getline fails: the end of the input, or a stream that throws.
EndInput ==
    /\ thread = "reading"
    /\ thread' = "ended"
    /\ posted' = Append(posted, 0)
    /\ UNCHANGED <<closed, lines, wakePosted, readVars, call, closer>>

\* Mutant: the end of the input wakes nobody.
WakesForLine == posted # <<>> /\ Head(posted) # 0 /\ \E r \in Reads : call[r] = "waiting"

\* wake_reader reaches the read that waits.
WakesReader == \E r \in Reads : call[r] = "waiting"

\* The job on the strand holds a line; the last one holds none.
IsLine == Head(posted) # 0

\* What the thread posted runs on the strand.
TakePosted ==
    /\ StrandFree
    /\ posted # <<>>
    /\ posted' = Tail(posted)
    /\ IF IsLine
       THEN queue' = Append(queue, Head(posted)) /\ UNCHANGED inputEnded
       ELSE inputEnded' = TRUE /\ UNCHANGED queue
    /\ readWoken' = (readWoken \/ WakesReader)
    /\ UNCHANGED <<closed, thread, lines, wakePosted, readPending, call, closer>>

\* What close_state posted runs on the strand.
RunWake ==
    /\ StrandFree
    /\ wakePosted
    /\ wakePosted' = FALSE
    /\ readWoken' = (readWoken \/ WakesReader)
    /\ UNCHANGED <<closed, inputVars, queue, inputEnded, readPending, call, closer>>

\* The read gives up only when nothing is queued.
GivesUp == queue = <<>> /\ (closed \/ inputEnded)

\* A turn of the loop of read_on_strand.
ReadTurn(r) ==
    /\ \/ /\ GivesUp
          /\ call' = [call EXCEPT ![r] = "failed"]
          /\ readPending' = FALSE
          /\ UNCHANGED queue
       \/ /\ ~GivesUp /\ queue # <<>>
          /\ call' = [call EXCEPT ![r] = "done"]
          /\ readPending' = FALSE
          /\ queue' = Tail(queue)
       \/ /\ ~GivesUp /\ queue = <<>>
          /\ call' = [call EXCEPT ![r] = "waiting"]
          /\ readPending' = TRUE
          /\ UNCHANGED queue
    /\ readWoken' = FALSE
    /\ UNCHANGED <<closed, inputVars, wakePosted, inputEnded, closer>>

\* read_on_strand runs for the first time; a second pending read is refused.
StartRead(r) ==
    /\ StrandFree
    /\ r \in Reads /\ call[r] = "spawned"
    /\ IF readPending
       THEN /\ call' = [call EXCEPT ![r] = "failed"]
            /\ UNCHANGED <<closed, inputVars, wakePosted, readVars, closer>>
       ELSE ReadTurn(r)

\* The wait of a read ends.
ResumeRead(r) ==
    /\ StrandFree
    /\ r \in Reads /\ call[r] = "waiting" /\ readWoken
    /\ ReadTurn(r)

---------------------------------------------------------------------------
\* write_on_strand up to the lock.
StartWrite(w) ==
    /\ StrandFree
    /\ w \in Writes /\ call[w] = "spawned"
    /\ call' = [call EXCEPT ![w] = IF closed THEN "failed" ELSE "locking"]
    /\ UNCHANGED <<closed, inputVars, wakePosted, readVars, closer>>

\* Mutant: `closed` is not looked at again under the lock.
StillOpenAnyway == TRUE

\* The second look at `closed`, under the lock.
StillOpen == ~closed

\* The lock is taken.
Lock(w) ==
    /\ w \in Writes /\ call[w] = "locking"
    /\ call' = [call EXCEPT ![w] = IF StillOpen THEN "writing" ELSE "failed"]
    /\ UNCHANGED <<closed, inputVars, wakePosted, readVars, closer>>

\* The stream has taken the message, or failed; a close() it made has returned.
WriteEnds(w) ==
    /\ w \in Writes /\ call[w] = "writing"
    /\ \A c \in InnerClosers : closer[c] \in {"idle", "returned"}
    /\ \E result \in {"done", "failed"} : call' = [call EXCEPT ![w] = result]
    /\ UNCHANGED <<closed, inputVars, wakePosted, readVars, closer>>

---------------------------------------------------------------------------
\* close_state sets the flag; the stream calls it only inside a write.
BeginClose(c) ==
    /\ closer[c] = "idle"
    /\ c \in InnerClosers => OutputHeld
    /\ closer' = [closer EXCEPT ![c] = IF closed THEN "again" ELSE "first"]
    /\ closed' = TRUE
    /\ UNCHANGED <<inputVars, wakePosted, readVars, call>>

\* Mutant: the mutex is not recursive.
BarrierPlain(c) == ~OutputHeld

\* output_barrier: the lock can be had, by the thread that is inside the write too.
Barrier(c) == c \in InnerClosers \/ ~OutputHeld

\* close_state goes past the barrier; the first call posts the wake.
EndClose(c) ==
    /\ closer[c] \in {"first", "again"}
    /\ Barrier(c)
    /\ closer' = [closer EXCEPT ![c] = "returned"]
    /\ wakePosted' = (wakePosted \/ closer[c] = "first")
    /\ UNCHANGED <<closed, inputVars, readVars, call>>

Next ==
    \/ GetLine \/ PostLine \/ EndInput \/ TakePosted \/ RunWake
    \/ \E r \in Reads : CallRead(r) \/ StartRead(r) \/ ResumeRead(r)
    \/ \E w \in Writes : CallWrite(w) \/ StartWrite(w) \/ Lock(w) \/ WriteEnds(w)
    \/ \E c \in AllClosers : BeginClose(c) \/ EndClose(c)

\* The strand and the calling threads run, and the output stream takes what it is
\* given.  getline may block for ever, as close() cannot interrupt it.
Fairness ==
    /\ WF_vars(PostLine) /\ WF_vars(TakePosted) /\ WF_vars(RunWake)
    /\ \A r \in Reads : WF_vars(StartRead(r)) /\ WF_vars(ResumeRead(r))
    /\ \A w \in Writes : WF_vars(StartWrite(w)) /\ WF_vars(Lock(w)) /\ WF_vars(WriteEnds(w))
    /\ \A c \in AllClosers : WF_vars(EndClose(c))

Safety == Init /\ [][Next]_vars
Spec == Safety /\ Fairness

---------------------------------------------------------------------------
\* "A write that already acquired the output cannot outlive close()": once close()
\* has returned to another thread, the stream is not touched any more.
CloseOutlivesWrites ==
    (\E c \in Closers : closer[c] = "returned") => ~OutputHeld

\* A read sleeps only while there is nothing for it and its wakeup is still to come.
NoReadStarves ==
    (\E r \in Reads : call[r] = "waiting") /\ ~readWoken =>
        /\ queue = <<>> /\ ~inputEnded
        /\ closed => wakePosted \/ \E c \in AllClosers : closer[c] = "first"

\* close() returns, and with it every read and write.
CloseEnds ==
    /\ \A c \in AllClosers : closer[c] = "first" ~> closer[c] = "returned"
    /\ \A c \in Calls : closed /\ call[c] # "idle" ~> call[c] \in {"done", "failed"}
=============================================================================
