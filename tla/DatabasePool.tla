---------------------------- MODULE DatabasePool ----------------------------
(***************************************************************************)
(* DatabaseWorkerPool: statements that nobody waits for are put in one     *)
(* ProducerConsumerQueue and executed by DatabaseWorkers, each on its own  *)
(* asynchronous connection; queries are executed by their callers on the   *)
(* synchronous connections.  A connection that is lost is opened again and *)
(* the statement tried again.  Close destroys the connections one by one.  *)
(*                                                                         *)
(* The steps are those between which the lock of the queue is not held.    *)
(* Statements are numbered as they are enqueued.  What a statement does is *)
(* to overwrite one row with its number; a ping overwrites nothing.        *)
(* Nobody calls the pool any more once Close was called, as its comment    *)
(* (DatabaseWorkerPool.cpp:119) requires.                                  *)
(***************************************************************************)
EXTENDS Naturals, Sequences, FiniteSets, SequencesExt

CONSTANTS Worker,    \* asynchronous connections, with their DatabaseWorkers
          Sync,      \* synchronous connections
          Caller,    \* threads that query
          Row,
          None,      \* no statement, no row, no connection
          MaxOps,    \* bound: statements
          MaxFaults, \* bound: connections lost, failed reconnections, errors
          Attempts   \* reconnections tried before the server gives up

ASSUME PoolAssumption == /\ Worker # {} /\ IsFiniteSet(Worker)
                         /\ None \notin Row \cup Sync \cup Nat
                         /\ MaxOps \in Nat /\ MaxFaults \in Nat
                         /\ Attempts \in Nat \ {0}

VARIABLES queue,     \* _queue: numbers of statements
          shutdown,  \* _shutdown
          pc,        \* where each worker is
          op,        \* the operation it popped
          token,     \* its _cancelationToken
          tries,     \* attempts left in _HandleMySQLErrno
          open,      \* asynchronous connections that were not closed
          closer,    \* where Close is
          closing,   \* the connection it destroys
          table,     \* the statement that wrote each row last
          rowOf,     \* history: the row of each statement, None for a ping
          done,      \* history: statements executed
          lost,      \* history: statements given up
          faults,    \* faults so far
          holds,     \* the connection each caller has locked
          wants      \* the row it queries

queueVars == <<queue, shutdown>>
workVars == <<pc, op, token, tries>>
closeVars == <<open, closer, closing>>
history == <<rowOf, done, lost, faults>>
syncVars == <<holds, wants>>
vars == <<queueVars, workVars, closeVars, table, history, syncVars>>

pushed == Len(rowOf)
InHand == {op[w] : w \in Worker} \ {None}
Busy == {"popped", "sent", "applied", "lostConnection"}

Init ==
    /\ queue = <<>>
    /\ shutdown = FALSE
    /\ pc = [w \in Worker |-> "ready"]
    /\ op = [w \in Worker |-> None]
    /\ token = [w \in Worker |-> FALSE]
    /\ tries = [w \in Worker |-> Attempts]
    /\ open = Worker
    /\ closer = "open"
    /\ closing = None
    /\ table = [r \in Row |-> 0]
    /\ rowOf = <<>>
    /\ done = {}
    /\ lost = {}
    /\ faults = 0
    /\ holds = [c \in Caller |-> None]
    /\ wants = [c \in Caller |-> None]

-----------------------------------------------------------------------------
(* The queue *)

Waiting == {w \in Worker : pc[w] = "waiting"}

\* Mutant: the statement is put in the queue and nobody told.
Push_Silent(n) == queue' = Append(queue, n) /\ UNCHANGED <<shutdown, pc>>

\* ProducerConsumerQueue::Push: notify_one wakes one of those that wait.
Push(n) ==
    /\ queue' = Append(queue, n)
    /\ \/ \E w \in Waiting : pc' = [pc EXCEPT ![w] = "ready"]
       \/ Waiting = {} /\ UNCHANGED pc
    /\ UNCHANGED shutdown

\* Mutant: the operation that came last is taken first.
WaitAndPop_Stack(w) ==
    /\ pc[w] = "ready"
    /\ \/ /\ queue = <<>> /\ ~shutdown
          /\ pc' = [pc EXCEPT ![w] = "waiting"]
          /\ UNCHANGED <<queue, op>>
       \/ /\ shutdown
          /\ pc' = [pc EXCEPT ![w] = "done"]
          /\ UNCHANGED <<queue, op>>
       \/ /\ queue # <<>> /\ ~shutdown
          /\ op' = [op EXCEPT ![w] = Last(queue)]
          /\ queue' = Front(queue)
          /\ pc' = [pc EXCEPT ![w] = "popped"]
    /\ UNCHANGED <<shutdown, token, tries, closeVars, table, history, syncVars>>

\* ProducerConsumerQueue::WaitAndPop, up to the wait or the end, and
\* DatabaseWorker::WorkerThread, which returns without an operation.
WaitAndPop(w) ==
    /\ pc[w] = "ready"
    /\ \/ /\ queue = <<>> /\ ~shutdown
          /\ pc' = [pc EXCEPT ![w] = "waiting"]
          /\ UNCHANGED <<queue, op>>
       \/ /\ shutdown
          /\ pc' = [pc EXCEPT ![w] = "done"]
          /\ UNCHANGED <<queue, op>>
       \/ /\ queue # <<>> /\ ~shutdown
          /\ op' = [op EXCEPT ![w] = Head(queue)]
          /\ queue' = Tail(queue)
          /\ pc' = [pc EXCEPT ![w] = "popped"]
    /\ UNCHANGED <<shutdown, token, tries, closeVars, table, history, syncVars>>

\* A condition variable may wake a thread for no reason.
SpuriousWakeup(w) ==
    /\ pc[w] = "waiting"
    /\ pc' = [pc EXCEPT ![w] = "ready"]
    /\ UNCHANGED <<queueVars, op, token, tries, closeVars, table, history,
                   syncVars>>

\* Mutant: Cancel leaves the workers asleep.
Cancel_Silent ==
    /\ queue' = <<>>
    /\ lost' = lost \cup ToSet(queue)
    /\ shutdown' = TRUE
    /\ UNCHANGED pc

\* ProducerConsumerQueue::Cancel: what is queued is deleted, everyone woken.
Cancel ==
    /\ queue' = <<>>
    /\ lost' = lost \cup ToSet(queue)
    /\ shutdown' = TRUE
    /\ pc' = [w \in Worker |-> IF w \in Waiting THEN "ready" ELSE pc[w]]

-----------------------------------------------------------------------------
(* The pool *)

\* DatabaseWorkerPool::Execute, Enqueue.
Execute(r) ==
    /\ closer = "open"
    /\ pushed < MaxOps
    /\ rowOf' = Append(rowOf, r)
    /\ Push(pushed + 1)
    /\ UNCHANGED <<op, token, tries, closeVars, table, done, lost, faults,
                   syncVars>>

\* DatabaseWorkerPool::KeepAlive enqueues a ping for each worker, one by one.
KeepAlive == Execute(None)

\* DatabaseWorkerPool::GetFreeConnection, LockIfReady, for a query.
GetFreeConnection(c, s) ==
    /\ closer = "open"
    /\ holds[c] = None
    /\ s \notin {holds[d] : d \in Caller}
    /\ holds' = [holds EXCEPT ![c] = s]
    /\ \E r \in Row : wants' = [wants EXCEPT ![c] = r]
    /\ UNCHANGED <<queueVars, workVars, closeVars, table, history>>

\* MySQLConnection::Query, and Unlock.
Query(c) ==
    /\ holds[c] # None
    /\ holds' = [holds EXCEPT ![c] = None]
    /\ wants' = [wants EXCEPT ![c] = None]
    /\ UNCHANGED <<queueVars, workVars, closeVars, table, history>>

-----------------------------------------------------------------------------
(* A worker *)

\* DatabaseWorker::WorkerThread: the token is looked at after the pop; the
\* operation of a cancelled worker is not executed.
CheckToken(w) ==
    /\ pc[w] = "popped"
    /\ IF token[w]
       THEN /\ pc' = [pc EXCEPT ![w] = "done"]
            /\ lost' = lost \cup {op[w]}
            /\ op' = [op EXCEPT ![w] = None]
       ELSE /\ pc' = [pc EXCEPT ![w] = "sent"]
            /\ UNCHANGED <<lost, op>>
    /\ UNCHANGED <<queueVars, token, tries, closeVars, table, rowOf, done,
                   faults, syncVars>>

\* MySQL executes the statement of a worker.
Apply(w) ==
    /\ pc[w] = "sent"
    /\ pc' = [pc EXCEPT ![w] = "applied"]
    /\ table' = IF rowOf[op[w]] = None THEN table
                ELSE [table EXCEPT ![rowOf[op[w]]] = op[w]]
    /\ UNCHANGED <<queueVars, op, token, tries, closeVars, history, syncVars>>

\* The worker goes for the next operation.
Finish(w) == /\ pc' = [pc EXCEPT ![w] = "ready"]
             /\ op' = [op EXCEPT ![w] = None]
             /\ tries' = [tries EXCEPT ![w] = Attempts]

\* MySQLConnection::Execute returns true.
Succeed(w) ==
    /\ pc[w] = "applied"
    /\ Finish(w)
    /\ done' = done \cup {op[w]}
    /\ UNCHANGED <<queueVars, token, closeVars, table, rowOf, lost, faults,
                   syncVars>>

\* MySQLConnection::Execute fails by an error _HandleMySQLErrno does not
\* handle, such as a deadlock in the database: the statement is skipped.
Skip(w) ==
    /\ pc[w] = "sent"
    /\ rowOf[op[w]] # None
    /\ faults < MaxFaults
    /\ faults' = faults + 1
    /\ Finish(w)
    /\ lost' = lost \cup {op[w]}
    /\ UNCHANGED <<queueVars, token, closeVars, table, rowOf, done, syncVars>>

\* The connection breaks before or after the statement took effect.
LoseConnection(w) ==
    /\ pc[w] \in {"sent", "applied"}
    /\ faults < MaxFaults
    /\ faults' = faults + 1
    /\ pc' = [pc EXCEPT ![w] = "lostConnection"]
    /\ UNCHANGED <<queueVars, op, token, tries, closeVars, table, rowOf, done,
                   lost, syncVars>>

\* Mutant: after the reconnection the statement is not executed again, and
\* nobody notes it.
Reconnect_Forgets(w) ==
    /\ pc[w] = "lostConnection"
    /\ Finish(w)
    /\ UNCHANGED <<queueVars, token, closeVars, table, history, syncVars>>

\* MySQLConnection::_HandleMySQLErrno, Open, and Execute once more.
Reconnect(w) ==
    /\ pc[w] = "lostConnection"
    /\ pc' = [pc EXCEPT ![w] = "sent"]
    /\ UNCHANGED <<queueVars, op, token, tries, closeVars, table, history,
                   syncVars>>

\* It fails.  At the last attempt the server aborts: the behaviour ends.
ReconnectFails(w) ==
    /\ pc[w] = "lostConnection"
    /\ tries[w] > 1
    /\ faults < MaxFaults
    /\ faults' = faults + 1
    /\ tries' = [tries EXCEPT ![w] = @ - 1]
    /\ UNCHANGED <<queueVars, pc, op, token, closeVars, table, rowOf, done,
                   lost, syncVars>>

-----------------------------------------------------------------------------
(* Close *)

\* DatabaseWorkerPool::Close, ~MySQLConnection: the next worker's token.
CloseNext ==
    /\ closer \in {"open", "next"}
    /\ \A c \in Caller : holds[c] = None
    /\ \E w \in open : /\ closing' = w
                       /\ token' = [token EXCEPT ![w] = TRUE]
    /\ closer' = "cancel"
    /\ UNCHANGED <<queueVars, pc, op, tries, open, table, history, syncVars>>

\* ~DatabaseWorker: Cancel ...
CloseCancel ==
    /\ closer = "cancel"
    /\ closer' = "join"
    /\ Cancel
    /\ UNCHANGED <<op, token, tries, open, closing, table, rowOf, done, faults,
                   syncVars>>

\* Mutant: the connection is closed without waiting for its worker.
CloseJoin_Detached ==
    /\ closer = "join"
    /\ open' = open \ {closing}
    /\ closing' = None
    /\ closer' = IF open' = {} THEN "closed" ELSE "next"
    /\ UNCHANGED <<queueVars, workVars, table, history, syncVars>>

\* ... and join.  Then MySQLConnection::Close closes the connection.
CloseJoin ==
    /\ closer = "join"
    /\ pc[closing] = "done"
    /\ open' = open \ {closing}
    /\ closing' = None
    /\ closer' = IF open' = {} THEN "closed" ELSE "next"
    /\ UNCHANGED <<queueVars, workVars, table, history, syncVars>>

-----------------------------------------------------------------------------

Work(w) == WaitAndPop(w) \/ CheckToken(w) \/ Apply(w) \/ Succeed(w)
           \/ Reconnect(w)
Fault(w) == SpuriousWakeup(w) \/ Skip(w) \/ LoseConnection(w)
            \/ ReconnectFails(w)
Close == CloseCancel \/ CloseJoin \/ (closer = "next" /\ CloseNext)

Next == \/ \E r \in Row : Execute(r)
        \/ KeepAlive
        \/ \E c \in Caller : Query(c) \/ \E s \in Sync : GetFreeConnection(c, s)
        \/ \E w \in Worker : Work(w) \/ Fault(w)
        \/ closer = "open" /\ CloseNext
        \/ Close

Spec == Init /\ [][Next]_vars

\* Workers run, and Close, once called, goes on.
FairSpec == Spec /\ \A w \in Worker : WF_vars(Work(w))
                 /\ WF_vars(Close)

-----------------------------------------------------------------------------
(* Properties *)

\* Types; a worker has an operation exactly while it works on one.
TypeOK ==
    /\ queue \in Seq(1..MaxOps)
    /\ shutdown \in BOOLEAN
    /\ pc \in [Worker -> Busy \cup {"ready", "waiting", "done"}]
    /\ op \in [Worker -> 1..MaxOps \cup {None}]
    /\ \A w \in Worker : op[w] # None <=> pc[w] \in Busy
    /\ token \in [Worker -> BOOLEAN]
    /\ tries \in [Worker -> 1..Attempts]
    /\ open \subseteq Worker
    /\ closer \in {"open", "next", "cancel", "join", "closed"}
    /\ closing \in Worker \cup {None}
    /\ table \in [Row -> 0..MaxOps]
    /\ rowOf \in Seq(Row \cup {None})
    /\ done \subseteq 1..MaxOps
    /\ lost \subseteq 1..MaxOps
    /\ faults \in 0..MaxFaults
    /\ holds \in [Caller -> Sync \cup {None}]
    /\ wants \in [Caller -> Row \cup {None}]

\* Every statement is in exactly one place: queued, with one worker, executed,
\* or given up; through spurious wake-ups, reconnections and Cancel.
Accounted ==
    /\ TypeOK
    /\ ToSet(queue) \cup InHand \cup done \cup lost = 1..pushed
    /\ \A v, w \in Worker : v # w /\ op[v] = op[w] => op[w] = None
    /\ ToSet(queue) \cap (InHand \cup done \cup lost) = {}
    /\ InHand \cap (done \cup lost) = {}
    /\ done \cap lost = {}

\* Statements are started in the order in which they were enqueued: whatever
\* waits is later than all that was started, so a statement is overtaken by
\* those only that other workers run while it has one.
StartedInOrder ==
    /\ \A m \in ToSet(queue) : \A n \in InHand \cup done : n < m
    /\ \A i, j \in DOMAIN queue : i < j => queue[i] < queue[j]

\* A worker uses its connection only while it is there ("Stop the worker
\* thread before the statements are cleared", MySQLConnection.cpp:76).
NotUsedClosed == \A w \in Worker : pc[w] # "done" => w \in open

\* A statement that was enqueued is executed or skipped, unless Close is
\* called: no wake-up is lost.
WorkDone == \A n \in 1..MaxOps :
                [](n <= pushed => <>(n \in done \cup lost \/ closer # "open"))

\* Close returns, wherever the workers are when it is called.
CloseEnds == closer = "cancel" ~> closer = "closed"

\* Documented, violated with two workers: when nothing is left to do every row
\* holds what was written last.
LastWriteWins ==
    queue = <<>> /\ InHand = {} /\ lost = {} =>
        \A r \in Row : \A n \in 1..pushed : rowOf[n] = r => table[r] >= n

\* Documented, violated: a query sees what was written before it was made, so
\* that a player who comes back finds what was saved when it left.
ReadsLastWrite ==
    \A c \in Caller : holds[c] # None =>
        \A n \in 1..pushed : rowOf[n] = wants[c] => table[wants[c]] >= n

\* Documented, violated: Close leaves nothing unexecuted.
DrainedAtClose == faults = 0 => lost = {}
=============================================================================
