----------------------------- MODULE McpChannel -----------------------------
(***************************************************************************)
(* The JSON-RPC channel to the exchange: StdioMCPClient and MCPBackend     *)
(* (execution/mcp_backend.py) on the pipes of one child process.  The core *)
(* thread and the thread that bootstraps market data share it.  A call     *)
(* that times out leaves its answer to come, the child answers in its own  *)
(* order, adds lines of its own, may leave a line half written or its      *)
(* requests unread, and may die at any moment.                             *)
(*                                                                         *)
(* The client is created and its handshake done.  A line is its id and     *)
(* what it says; id 0 stands for a notification or a line that is no JSON. *)
(***************************************************************************)
EXTENDS Naturals, Sequences, FiniteSets

CONSTANTS
    Callers,        \* threads that use the backend
    Placer,         \* the one that places orders (the core thread)
    NoCaller,
    MaxRequests,    \* bound: request ids
    MaxNoise,       \* bound: lines that answer nothing
    PipeCap         \* requests the stdin pipe holds before a write blocks

ASSUME CallersAssumption == Placer \in Callers /\ NoCaller \notin Callers
ASSUME BoundsAssumption == MaxRequests \in Nat \ {0} /\ MaxNoise \in Nat
ASSUME PipeCapAssumption == PipeCap \in Nat \ {0}

VARIABLES
    call,       \* what each caller does
    lock,       \* owner of _request_lock
    nextId,     \* _next_id
    stdin,      \* requests the child has not read
    work,       \* requests the child or the exchange works on
    stdout,     \* lines in the child's stdout pipe, which select watches
    partial,    \* the child has begun a line and not ended it
    buffer,     \* lines readline fetched and has not returned yet
    blocked,    \* the reader is inside readline, waiting for the end of a line
    alive,      \* poll() is None
    taken,      \* orders the exchange accepted
    result,     \* history: what the caller of each placement was told
    noise

vars == <<call, lock, nextId, stdin, work, stdout, partial, buffer, blocked, alive, taken,
          result, noise>>

Ids == 1..MaxRequests
Kind == {"place", "read"}
Told == {"none", "placed", "rejected", "uncertain", "raised"}
\* What a line says: a result, isError or ok = false, a JSON-RPC error, a result
\* nothing can be read from, or something that makes the reader itself raise
\* (JSON that is no object, a text that is no string).
Says == {"ok", "toolError", "rpcError", "unstructured", "malformed"}
Line == [id : Ids \cup {0}, says : Says]
Request == [id : Ids, kind : Kind]

IdleCall == [pc |-> "idle", kind |-> "read", id |-> 0]

TypeOK ==
    /\ call \in [Callers -> [pc : {"idle", "lock", "write", "read"}, kind : Kind,
                             id : Ids \cup {0}]]
    /\ lock \in Callers \cup {NoCaller}
    /\ nextId \in 1..(MaxRequests + 1)
    /\ stdin \in Seq(Request) /\ work \subseteq Request
    /\ stdout \in Seq(Line) /\ buffer \in Seq(Line)
    /\ partial \in BOOLEAN /\ blocked \in BOOLEAN /\ alive \in BOOLEAN
    /\ taken \subseteq Ids
    /\ result \in [Ids -> Told]
    /\ noise \in 0..MaxNoise

Init ==
    /\ call = [c \in Callers |-> IdleCall]
    /\ lock = NoCaller
    /\ nextId = 1
    /\ stdin = <<>> /\ work = {} /\ stdout = <<>> /\ buffer = <<>>
    /\ partial = FALSE /\ blocked = FALSE /\ alive = TRUE
    /\ taken = {}
    /\ result = [i \in Ids |-> "none"]
    /\ noise = 0

At(c, pc) == call[c].pc = pc

(***************************************************************************)
(* A call (_request, call_tool and place_order's classification).          *)
(***************************************************************************)
\* Mutant: a timeout is reported as a rejection.
ClassifiedTimeoutRejected(c, end) ==
    CASE call[c].kind = "read" -> "none"
      [] call[c].kind = "place" /\ end = "ok" -> "placed"
      [] call[c].kind = "place" /\ end \in {"toolError", "rpcError", "timeout"} -> "rejected"
      [] call[c].kind = "place" /\ end = "malformed" -> "raised"
      [] OTHER -> "uncertain"

\* What place_order makes of how its call ended: an exception that is no MCPError
\* passes through it as it is ("raised").  The other tools return or raise, which
\* decides nothing here.
Classified(c, end) ==
    CASE call[c].kind = "read" -> "none"
      [] call[c].kind = "place" /\ end = "ok" -> "placed"
      [] call[c].kind = "place" /\ end \in {"toolError", "rpcError"} -> "rejected"
      [] call[c].kind = "place" /\ end = "malformed" -> "raised"
      [] OTHER -> "uncertain"

\* The end of a call that holds the lock; the finally clause releases it.
Return(c, end) ==
    /\ result' = [result EXCEPT ![call[c].id] = Classified(c, end)]
    /\ call' = [call EXCEPT ![c] = IdleCall]
    /\ lock' = NoCaller

\* A tool is called.
Begin(c) ==
    /\ At(c, "idle")
    /\ \E k \in Kind :
          /\ k = "place" => c = Placer
          /\ call' = [call EXCEPT ![c] = [pc |-> "lock", kind |-> k, id |-> 0]]
    /\ UNCHANGED <<lock, nextId, stdin, work, stdout, partial, buffer, blocked, alive, taken,
                   result, noise>>

Acquire(c) ==
    /\ At(c, "lock") /\ lock = NoCaller /\ nextId <= MaxRequests
    /\ lock' = c
    /\ nextId' = nextId + 1
    /\ call' = [call EXCEPT ![c].pc = "write", ![c].id = nextId]
    /\ UNCHANGED <<stdin, work, stdout, partial, buffer, blocked, alive, taken, result, noise>>

\* MCP_CONCURRENT_REQUEST_TIMEOUT: LOCAL_TRANSPORT_NOT_STARTED for place_order;
\* no request was made.  A caller beyond the bound on ids leaves the same way.
LockTimesOut(c) ==
    /\ At(c, "lock") /\ (lock # NoCaller \/ nextId > MaxRequests)
    /\ call' = [call EXCEPT ![c] = IdleCall]
    /\ UNCHANGED <<lock, nextId, stdin, work, stdout, partial, buffer, blocked, alive, taken,
                   result, noise>>

\* Mutant: the lock covers the write only.
WriteReleases(c) ==
    /\ At(c, "write") /\ alive /\ Len(stdin) < PipeCap
    /\ stdin' = Append(stdin, [id |-> call[c].id, kind |-> call[c].kind])
    /\ call' = [call EXCEPT ![c].pc = "read"]
    /\ lock' = NoCaller
    /\ UNCHANGED <<nextId, work, stdout, partial, buffer, blocked, alive, taken, result, noise>>

\* _write: it blocks while the pipe is full; a child that is gone breaks the
\* pipe, which place_order lets through as a ConnectionError and _submit takes
\* for an uncertain submission.
Write(c) ==
    /\ At(c, "write")
    /\ IF alive
       THEN /\ Len(stdin) < PipeCap
            /\ stdin' = Append(stdin, [id |-> call[c].id, kind |-> call[c].kind])
            /\ call' = [call EXCEPT ![c].pc = "read"]
            /\ UNCHANGED <<lock, result>>
       ELSE Return(c, "brokenPipe") /\ UNCHANGED stdin
    /\ UNCHANGED <<nextId, work, stdout, partial, buffer, blocked, alive, taken, noise>>

\* A turn of _read_response: select sees the pipe only, of which half a line is
\* enough; readline serves what it fetched before, otherwise fetches a chunk of
\* the pipe.  A line with another id is dropped, one that is no object raises.
Fetched(n) == IF buffer = <<>> THEN SubSeq(stdout, 1, n) ELSE buffer
Unfetched(n) == IF buffer = <<>> THEN SubSeq(stdout, n + 1, Len(stdout)) ELSE stdout

ReadLine(c) ==
    /\ At(c, "read") /\ (blocked \/ (alive /\ (stdout # <<>> \/ partial)))
    /\ blocked' = FALSE
    /\ \E n \in 0..Len(stdout) :
          /\ buffer # <<>> \/ n > 0
          /\ buffer' = Tail(Fetched(n)) /\ stdout' = Unfetched(n)
          /\ LET l == Head(Fetched(n))
             IN IF l.id = call[c].id \/ l.says = "malformed"
                THEN Return(c, l.says)
                ELSE UNCHANGED <<call, lock, result>>
    /\ UNCHANGED <<nextId, stdin, work, partial, alive, taken, noise>>

\* select reports half a line: readline waits for its end, and the deadline is
\* not looked at meanwhile ...
ReadPartial(c) ==
    /\ At(c, "read") /\ alive /\ ~blocked
    /\ partial /\ stdout = <<>> /\ buffer = <<>>
    /\ blocked' = TRUE
    /\ UNCHANGED <<call, lock, nextId, stdin, work, stdout, partial, buffer, alive, taken,
                   result, noise>>

\* ... unless the child is gone: the half line is no JSON.
ReadEnd(c) ==
    /\ At(c, "read") /\ blocked /\ ~alive /\ stdout = <<>>
    /\ blocked' = FALSE
    /\ UNCHANGED <<call, lock, nextId, stdin, work, stdout, partial, buffer, alive, taken,
                   result, noise>>

\* Mutant: no deadline.
ReadTimesOutNever(c) == FALSE /\ UNCHANGED vars

\* MCP_TIMEOUT: the deadline passed, whatever is in the pipe or the buffer.
ReadTimesOut(c) ==
    /\ At(c, "read") /\ ~blocked
    /\ Return(c, "timeout")
    /\ UNCHANGED <<nextId, stdin, work, stdout, partial, buffer, blocked, alive, taken, noise>>

\* MCP_EXITED, tested before the pipe is: an answer left in it is lost.
ReadExited(c) ==
    /\ At(c, "read") /\ ~alive /\ ~blocked
    /\ Return(c, "exited")
    /\ UNCHANGED <<nextId, stdin, work, stdout, partial, buffer, blocked, alive, taken, noise>>

(***************************************************************************)
(* The child and the exchange (external).                                  *)
(***************************************************************************)
Receive ==
    /\ alive /\ stdin # <<>>
    /\ work' = work \cup {Head(stdin)}
    /\ stdin' = Tail(stdin)
    /\ UNCHANGED <<call, lock, nextId, stdout, partial, buffer, blocked, alive, taken, result, noise>>

\* The exchange accepts an order it was sent, even if the child died since.
Take(r) ==
    /\ r \in work /\ r.kind = "place" /\ r.id \notin taken
    /\ taken' = taken \cup {r.id}
    /\ UNCHANGED <<call, lock, nextId, stdin, work, stdout, partial, buffer, blocked, alive,
                   result, noise>>

\* The tool's contract, which place_order relies on: an order that was taken is
\* answered with a result (or with nothing that can be read); an error says that
\* it was refused, and it will not be taken any more.
Answer(r) ==
    /\ alive /\ r \in work
    /\ \E s \in Says :
          /\ IF r.kind = "place"
             THEN s = "malformed" \/ (s \in {"ok", "unstructured"} <=> r.id \in taken)
             ELSE s = "ok"
          /\ stdout' = Append(stdout, [id |-> r.id, says |-> s])
    /\ partial' = FALSE
    /\ work' = work \ {r}
    /\ UNCHANGED <<call, lock, nextId, stdin, buffer, blocked, alive, taken, result, noise>>

\* A notification, a stray line that is no JSON, or one that is JSON and no object.
Noise ==
    /\ alive /\ noise < MaxNoise
    /\ noise' = noise + 1
    /\ \E s \in {"ok", "malformed"} : stdout' = Append(stdout, [id |-> 0, says |-> s])
    /\ partial' = FALSE
    /\ UNCHANGED <<call, lock, nextId, stdin, work, buffer, blocked, alive, taken, result>>

\* The beginning of such a line is in the pipe before its end.
StartLine ==
    /\ alive /\ ~partial /\ (work # {} \/ noise < MaxNoise)
    /\ partial' = TRUE
    /\ UNCHANGED <<call, lock, nextId, stdin, work, stdout, buffer, blocked, alive, taken,
                   result, noise>>

\* The child exits, by itself or terminated.
ChildExits ==
    /\ alive
    /\ alive' = FALSE
    /\ partial' = FALSE
    /\ stdin' = <<>>
    /\ UNCHANGED <<call, lock, nextId, work, stdout, buffer, blocked, taken, result, noise>>

Caller(c) ==
    \/ Acquire(c) \/ LockTimesOut(c) \/ Write(c)
    \/ ReadLine(c) \/ ReadPartial(c) \/ ReadEnd(c) \/ ReadTimesOut(c) \/ ReadExited(c)

Child == Receive \/ Noise \/ StartLine \/ ChildExits \/ \E r \in work : Take(r) \/ Answer(r)

Next == Child \/ \E c \in Callers : Begin(c) \/ Caller(c)

Spec == Init /\ [][Next]_vars

\* Callers run and deadlines pass; the child owes nothing.
FairSpec == Spec /\ \A c \in Callers : WF_vars(Caller(c))

(***************************************************************************)
(* Properties.                                                             *)
(***************************************************************************)
LinesOf(seq) == {seq[j] : j \in 1..Len(seq)}
InFlight == {r.id : r \in work \cup LinesOf(stdin)}
Answered == {l.id : l \in LinesOf(stdout) \cup LinesOf(buffer)}

\* What place_order reports is true: an order reported placed was accepted, and
\* one it reports rejected was not and never will be, whichever late, foreign or
\* buffered lines were read on the way.  That an error answer is a refusal is the
\* tool's contract (Answer).  An exception that is no MCPError ("raised") is not
\* a report of place_order: OrderManager takes it for a rejection, wrongly.
OutcomeIsTrue ==
    \A i \in Ids :
        /\ result[i] = "placed" => i \in taken
        /\ result[i] = "rejected" => i \notin taken \cup InFlight

\* "cannot ... consume one another's response": the answer a call waits for is
\* only ever read by that call.
NoResponseStolen ==
    [][\A c \in Callers :
          At(c, "read") /\ call[c].id \in Answered \ Answered' => ~At(c, "read")']_vars

\* Every call returns, whatever the child answers, skips or loses, unless the
\* child stops in the middle of a line or stops reading with its pipe full:
\* readline and write wait beyond the deadline then.
CallsReturn ==
    []<>~partial /\ []<>(Len(stdin) < PipeCap)
        => \A c \in Callers : ~At(c, "idle") ~> At(c, "idle")
=============================================================================
