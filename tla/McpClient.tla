------------------------------ MODULE McpClient ------------------------------
(***************************************************************************)
(* The JSON-RPC client over the pipes of one MCP subprocess (client.rs):   *)
(* every request holds io_lock from the write of its line to the line that *)
(* answers it, with a deadline on the reading alone, and reads past lines  *)
(* that are not its answer.  initialize, refresh_tools and call_tool are   *)
(* requests alike.                                                         *)
(*                                                                         *)
(* The callers, who may abandon a request at any await, the server and its *)
(* end are the environment.                                                *)
(***************************************************************************)
EXTENDS Naturals, Sequences, FiniteSets

CONSTANTS
  Call,           \* requests of the callers
  MaxMismatched,  \* MAX_MISMATCHED_IDS, 8 in the code
  MaxSkipped,     \* MAX_SKIPPED_LINES, 64 in the code
  Pipe,           \* lines a pipe holds
  MaxNoise        \* bound on the lines of the server that answer nothing

ASSUME LimitAssumption ==
  {MaxMismatched, MaxSkipped, Pipe, MaxNoise} \subseteq Nat

VARIABLES
  lock,      \* io_lock: at most one holder
  queue,     \* those who wait for it, served in order
  nextId,    \* request_id
  call,      \* the requests: where each is, its id, its counters, its outcome
  stdin,     \* ids of the requests on their way to the server
  stdout,    \* lines on their way to the client
  pending,   \* ids the server has read and not answered
  alive,     \* environment: the subprocess
  noise,     \* environment: lines sent that answer nothing
  strays     \* environment: those of them with an id nobody asked with

clientVars == <<lock, queue, nextId, call>>
serverVars == <<pending, alive, noise, strays>>
vars == <<clientVars, stdin, stdout, serverVars>>

Ids == Nat \ {0}
Failure == {"timeout", "closed", "mismatched", "skipped", "unparsed", "dropped"}

\* A line is the answer to an id, an answer to id 0 that nobody used (the
\* request of a server is read as one), a notification, a line that is not
\* JSON, or JSON that is not a response.
Line == [kind : {"answer"}, id : Nat] \cup [kind : {"note", "junk", "other"}]

TypeOK ==
  /\ lock \subseteq Call /\ Cardinality(lock) <= 1
  /\ queue \in Seq(Call) /\ nextId \in Ids
  /\ call \in [Call -> [at : {"idle", "waiting", "write", "read", "ended"},
                        id : Nat, mismatched : 0 .. MaxMismatched,
                        skipped : 0 .. MaxSkipped,
                        out : {"none", "answered"} \cup Failure, got : Nat]]
  /\ stdin \in Seq(Ids) /\ Len(stdin) <= Pipe
  /\ stdout \in Seq(Line) /\ Len(stdout) <= Pipe
  /\ pending \subseteq Ids /\ alive \in BOOLEAN
  /\ noise \in 0 .. MaxNoise /\ strays \in 0 .. MaxNoise

Init ==
  /\ lock = {} /\ queue = <<>> /\ nextId = 1
  /\ call = [c \in Call |-> [at |-> "idle", id |-> 0, mismatched |-> 0,
                             skipped |-> 0, out |-> "none", got |-> 0]]
  /\ stdin = <<>> /\ stdout = <<>> /\ pending = {}
  /\ alive = TRUE /\ noise = 0 /\ strays = 0

-----------------------------------------------------------------------------
(* send_request *)

Ask(c) ==
  /\ call[c].at = "idle"
  /\ call' = [call EXCEPT ![c].at = "waiting"] /\ queue' = Append(queue, c)
  /\ UNCHANGED <<lock, nextId, stdin, stdout, serverVars>>

\* Deviation: a request is written as soon as the writer before it is done.
Free_Reading == \A d \in lock : call[d].at # "write"
Free == lock = {}

Acquire(c) ==
  /\ call[c].at = "waiting" /\ Free /\ queue # <<>> /\ Head(queue) = c
  /\ lock' = {c} /\ queue' = Tail(queue) /\ nextId' = nextId + 1
  /\ call' = [call EXCEPT ![c].at = "write", ![c].id = nextId]
  /\ UNCHANGED <<stdin, stdout, serverVars>>

\* The guard is dropped with the request.
EndWith(c, out, got) ==
  /\ call' = [call EXCEPT ![c].at = "ended", ![c].out = out, ![c].got = got]
  /\ lock' = lock \ {c}

\* write_message waits for room without a deadline.
Write(c) ==
  /\ call[c].at = "write"
  /\ \/ /\ alive /\ Len(stdin) < Pipe
        /\ stdin' = Append(stdin, call[c].id)
        /\ call' = [call EXCEPT ![c].at = "read"] /\ UNCHANGED lock
     \/ ~alive /\ EndWith(c, "closed", 0) /\ UNCHANGED stdin
  /\ UNCHANGED <<queue, nextId, stdout, serverVars>>

\* Deviation: an answer to any request that was made is taken.
Mine_Any(c, line) == line.id > 0
Mine(c, line) == line.id = call[c].id

\* Deviation: the last stray the limit allows ends the request.
TooMany_Early(n, limit) == n >= limit

TooMany(n, limit) == n > limit

\* A line that does not parse counts against read_response, an answer to
\* another request against send_request.
Read(c) ==
  /\ call[c].at = "read" /\ stdout # <<>> /\ stdout' = Tail(stdout)
  /\ LET line       == Head(stdout)
         skipped    == call[c].skipped + 1
         mismatched == call[c].mismatched + 1 IN
     CASE line.kind = "note" -> UNCHANGED <<call, lock>>
       [] line.kind = "junk" /\ ~TooMany(skipped, MaxSkipped) ->
            call' = [call EXCEPT ![c].skipped = skipped] /\ UNCHANGED lock
       [] line.kind = "junk" /\ TooMany(skipped, MaxSkipped) ->
            EndWith(c, "skipped", 0)
       [] line.kind = "other" -> EndWith(c, "unparsed", 0)
       [] line.kind = "answer" /\ Mine(c, line) ->
            EndWith(c, "answered", line.id)
       [] line.kind = "answer" /\ ~Mine(c, line)
                               /\ ~TooMany(mismatched, MaxMismatched) ->
            /\ call' = [call EXCEPT ![c].mismatched = mismatched, ![c].skipped = 0]
            /\ UNCHANGED lock
       [] OTHER -> EndWith(c, "mismatched", 0)
  /\ UNCHANGED <<queue, nextId, stdin, serverVars>>

EndOfFile(c) ==
  /\ call[c].at = "read" /\ ~alive /\ stdout = <<>> /\ EndWith(c, "closed", 0)
  /\ UNCHANGED <<queue, nextId, stdin, stdout, serverVars>>

\* What was read of a line that is not complete yet is lost with the future
\* that read it: its rest is a line that does not parse.
MayTear ==
  \/ UNCHANGED stdout
  \/ Len(stdout) = 1 /\ Head(stdout).kind # "junk" /\ stdout' = <<[kind |-> "junk"]>>

\* Deviation: the deadline is that of the first line read.
Expires_FirstLine(c) == call[c].at = "read" /\ call[c].mismatched = 0
Expires(c) == call[c].at = "read"

Timeout(c) ==
  /\ Expires(c) /\ EndWith(c, "timeout", 0) /\ MayTear
  /\ UNCHANGED <<queue, nextId, stdin, serverVars>>

\* The caller drops the future; one that waits leaves the queue.
Abandon(c) ==
  /\ call[c].at \in {"waiting", "write", "read"} /\ EndWith(c, "dropped", 0)
  /\ IF call[c].at = "waiting"
     THEN \E i \in 1 .. Len(queue) :
            queue[i] = c /\ queue' = SubSeq(queue, 1, i - 1) \o SubSeq(queue, i + 1, Len(queue))
     ELSE UNCHANGED queue
  /\ IF call[c].at = "read" THEN MayTear ELSE UNCHANGED stdout
  /\ UNCHANGED <<nextId, stdin, serverVars>>

-----------------------------------------------------------------------------
(* The server. *)

Accept ==
  /\ alive /\ stdin # <<>>
  /\ pending' = pending \cup {Head(stdin)} /\ stdin' = Tail(stdin)
  /\ UNCHANGED <<clientVars, stdout, alive, noise, strays>>

\* In any order, or never.
Answer(id) ==
  /\ alive /\ id \in pending /\ Len(stdout) < Pipe
  /\ pending' = pending \ {id}
  /\ stdout' = Append(stdout, [kind |-> "answer", id |-> id])
  /\ UNCHANGED <<clientVars, stdin, alive, noise, strays>>

Chatter ==
  /\ alive /\ noise < MaxNoise /\ noise' = noise + 1 /\ Len(stdout) < Pipe
  /\ \/ \E kind \in {"note", "junk", "other"} :
          stdout' = Append(stdout, [kind |-> kind]) /\ UNCHANGED strays
     \/ /\ stdout' = Append(stdout, [kind |-> "answer", id |-> 0])
        /\ strays' = strays + 1
  /\ UNCHANGED <<clientVars, stdin, pending, alive>>

Exit ==
  /\ alive /\ alive' = FALSE /\ pending' = {} /\ stdin' = <<>>
  /\ UNCHANGED <<clientVars, stdout, noise, strays>>

-----------------------------------------------------------------------------

Advance(c) == Acquire(c) \/ Write(c) \/ Read(c) \/ EndOfFile(c) \/ Timeout(c)

Next ==
  \/ \E c \in Call : Ask(c) \/ Advance(c) \/ Abandon(c)
  \/ \E id \in pending : Answer(id)
  \/ Accept \/ Chatter \/ Exit

\* A request that can go on does, at the latest when its deadline passes, and
\* the server reads its input; it need not answer, nor the callers ask.
Fairness == WF_vars(\E c \in Call : Advance(c)) /\ WF_vars(Accept)

Spec == Init /\ [][Next]_vars /\ Fairness

-----------------------------------------------------------------------------
(* Properties *)

\* A request ends with the server's answer to that request or with an error,
\* whatever the requests before it left in the pipe.
OwnAnswer == \A c \in Call : call[c].out = "answered" => call[c].got = call[c].id

\* "Correctness relies on `io_lock` serializing each request-write ->
\* response-read pair" (client.rs:51): an answer is thrown away only when the
\* request it answers has ended.
NoAnswerStolen ==
  \A c, d \in Call :
    Read(c) /\ Head(stdout).kind = "answer" /\ Head(stdout).id = call[d].id
    => d = c \/ call[d].at \in {"idle", "waiting", "ended"}

\* A request fails for its strays only if the server sent them unasked or as
\* many requests before it were given up: a server that answers in time what
\* it is asked never meets the limit.
MismatchEarned ==
  \A c \in Call : call[c].out = "mismatched" =>
    Cardinality({d \in Call : /\ call[d].out \in Failure
                              /\ call[d].id \in 1 .. call[c].id - 1})
      + strays > MaxMismatched

\* Nothing but strays is thrown away, and nobody pays for strays that could have
\* been answered: the two together.
OnlyStraysDropped == [][NoAnswerStolen /\ MismatchEarned']_vars

\* Every request ends, though the server never answers and sends lines that
\* answer nothing.
RequestsEnd == \A c \in Call : call[c].at = "waiting" ~> call[c].at = "ended"
=============================================================================
