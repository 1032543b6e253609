-------------------------- MODULE McpClient_proofs --------------------------
(***************************************************************************)
(* Theorems about McpClient for any requests, limits, noise and failures   *)
(* of the server: its types, that a request ends with its own answer or    *)
(* with an error, and that the lines a request throws away are strays for  *)
(* which somebody else is to blame.                                        *)
(***************************************************************************)
EXTENDS McpClient, FiniteSetTheorems, SequenceTheorems, TLAPS

-----------------------------------------------------------------------------
(* The invariant. *)

\* io_lock is held by the one request between its write and its answer.
Mutual ==
  /\ \A c \in Call : c \in lock <=> call[c].at \in {"write", "read"}
  /\ \A c, d \in lock : c = d

\* Ids are handed out in order, each once, and the latest is the holder's.
Numbered ==
  /\ \A c \in Call :
       /\ call[c].id < nextId
       /\ call[c].at \in {"idle", "waiting"} => call[c].id = 0
       /\ call[c].at \in {"write", "read"} => call[c].id = nextId - 1 /\ call[c].id > 0
       /\ call[c].out = "none" <=> call[c].at # "ended"
  /\ \A c, d \in Call : call[c].id = call[d].id /\ call[c].id > 0 => c = d

Answers(s) == {i \in 1 .. Len(s) : s[i].kind = "answer"}

\* The ids on their way, at the server, or answered but unread.
Due == {stdin[i] : i \in 1 .. Len(stdin)} \cup pending \cup {stdout[i].id : i \in Answers(stdout)}

\* It is in one of the three places, and there once.
Unique ==
  /\ \A i, j \in 1 .. Len(stdin) : stdin[i] = stdin[j] => i = j
  /\ \A i \in 1 .. Len(stdin) : stdin[i] \notin pending
  /\ \A i, j \in Answers(stdout) : stdout[i].id = stdout[j].id /\ stdout[i].id > 0 => i = j
  /\ \A i \in Answers(stdout) :
       stdout[i].id \notin pending /\ \A j \in 1 .. Len(stdin) : stdin[j] # stdout[i].id

\* It belongs to the request that waits for it or to one that was given up.
Owed ==
  \A k \in Due \ {0} :
    \E c \in Call : call[c].id = k /\ (call[c].at = "read" \/ call[c].out \in Failure)

\* The answers nobody asked for.
StraysIn(s) == {i \in Answers(s) : s[i].id = 0}

\* The earlier requests that were given up, and those of them that nothing is
\* due for any more.
GivenUp(c) == {d \in Call : call[d].out \in Failure /\ call[d].id \in 1 .. call[c].id - 1}
Settled(c) == {d \in GivenUp(c) : call[d].id \notin Due}

\* A request has read no more strays than were sent unasked or are settled.
Paid ==
  /\ Cardinality(StraysIn(stdout)) <= strays
  /\ \A c \in Call :
       /\ call[c].at \in {"idle", "waiting", "write"} => call[c].mismatched = 0
       /\ call[c].at = "read" =>
            call[c].mismatched + Cardinality(StraysIn(stdout)) <= Cardinality(Settled(c)) + strays

-----------------------------------------------------------------------------
(* Who holds the lock, and which request has which id. *)

Request == [at : {"idle", "waiting", "write", "read", "ended"}, id : Nat,
            mismatched : 0 .. MaxMismatched, skipped : 0 .. MaxSkipped,
            out : {"none", "answered"} \cup Failure, got : Nat]

Base == TypeOK /\ Mutual /\ Numbered /\ strays <= noise

ClientInv == Base /\ Unique /\ Owed /\ Paid /\ MismatchEarned

\* A lock with one holder has one place, an empty one none.
LEMMA HolderType ==
  ASSUME NEW S, \A c, d \in S : c = d
  PROVE  Cardinality(S) <= 1
<1>1. S = {} \/ \E c : S = {c}
  OBVIOUS
<1>2. Cardinality({}) = 0 BY FS_EmptySet
<1>3. ASSUME NEW c, S = {c} PROVE Cardinality(S) = 1 BY <1>3, FS_Singleton
<1>4. Cardinality(S) \in {0, 1} BY <1>1, <1>2, <1>3
<1> QED BY <1>4

\* The end of a request changes that request and frees its lock.
LEMMA Ended ==
  ASSUME TypeOK, NEW c \in Call, NEW out \in {"answered"} \cup Failure, NEW got \in Nat,
         EndWith(c, out, got)
  PROVE  /\ call' \in [Call -> Request] /\ lock' = lock \ {c}
         /\ call'[c] = [call[c] EXCEPT !.at = "ended", !.out = out, !.got = got]
         /\ \A d \in Call \ {c} : call'[d] = call[d]
<1>1. call \in [Call -> Request]
  BY DEF TypeOK, Request
<1>2. call'[c] = [call[c] EXCEPT !.at = "ended", !.out = out, !.got = got]
  BY <1>1 DEF EndWith
<1>3. call'[c] \in Request
  <2>1. call[c] \in Request BY <1>1
  <2> QED BY <1>2, <2>1 DEF Request
<1> QED BY <1>1, <1>2, <1>3 DEF EndWith

\* When a request ends or goes on reading, its lock and its id are in order.
LEMMA EndKeeps ==
  ASSUME Base, NEW c \in Call, call[c].at \in {"waiting", "write", "read"},
         NEW out \in {"answered"} \cup Failure, NEW got \in Nat,
         EndWith(c, out, got), nextId' = nextId
  PROVE  /\ lock' \subseteq Call /\ Cardinality(lock') <= 1 /\ call' \in [Call -> Request]
         /\ Mutual' /\ Numbered'
<1>1. /\ call' \in [Call -> Request] /\ lock' = lock \ {c}
      /\ call'[c] = [call[c] EXCEPT !.at = "ended", !.out = out, !.got = got]
      /\ \A d \in Call \ {c} : call'[d] = call[d]
  BY Ended DEF Base
<1>2. call[c] \in Request /\ lock \subseteq Call
  BY DEF Base, TypeOK, Request
<1>3. call'[c].at = "ended" /\ call'[c].out = out /\ call'[c].id = call[c].id /\ out # "none"
  BY <1>1, <1>2 DEF Request, Failure
<1>4. Mutual'
  BY <1>1, <1>3 DEF Base, Mutual
<1>5. Numbered'
  <2>1. /\ \A d \in Call : call'[d].id = call[d].id
        /\ \A d \in Call \ {c} : call'[d].at = call[d].at /\ call'[d].out = call[d].out
    BY <1>1, <1>3
  <2> QED BY <1>3, <2>1 DEF Base, Numbered
<1> QED BY <1>1, <1>2, <1>4, <1>5, HolderType DEF Mutual

\* What the pipes hold after a line is put in or taken out.
LEMMA PipeTypes ==
  ASSUME NEW S, NEW s \in Seq(S), NEW e \in S, Len(s) <= Pipe
  PROVE  /\ Len(s) < Pipe => Append(s, e) \in Seq(S) /\ Len(Append(s, e)) <= Pipe
         /\ s # <<>> => Tail(s) \in Seq(S) /\ Len(Tail(s)) <= Pipe
<1>1. Pipe \in Nat BY LimitAssumption
<1> QED BY <1>1

LEMMA LineTypes ==
  /\ \A k \in Nat : [kind |-> "answer", id |-> k] \in Line
  /\ \A kind \in {"note", "junk", "other"} : [kind |-> kind] \in Line
  /\ \A line \in Line : line.kind = "answer" => line.id \in Nat
BY DEF Line

\* A waiter that leaves the queue.
LEMMA LeavesQueue ==
  ASSUME NEW S, NEW s \in Seq(S), NEW i \in 1 .. Len(s)
  PROVE  SubSeq(s, 1, i - 1) \o SubSeq(s, i + 1, Len(s)) \in Seq(S)
<1>1. SubSeq(s, 1, i - 1) \in Seq(S) /\ SubSeq(s, i + 1, Len(s)) \in Seq(S)
  BY SubSeqProperties
<1> QED BY <1>1, ConcatProperties

\* A torn line does not parse.
LEMMA TearTypes ==
  ASSUME TypeOK, MayTear
  PROVE  stdout' \in Seq(Line) /\ Len(stdout') <= Pipe
<1>1. CASE UNCHANGED stdout
  BY <1>1 DEF TypeOK
<1>2. CASE Len(stdout) = 1 /\ stdout' = <<[kind |-> "junk"]>>
  <2>1. stdout' \in Seq(Line) /\ Len(stdout') = 1
    BY <1>2, LineTypes
  <2> QED BY <1>2, <2>1 DEF TypeOK
<1> QED BY <1>1, <1>2 DEF MayTear

LEMMA AskBase == ASSUME Base, NEW c \in Call, Ask(c) PROVE Base'
<1>1. call \in [Call -> Request] /\ call[c] \in Request /\ call[c].at = "idle"
  BY DEF Ask, Base, TypeOK, Request
<1>2. /\ call' = [call EXCEPT ![c].at = "waiting"] /\ queue' = Append(queue, c)
      /\ UNCHANGED <<lock, nextId, stdin, stdout, pending, alive, noise, strays>>
  BY DEF Ask, serverVars
<1>3. /\ call' \in [Call -> Request] /\ call'[c] = [call[c] EXCEPT !.at = "waiting"]
      /\ \A d \in Call \ {c} : call'[d] = call[d]
  BY <1>1, <1>2 DEF Request
<1>4. queue' \in Seq(Call)
  BY <1>2, AppendProperties DEF Base, TypeOK
<1>5. Mutual' /\ Numbered'
  BY <1>1, <1>2, <1>3 DEF Base, Mutual, Numbered, Request
<1>6. TypeOK'
  BY <1>2, <1>3, <1>4 DEF Base, TypeOK, Request
<1> QED BY <1>2, <1>5, <1>6 DEF Base

\* The lock is given with the next id.
LEMMA AcquireBase == ASSUME Base, NEW c \in Call, Acquire(c) PROVE Base'
<1>1. /\ call \in [Call -> Request] /\ call[c] \in Request /\ call[c].at = "waiting"
      /\ lock = {} /\ queue \in Seq(Call) /\ queue # <<>> /\ nextId \in Ids
  BY DEF Acquire, Free, Base, TypeOK, Request
<1>2. /\ lock' = {c} /\ queue' = Tail(queue) /\ nextId' = nextId + 1
      /\ call' = [call EXCEPT ![c].at = "write", ![c].id = nextId]
      /\ UNCHANGED <<stdin, stdout, pending, alive, noise, strays>>
  BY DEF Acquire, serverVars
<1>3. /\ call' \in [Call -> Request] /\ call'[c] = [call[c] EXCEPT !.at = "write", !.id = nextId]
      /\ \A d \in Call \ {c} : call'[d] = call[d]
  BY <1>1, <1>2 DEF Request, Ids
<1>4. /\ call'[c].at = "write" /\ call'[c].id = nextId /\ call'[c].out = call[c].out
  BY <1>1, <1>3 DEF Request
<1>5. Mutual'
  BY <1>1, <1>2, <1>3, <1>4 DEF Base, Mutual
<1>6. Numbered'
  <2>1. \A d \in Call : call[d].id < nextId /\ call[d].id \in Nat
    BY <1>1 DEF Base, Numbered, Request
  <2>2. \A d \in Call \ {c} : call[d].at \notin {"write", "read"}
    BY <1>1 DEF Base, Mutual
  <2>3. nextId' = nextId + 1 /\ nextId \in Nat /\ nextId > 0
    BY <1>1, <1>2 DEF Ids
  <2>4. /\ call[c].id = 0 /\ call[c].out = "none"
        /\ \A d \in Call \ {c} : /\ call'[d].id = call[d].id /\ call'[d].at = call[d].at
                                 /\ call'[d].out = call[d].out
    BY <1>1, <1>3 DEF Base, Numbered
  <2>5. \A d \in Call :
          /\ call'[d].id < nextId'
          /\ call'[d].at \in {"idle", "waiting"} => call'[d].id = 0
          /\ call'[d].at \in {"write", "read"} => call'[d].id = nextId' - 1 /\ call'[d].id > 0
          /\ call'[d].out = "none" <=> call'[d].at # "ended"
    BY <1>4, <2>1, <2>2, <2>3, <2>4 DEF Base, Numbered
  <2>6. \A d, e \in Call : call'[d].id = call'[e].id /\ call'[d].id > 0 => d = e
    BY <1>4, <2>1, <2>3, <2>4 DEF Base, Numbered
  <2> QED BY <2>5, <2>6 DEF Numbered
<1>7. TypeOK'
  <2>1. queue' \in Seq(Call) /\ nextId' \in Ids
    BY <1>1, <1>2, HeadTailProperties DEF Ids
  <2>2. lock' \subseteq Call /\ Cardinality(lock') <= 1
    BY <1>2, HolderType
  <2> QED BY <1>2, <1>3, <2>1, <2>2 DEF Base, TypeOK, Request
<1> QED BY <1>2, <1>5, <1>6, <1>7 DEF Base

\* The request goes to the server with the id it was given.
LEMMA WriteBase == ASSUME Base, NEW c \in Call, Write(c) PROVE Base'
<1>1. /\ call \in [Call -> Request] /\ call[c] \in Request /\ call[c].at = "write"
      /\ UNCHANGED <<queue, nextId, stdout, pending, alive, noise, strays>>
  BY DEF Write, Base, TypeOK, Request, serverVars
<1>2. CASE EndWith(c, "closed", 0) /\ UNCHANGED stdin
  <2>1. /\ lock' \subseteq Call /\ Cardinality(lock') <= 1 /\ call' \in [Call -> Request]
        /\ Mutual' /\ Numbered'
    BY <1>1, <1>2, EndKeeps DEF Failure
  <2> QED BY <1>1, <1>2, <2>1 DEF Base, TypeOK, Request
<1>3. CASE /\ Len(stdin) < Pipe /\ stdin' = Append(stdin, call[c].id)
           /\ call' = [call EXCEPT ![c].at = "read"] /\ UNCHANGED lock
  <2>1. call[c].id \in Ids
    BY <1>1 DEF Base, Numbered, Request, Ids
  <2>2. stdin' \in Seq(Ids) /\ Len(stdin') <= Pipe
    BY <1>3, <2>1, PipeTypes DEF Base, TypeOK
  <2>3. /\ call' \in [Call -> Request] /\ call'[c] = [call[c] EXCEPT !.at = "read"]
        /\ \A d \in Call \ {c} : call'[d] = call[d]
    BY <1>1, <1>3 DEF Request
  <2>4. TypeOK'
    BY <1>1, <1>3, <2>2, <2>3 DEF Base, TypeOK, Request
  <2>5. /\ \A d \in Call : call'[d].id = call[d].id /\ call'[d].out = call[d].out
        /\ call'[c].at = "read" /\ \A d \in Call \ {c} : call'[d].at = call[d].at
    BY <1>1, <2>3 DEF Request
  <2>6. Mutual' /\ Numbered'
    BY <1>1, <1>3, <2>5 DEF Base, Mutual, Numbered
  <2> QED BY <1>1, <2>4, <2>6 DEF Base
<1> QED BY <1>2, <1>3 DEF Write

\* What a line can do to the request that reads it.
GoesOn(c, r) ==
  /\ r.at = "read" /\ r.id = call[c].id /\ r.out = call[c].out /\ UNCHANGED lock
  /\ call' = [call EXCEPT ![c] = r]
  /\ \/ /\ r.mismatched = call[c].mismatched
        /\ Head(stdout).kind # "answer"
     \/ /\ r.mismatched = call[c].mismatched + 1
        /\ Head(stdout).kind = "answer" /\ ~Mine(c, Head(stdout))
EndsSo(c, out, got) ==
  /\ EndWith(c, out, got)
  /\ out = "answered" => Head(stdout).kind = "answer" /\ Mine(c, Head(stdout)) /\ got = call[c].id
  /\ out = "mismatched" => /\ Head(stdout).kind = "answer" /\ ~Mine(c, Head(stdout))
                           /\ call[c].mismatched + 1 > MaxMismatched

LEMMA ReadOutcome ==
  ASSUME Base, NEW c \in Call, Read(c)
  PROVE  \/ \E r \in Request : GoesOn(c, r)
         \/ \E out \in {"answered"} \cup Failure, got \in Nat : EndsSo(c, out, got)
<1> DEFINE line == Head(stdout)
<1>0. /\ call \in [Call -> Request] /\ call[c] \in Request /\ line \in Line
      /\ call[c].at = "read" /\ MaxMismatched \in Nat /\ MaxSkipped \in Nat
  BY LimitAssumption DEF Read, Base, TypeOK, Request
<1>1. CASE line.kind = "note"
  <2>1. call' = call /\ lock' = lock
    BY <1>1 DEF Read
  <2>2. GoesOn(c, call[c])
    BY <1>0, <1>1, <2>1 DEF GoesOn
  <2> QED BY <1>0, <2>2
<1>2. CASE line.kind = "junk"
  <2>1. CASE ~TooMany(call[c].skipped + 1, MaxSkipped)
    <3> DEFINE r == [call[c] EXCEPT !.skipped = call[c].skipped + 1]
    <3>1. call' = [call EXCEPT ![c] = r] /\ lock' = lock
      BY <1>0, <1>2, <2>1 DEF Read
    <3>2. r \in Request /\ r.at = "read" /\ r.id = call[c].id /\ r.out = call[c].out
          /\ r.mismatched = call[c].mismatched
      BY <1>0, <2>1 DEF Request, TooMany
    <3> HIDE DEF r
    <3> QED BY <1>2, <3>1, <3>2 DEF GoesOn
  <2>2. CASE TooMany(call[c].skipped + 1, MaxSkipped)
    <3>1. EndWith(c, "skipped", 0)
      BY <1>2, <2>2 DEF Read
    <3> QED BY <3>1 DEF EndsSo, Failure
  <2> QED BY <2>1, <2>2
<1>3. CASE line.kind = "other"
  <2>1. EndWith(c, "unparsed", 0)
    BY <1>3 DEF Read
  <2> QED BY <2>1 DEF EndsSo, Failure
<1>4. CASE line.kind = "answer" /\ Mine(c, line)
  <2>1. EndWith(c, "answered", line.id) /\ line.id = call[c].id
    BY <1>4 DEF Read, Mine
  <2> QED BY <1>0, <1>4, <2>1 DEF EndsSo, Request
<1>5. CASE line.kind = "answer" /\ ~Mine(c, line)
  <2>1. CASE ~TooMany(call[c].mismatched + 1, MaxMismatched)
    <3> DEFINE r == [call[c] EXCEPT !.mismatched = call[c].mismatched + 1, !.skipped = 0]
    <3>1. call' = [call EXCEPT ![c] = r] /\ lock' = lock
      BY <1>0, <1>5, <2>1 DEF Read
    <3>2. r \in Request /\ r.at = "read" /\ r.id = call[c].id /\ r.out = call[c].out
          /\ r.mismatched = call[c].mismatched + 1
      <4>1. call[c].mismatched + 1 \in 0 .. MaxMismatched /\ 0 \in 0 .. MaxSkipped
        BY <1>0, <2>1 DEF Request, TooMany
      <4> QED BY <1>0, <4>1 DEF Request
    <3> HIDE DEF r
    <3> QED BY <1>5, <3>1, <3>2 DEF GoesOn
  <2>2. CASE TooMany(call[c].mismatched + 1, MaxMismatched)
    <3>1. EndWith(c, "mismatched", 0)
      BY <1>5, <2>2 DEF Read
    <3> QED BY <1>5, <2>2, <3>1 DEF EndsSo, Failure, TooMany
  <2> QED BY <2>1, <2>2
<1> QED BY <1>0, <1>1, <1>2, <1>3, <1>4, <1>5 DEF Line

LEMMA ReadBase == ASSUME Base, NEW c \in Call, Read(c) PROVE Base'
<1>1. /\ call \in [Call -> Request] /\ call[c] \in Request /\ call[c].at = "read"
      /\ UNCHANGED <<queue, nextId, stdin, pending, alive, noise, strays>>
      /\ stdout' \in Seq(Line) /\ Len(stdout') <= Pipe
  <2>1. stdout' = Tail(stdout) /\ stdout # <<>> /\ stdout \in Seq(Line) /\ Len(stdout) <= Pipe
    BY DEF Read, Base, TypeOK
  <2>2. stdout' \in Seq(Line) /\ Len(stdout') <= Pipe
    BY <2>1, LimitAssumption
  <2>3. call \in [Call -> Request] /\ call[c] \in Request
    BY DEF Base, TypeOK, Request
  <2> QED BY <2>2, <2>3 DEF Read, serverVars
<1>2. ASSUME NEW r \in Request, GoesOn(c, r) PROVE Base'
  <2>1. /\ call' \in [Call -> Request] /\ lock' = lock
        /\ \A d \in Call : /\ call'[d].at = call[d].at /\ call'[d].id = call[d].id
                           /\ call'[d].out = call[d].out
    BY <1>1, <1>2 DEF GoesOn
  <2>2. Mutual' /\ Numbered'
    BY <1>1, <2>1 DEF Base, Mutual, Numbered
  <2> QED BY <1>1, <2>1, <2>2 DEF Base, TypeOK, Request
<1>3. ASSUME NEW out \in {"answered"} \cup Failure, NEW got \in Nat, EndsSo(c, out, got)
      PROVE  Base'
  <2>1. /\ lock' \subseteq Call /\ Cardinality(lock') <= 1 /\ call' \in [Call -> Request]
        /\ Mutual' /\ Numbered'
    BY <1>1, <1>3, EndKeeps DEF EndsSo
  <2> QED BY <1>1, <2>1 DEF Base, TypeOK, Request
<1> QED BY <1>2, <1>3, ReadOutcome

\* A request that is over at any other point: the pipe is closed, the deadline
\* passed, the caller gone.
GivesUp(c, out) ==
  /\ out \in Failure \ {"mismatched"} /\ EndWith(c, out, 0)
  /\ call[c].at \in {"waiting", "write", "read"}
  /\ UNCHANGED <<nextId, stdin, serverVars>>
  /\ MayTear /\ (call[c].at # "read" => UNCHANGED stdout)

LEMMA GivesUpSteps ==
  ASSUME TypeOK, NEW c \in Call, EndOfFile(c) \/ Timeout(c) \/ Abandon(c)
  PROVE  queue' \in Seq(Call) /\ \E out \in Failure : GivesUp(c, out)
<1>1. CASE EndOfFile(c)
  <2>1. GivesUp(c, "closed")
    BY <1>1 DEF EndOfFile, GivesUp, Failure, MayTear
  <2> QED BY <1>1, <2>1 DEF EndOfFile, TypeOK, Failure
<1>2. CASE Timeout(c)
  <2>1. GivesUp(c, "timeout")
    BY <1>2 DEF Timeout, Expires, GivesUp, Failure
  <2> QED BY <1>2, <2>1 DEF Timeout, TypeOK, Failure
<1>3. CASE Abandon(c)
  <2>1. GivesUp(c, "dropped")
    BY <1>3 DEF Abandon, GivesUp, Failure, MayTear
  <2>2. CASE call[c].at = "waiting"
    <3>1. PICK i \in 1 .. Len(queue) :
            queue' = SubSeq(queue, 1, i - 1) \o SubSeq(queue, i + 1, Len(queue))
      BY <1>3, <2>2 DEF Abandon
    <3> QED BY <2>1, <3>1, LeavesQueue DEF TypeOK, Failure
  <2>3. CASE call[c].at # "waiting"
    BY <1>3, <2>1, <2>3 DEF Abandon, TypeOK, Failure
  <2> QED BY <2>2, <2>3
<1> QED BY <1>1, <1>2, <1>3

LEMMA GivesUpBase ==
  ASSUME Base, NEW c \in Call, EndOfFile(c) \/ Timeout(c) \/ Abandon(c)
  PROVE  Base'
<1>1. PICK out \in Failure : GivesUp(c, out)
  BY GivesUpSteps DEF Base
<1>2. /\ lock' \subseteq Call /\ Cardinality(lock') <= 1 /\ call' \in [Call -> Request]
      /\ Mutual' /\ Numbered'
  BY <1>1, EndKeeps DEF GivesUp
<1>3. queue' \in Seq(Call) /\ stdout' \in Seq(Line) /\ Len(stdout') <= Pipe
  BY <1>1, GivesUpSteps, TearTypes DEF GivesUp, Base
<1> QED BY <1>1, <1>2, <1>3 DEF GivesUp, Base, TypeOK, Request, serverVars

\* The server leaves the requests as they are.
LEMMA ServerBase ==
  ASSUME Base, (\E id \in pending : Answer(id)) \/ Accept \/ Chatter \/ Exit
  PROVE  Base' /\ UNCHANGED clientVars
<1>1. UNCHANGED <<lock, queue, nextId, call>>
  BY DEF Answer, Accept, Chatter, Exit, clientVars
<1>2. stdin' \in Seq(Ids) /\ Len(stdin') <= Pipe
  <2>1. stdin' = stdin \/ stdin' = <<>> \/ (stdin # <<>> /\ stdin' = Tail(stdin))
    BY DEF Answer, Accept, Chatter, Exit
  <2>2. stdin \in Seq(Ids) /\ Len(stdin) <= Pipe /\ Pipe \in Nat
    BY LimitAssumption DEF Base, TypeOK
  <2>3. CASE stdin' = stdin
    BY <2>2, <2>3
  <2>4. CASE stdin' = <<>>
    BY <2>2, <2>4
  <2>5. CASE stdin # <<>> /\ stdin' = Tail(stdin)
    BY <2>2, <2>5
  <2> QED BY <2>1, <2>3, <2>4, <2>5
<1>3. stdout' \in Seq(Line) /\ Len(stdout') <= Pipe
  <2>1. ASSUME NEW line \in Line, Len(stdout) < Pipe, stdout' = Append(stdout, line)
        PROVE  stdout' \in Seq(Line) /\ Len(stdout') <= Pipe
    BY <2>1, PipeTypes DEF Base, TypeOK
  <2>2. ASSUME NEW id \in pending, Answer(id)
        PROVE  stdout' \in Seq(Line) /\ Len(stdout') <= Pipe
    <3>1. [kind |-> "answer", id |-> id] \in Line
      BY LineTypes DEF Base, TypeOK, Ids
    <3> QED BY <2>1, <2>2, <3>1 DEF Answer
  <2>3. CASE Chatter
    <3>1. CASE stdout' = Append(stdout, [kind |-> "answer", id |-> 0])
      BY <2>1, <2>3, <3>1, LineTypes DEF Chatter
    <3>2. ASSUME NEW kind \in {"note", "junk", "other"}, stdout' = Append(stdout, [kind |-> kind])
          PROVE  stdout' \in Seq(Line) /\ Len(stdout') <= Pipe
      BY <2>1, <2>3, <3>2, LineTypes DEF Chatter
    <3> QED BY <2>3, <3>1, <3>2 DEF Chatter
  <2>4. CASE Accept \/ Exit
    BY <2>4 DEF Accept, Exit, Base, TypeOK
  <2> QED BY <2>2, <2>3, <2>4
<1>4. pending' \subseteq Ids
  <2>1. stdin # <<>> => Head(stdin) \in Ids
    BY HeadTailProperties DEF Base, TypeOK
  <2> QED BY <2>1 DEF Base, TypeOK, Answer, Accept, Chatter, Exit
<1>5. /\ alive' \in BOOLEAN /\ noise' \in 0 .. MaxNoise /\ strays' \in 0 .. MaxNoise
      /\ strays' <= noise'
  <2>1. MaxNoise \in Nat /\ noise \in 0 .. MaxNoise /\ strays \in 0 .. MaxNoise /\ strays <= noise
    BY LimitAssumption DEF Base, TypeOK
  <2>2. CASE Chatter
    <3>1. noise < MaxNoise /\ noise' = noise + 1 /\ strays' \in {strays, strays + 1} /\ alive' = alive
      BY <2>2 DEF Chatter
    <3> QED BY <2>1, <3>1 DEF Base, TypeOK
  <2>3. CASE ~Chatter
    <3>1. UNCHANGED <<noise, strays>> /\ alive' \in BOOLEAN
      BY <2>3 DEF Base, TypeOK, Answer, Accept, Exit
    <3> QED BY <2>1, <3>1
  <2> QED BY <2>2, <2>3
<1>6. TypeOK'
  BY <1>1, <1>2, <1>3, <1>4, <1>5 DEF Base, TypeOK
<1>7. Mutual' /\ Numbered'
  BY <1>1 DEF Base, Mutual, Numbered
<1> QED BY <1>1, <1>5, <1>6, <1>7 DEF Base, clientVars

LEMMA BaseStep == ASSUME Base, [Next]_vars PROVE Base'
<1>1. CASE UNCHANGED vars
  BY <1>1 DEF vars, clientVars, serverVars, Base, TypeOK, Mutual, Numbered
<1> QED BY <1>1, AskBase, AcquireBase, WriteBase, ReadBase, GivesUpBase, ServerBase
        DEF Next, Advance

LEMMA BaseStart == Init => Base
<1> SUFFICES ASSUME Init PROVE Base
  OBVIOUS
<1>1. Cardinality(lock) <= 1
  BY FS_EmptySet DEF Init
<1>2. TypeOK
  BY <1>1, LimitAssumption, EmptySeq DEF Init, TypeOK, Ids
<1> QED BY <1>2 DEF Init, Base, Mutual, Numbered

\* Every variable keeps its type; the lock has one holder at most.
THEOREM ClientTyping == Spec => []TypeOK
<1> QED BY BaseStart, BaseStep, PTL DEF Spec, Base

-----------------------------------------------------------------------------
(* The answer a request ends with. *)

LEMMA OwnAnswerStep == ASSUME Base, OwnAnswer, [Next]_vars PROVE OwnAnswer'
<1>0. call \in [Call -> Request] /\ \A c \in Call : call[c].out = "none" <=> call[c].at # "ended"
  BY DEF Base, TypeOK, Request, Numbered
<1>1. ASSUME NEW c \in Call, Ask(c) \/ Acquire(c) PROVE OwnAnswer'
  BY <1>0, <1>1 DEF Ask, Acquire, OwnAnswer, Request
<1>2. ASSUME NEW c \in Call, NEW out \in {"answered"} \cup Failure, NEW got \in Nat,
             EndWith(c, out, got), out = "answered" => got = call[c].id
      PROVE  OwnAnswer'
  <2>1. /\ call'[c] = [call[c] EXCEPT !.at = "ended", !.out = out, !.got = got]
        /\ \A d \in Call \ {c} : call'[d] = call[d]
    <3>1. TypeOK /\ EndWith(c, out, got)
      BY <1>2 DEF Base
    <3> QED BY <3>1, Ended
  <2>2. call'[c].out = out /\ call'[c].got = got /\ call'[c].id = call[c].id
    BY <1>0, <2>1 DEF Request
  <2> QED BY <1>2, <2>1, <2>2 DEF OwnAnswer
<1>3. ASSUME NEW c \in Call, Write(c) PROVE OwnAnswer'
  <2>1. CASE EndWith(c, "closed", 0)
    BY <1>2, <2>1 DEF Failure
  <2>2. CASE call' = [call EXCEPT ![c].at = "read"]
    BY <1>0, <2>2 DEF OwnAnswer, Request
  <2> QED BY <1>3, <2>1, <2>2 DEF Write
<1>4. ASSUME NEW c \in Call, Read(c) PROVE OwnAnswer'
  <2>1. ASSUME NEW r \in Request, GoesOn(c, r) PROVE OwnAnswer'
    <3>1. call[c].out = "none" /\ r.out = "none"
      BY <1>0, <1>4, <2>1 DEF GoesOn, Read
    <3> QED BY <1>0, <2>1, <3>1 DEF GoesOn, OwnAnswer
  <2> QED BY <1>2, <1>4, <2>1, ReadOutcome DEF EndsSo
<1>5. ASSUME NEW c \in Call, EndOfFile(c) \/ Timeout(c) \/ Abandon(c) PROVE OwnAnswer'
  BY <1>2, <1>5, GivesUpSteps DEF Base, GivesUp, Failure
<1>6. CASE (\E id \in pending : Answer(id)) \/ Accept \/ Chatter \/ Exit
  BY <1>6, ServerBase DEF clientVars, OwnAnswer
<1>7. CASE UNCHANGED vars
  BY <1>7 DEF vars, clientVars, OwnAnswer
<1> QED BY <1>1, <1>3, <1>4, <1>5, <1>6, <1>7 DEF Next, Advance

\* A request ends with the server's answer to that request or with an error,
\* whatever was left in the pipe by the requests before it.
THEOREM OwnAnswerHolds == Spec => []OwnAnswer
<1>1. Init => OwnAnswer
  BY DEF Init, OwnAnswer
<1> QED BY <1>1, BaseStart, BaseStep, OwnAnswerStep, PTL DEF Spec

-----------------------------------------------------------------------------
(* Where the id of a request is on its way. *)

\* A step that only takes lines out of the pipes, or the ids with the server.
LEMMA PipesShrink ==
  ASSUME Base, Unique, stdin' = stdin \/ stdin' = <<>>, pending' = pending \/ pending' = {},
         \/ stdout' = stdout
         \/ stdout # <<>> /\ stdout' = Tail(stdout)
         \/ stdout' = <<[kind |-> "junk"]>>
  PROVE  /\ Unique' /\ Due' \subseteq Due
         /\ stdout # <<>> /\ stdout' = Tail(stdout) /\ Head(stdout).kind = "answer"
            /\ Head(stdout).id > 0 => Head(stdout).id \in Due \ Due'
<1>0. stdin \in Seq(Ids) /\ stdout \in Seq(Line) /\ pending \subseteq Ids
  BY DEF Base, TypeOK
<1>1. CASE stdout # <<>> /\ stdout' = Tail(stdout)
  <2>1. /\ Answers(stdout') = {i \in 1 .. Len(stdout) - 1 : stdout[i + 1].kind = "answer"}
        /\ \A i \in Answers(stdout') : i + 1 \in Answers(stdout) /\ stdout'[i] = stdout[i + 1]
        /\ Head(stdout) = stdout[1]
    BY <1>0, <1>1 DEF Answers
  <2>2. Unique'
    BY <1>0, <2>1 DEF Unique
  <2>3. Due' \subseteq Due
    BY <1>0, <2>1 DEF Due
  <2>4. ASSUME Head(stdout).kind = "answer", Head(stdout).id > 0
        PROVE  Head(stdout).id \in Due \ Due'
    <3>1. 1 \in Answers(stdout) /\ stdout[1].id > 0
      BY <1>0, <1>1, <2>1, <2>4 DEF Answers
    <3>2. \A i \in Answers(stdout') : stdout'[i].id # stdout[1].id
      BY <2>1, <3>1 DEF Unique, Answers
    <3>3. stdout[1].id \notin pending' /\ \A j \in 1 .. Len(stdin') : stdin'[j] # stdout[1].id
      BY <3>1 DEF Unique
    <3> QED BY <2>1, <3>1, <3>2, <3>3 DEF Due
  <2> QED BY <2>2, <2>3, <2>4
<1>2. CASE stdout' = stdout
  BY <1>0, <1>2 DEF Unique, Due
<1>3. CASE stdout' = <<[kind |-> "junk"]>> /\ ~(stdout # <<>> /\ stdout' = Tail(stdout))
  <2>1. Answers(stdout') = {}
    BY <1>3 DEF Answers
  <2> QED BY <1>0, <1>3, <2>1 DEF Unique, Due
<1> QED BY <1>1, <1>2, <1>3

\* A request is written: its id is new on the way.
LEMMA PipesWritten ==
  ASSUME Base, Unique, Owed, NEW c \in Call, call[c].at = "write",
         stdin' = Append(stdin, call[c].id), UNCHANGED <<pending, stdout>>
  PROVE  Unique' /\ Due' \subseteq Due \cup {call[c].id}
<1>0. stdin \in Seq(Ids) /\ stdout \in Seq(Line) /\ call[c].id \in Ids
  BY DEF Base, TypeOK, Numbered, Ids
<1>1. ASSUME call[c].id \in Due PROVE FALSE
  <2>1. PICK d \in Call : call[d].id = call[c].id /\ (call[d].at = "read" \/ call[d].out \in Failure)
    BY <1>0, <1>1 DEF Owed, Ids
  <2>2. d = c /\ call[c].out = "none" /\ call[c].id > 0
    BY <1>0, <2>1 DEF Base, Numbered, Ids
  <2> QED BY <2>1, <2>2 DEF Failure
<1>2. /\ Len(stdin') = Len(stdin) + 1 /\ stdin'[Len(stdin) + 1] = call[c].id
      /\ \A i \in 1 .. Len(stdin) : stdin'[i] = stdin[i] /\ stdin[i] # call[c].id
  BY <1>0, <1>1 DEF Due
<1>3. Unique'
  BY <1>0, <1>1, <1>2 DEF Unique, Due, Answers
<1>4. Due' \subseteq Due \cup {call[c].id}
  BY <1>0, <1>2 DEF Due, Answers
<1> QED BY <1>3, <1>4

\* The server takes an id from the pipe.
LEMMA PipesAccepted ==
  ASSUME Base, Unique, Accept
  PROVE  Unique' /\ Due' \subseteq Due
<1>0. /\ stdin \in Seq(Ids) /\ stdin # <<>> /\ stdin' = Tail(stdin) /\ stdout' = stdout
      /\ pending' = pending \cup {Head(stdin)}
  BY DEF Accept, Base, TypeOK
<1>1. /\ Len(stdin') = Len(stdin) - 1 /\ \A i \in 1 .. Len(stdin') : stdin'[i] = stdin[i + 1]
      /\ Head(stdin) = stdin[1] /\ Len(stdin) \in Nat \ {0}
  BY <1>0
<1>2. \A i \in 1 .. Len(stdin') : stdin'[i] # stdin[1]
  BY <1>1 DEF Unique
<1>3. Unique'
  BY <1>0, <1>1, <1>2 DEF Unique, Answers
<1>4. Due' \subseteq Due
  BY <1>0, <1>1 DEF Due, Answers
<1> QED BY <1>3, <1>4

\* The server puts a line into the pipe: an answer to an id it had, or noise.
LEMMA PipesAnswered ==
  ASSUME Base, Unique, NEW line \in Line, stdout' = Append(stdout, line), stdin' = stdin,
         \/ line.kind # "answer" /\ pending' = pending
         \/ line.kind = "answer" /\ line.id \in pending /\ pending' = pending \ {line.id}
         \/ line.kind = "answer" /\ line.id = 0 /\ pending' = pending
  PROVE  Unique' /\ Due' \subseteq Due \cup {0}
<1>0. stdin \in Seq(Ids) /\ stdout \in Seq(Line) /\ pending \subseteq Ids
  BY DEF Base, TypeOK
<1>1. /\ Len(stdout') = Len(stdout) + 1 /\ stdout'[Len(stdout) + 1] = line
      /\ \A i \in 1 .. Len(stdout) : stdout'[i] = stdout[i]
  BY <1>0
<1>2. /\ \A i \in Answers(stdout') : \/ i \in Answers(stdout) /\ stdout'[i] = stdout[i]
                                     \/ i = Len(stdout) + 1 /\ stdout'[i] = line /\ line.kind = "answer"
      /\ \A i \in 1 .. Len(stdin) : stdin[i] # 0
  <2>1. ASSUME NEW i \in Answers(stdout')
        PROVE  \/ i \in Answers(stdout) /\ stdout'[i] = stdout[i]
               \/ i = Len(stdout) + 1 /\ stdout'[i] = line /\ line.kind = "answer"
    <3>1. i \in 1 .. Len(stdout) \/ i = Len(stdout) + 1
      BY <1>0, <1>1 DEF Answers
    <3> QED BY <1>1, <3>1 DEF Answers
  <2>2. \A i \in 1 .. Len(stdin) : stdin[i] # 0
    BY <1>0 DEF Ids
  <2> QED BY <2>1, <2>2
<1>3. Unique'
  <2>0. \A i \in Answers(stdout) : line.kind = "answer" /\ line.id > 0 => stdout[i].id # line.id
    BY DEF Unique
  <2>1. ASSUME NEW i \in Answers(stdout'), NEW j \in Answers(stdout'),
               stdout'[i].id = stdout'[j].id, stdout'[i].id > 0
        PROVE  i = j
    <3>1. CASE i \in Answers(stdout) /\ stdout'[i] = stdout[i]
               /\ j \in Answers(stdout) /\ stdout'[j] = stdout[j]
      BY <2>1, <3>1 DEF Unique
    <3> QED BY <1>2, <2>0, <2>1, <3>1
  <2>2. \A i \in Answers(stdout') :
          stdout'[i].id \notin pending' /\ \A j \in 1 .. Len(stdin') : stdin'[j] # stdout'[i].id
    BY <1>0, <1>2 DEF Unique, Ids
  <2>3. \A i \in 1 .. Len(stdin') : stdin'[i] \notin pending'
    BY DEF Unique
  <2> QED BY <2>1, <2>2, <2>3 DEF Unique
<1>4. Due' \subseteq Due \cup {0}
  BY <1>0, <1>2 DEF Due
<1> QED BY <1>3, <1>4

\* An owner stays one until its own answer is read.
Owner(c) == call[c].at = "read" \/ call[c].out \in Failure

\* A request that was given up, and for which nothing is due, stays so.
StaysSettled ==
  \A c \in Call : call[c].out \in Failure /\ call[c].id > 0 /\ call[c].id \notin Due
                  => call[c].id \notin Due'

LEMMA OwedKept ==
  ASSUME Base, Base', Owed, Due' \subseteq Due \cup {0},
         \A c \in Call : Owner(c) /\ call[c].id \in Due' =>
           call'[c].id = call[c].id /\ Owner(c)'
  PROVE  Owed' /\ StaysSettled
BY DEF Owed, Owner, StaysSettled

LEMMA ReadDelivers ==
  ASSUME Base, Base', Unique, Owed, NEW c \in Call, Read(c)
  PROVE  Unique' /\ Owed' /\ StaysSettled /\ Due' \subseteq Due
<1>1. /\ stdout # <<>> /\ stdout' = Tail(stdout) /\ UNCHANGED <<stdin, pending>>
      /\ call[c].at = "read" /\ call[c].id > 0 /\ call \in [Call -> Request]
  BY DEF Read, serverVars, Base, Numbered, TypeOK, Request
<1>2. /\ Unique' /\ Due' \subseteq Due
      /\ Head(stdout).kind = "answer" /\ Head(stdout).id > 0 => Head(stdout).id \notin Due'
  BY <1>1, PipesShrink
<1>3. ASSUME NEW r \in Request, GoesOn(c, r) PROVE Owed' /\ StaysSettled
  <2>1. \A d \in Call : call'[d].id = call[d].id /\ call'[d].at = call[d].at
                        /\ call'[d].out = call[d].out
    BY <1>1, <1>3 DEF GoesOn
  <2> QED BY <1>2, <2>1, OwedKept DEF Owner
<1>4. ASSUME NEW out \in {"answered"} \cup Failure, NEW got \in Nat, EndsSo(c, out, got)
      PROVE  Owed' /\ StaysSettled
  <2>1. TypeOK /\ EndWith(c, out, got)
    BY <1>4 DEF Base, EndsSo
  <2>2. /\ call'[c] = [call[c] EXCEPT !.at = "ended", !.out = out, !.got = got]
        /\ \A d \in Call \ {c} : call'[d] = call[d]
    BY <2>1, Ended
  <2>3. call'[c].out = out /\ call'[c].id = call[c].id
    BY <1>1, <2>2 DEF Request
  <2>4. out = "answered" => call[c].id \notin Due'
    BY <1>1, <1>2, <1>4 DEF EndsSo, Mine
  <2> QED BY <1>2, <2>2, <2>3, <2>4, OwedKept DEF Owner
<1> QED BY <1>2, <1>3, <1>4, ReadOutcome

\* Every step: an id is on its way once, and to a request that may be owed it.
LEMMA DeliveryStep ==
  ASSUME Base, Unique, Owed, [Next]_vars
  PROVE  Unique' /\ Owed' /\ StaysSettled
<1>0. Base' /\ call \in [Call -> Request] /\ stdout \in Seq(Line)
  BY BaseStep DEF Base, TypeOK, Request
<1>1. ASSUME NEW c \in Call, Ask(c) \/ Acquire(c) PROVE Unique' /\ Owed' /\ StaysSettled
  <2>1. UNCHANGED <<stdin, stdout, pending>> /\ call[c].at \in {"idle", "waiting"}
        /\ \A d \in Call \ {c} : call'[d] = call[d]
    BY <1>0, <1>1 DEF Ask, Acquire, serverVars
  <2>2. ~Owner(c)
    BY <2>1 DEF Base, Numbered, Owner, Failure
  <2> QED BY <1>0, <2>1, <2>2, PipesShrink, OwedKept DEF Owner
<1>2. ASSUME NEW c \in Call, NEW out \in Failure, EndWith(c, out, 0),
             Unique' /\ Due' \subseteq Due
      PROVE  Unique' /\ Owed' /\ StaysSettled
  <2>1. TypeOK /\ EndWith(c, out, 0) /\ out \in {"answered"} \cup Failure /\ 0 \in Nat
    BY <1>2 DEF Base
  <2>2. /\ call'[c] = [call[c] EXCEPT !.at = "ended", !.out = out, !.got = 0]
        /\ \A d \in Call \ {c} : call'[d] = call[d]
    BY <2>1, Ended
  <2>3. call'[c].out = out /\ call'[c].id = call[c].id
    BY <1>0, <2>2 DEF Request
  <2> QED BY <1>0, <1>2, <2>2, <2>3, OwedKept DEF Owner
<1>3. ASSUME NEW c \in Call, Write(c) PROVE Unique' /\ Owed' /\ StaysSettled
  <2>0. call[c].at = "write" /\ UNCHANGED <<pending, stdout>>
    BY <1>3 DEF Write, serverVars
  <2>1. CASE EndWith(c, "closed", 0) /\ UNCHANGED stdin
    BY <1>2, <2>0, <2>1, PipesShrink DEF Failure
  <2>2. CASE stdin' = Append(stdin, call[c].id) /\ call' = [call EXCEPT ![c].at = "read"]
    <3>1. Unique' /\ Due' \subseteq Due \cup {call[c].id}
      BY <2>0, <2>2, PipesWritten
    <3>2. /\ \A d \in Call : call'[d].id = call[d].id /\ call'[d].out = call[d].out
          /\ call'[c].at = "read" /\ \A d \in Call \ {c} : call'[d].at = call[d].at
      BY <1>0, <2>2 DEF Request
    <3>3. Owed'
      BY <3>1, <3>2 DEF Owed
    <3>4. \A d \in Call : call[d].out \in Failure => d # c
      BY <2>0 DEF Base, Numbered, Failure
    <3>5. StaysSettled
      BY <3>1, <3>4 DEF Base, Numbered, StaysSettled
    <3> QED BY <3>1, <3>3, <3>5
  <2> QED BY <1>3, <2>1, <2>2 DEF Write
<1>4. ASSUME NEW c \in Call, EndOfFile(c) \/ Timeout(c) \/ Abandon(c)
      PROVE  Unique' /\ Owed' /\ StaysSettled
  <2>1. PICK out \in Failure : GivesUp(c, out)
    BY <1>4, GivesUpSteps DEF Base
  <2>2. Unique' /\ Due' \subseteq Due
    BY <2>1, PipesShrink DEF GivesUp, MayTear, serverVars
  <2> QED BY <1>2, <2>1, <2>2 DEF GivesUp
<1>5. CASE (\E id \in pending : Answer(id)) \/ Accept \/ Chatter \/ Exit
  <2>1. Unique' /\ Due' \subseteq Due \cup {0}
    <3>1. ASSUME NEW id \in pending, Answer(id) PROVE Unique' /\ Due' \subseteq Due \cup {0}
      <4>1. [kind |-> "answer", id |-> id] \in Line
        BY LineTypes DEF Base, TypeOK, Ids
      <4> QED BY <3>1, <4>1, PipesAnswered DEF Answer
    <3>2. CASE Accept BY <3>2, PipesAccepted
    <3>3. CASE Exit BY <3>3, PipesShrink DEF Exit
    <3>4. CASE Chatter
      <4>1. ASSUME NEW kind \in {"note", "junk", "other"}, stdout' = Append(stdout, [kind |-> kind])
            PROVE  Unique' /\ Due' \subseteq Due \cup {0}
        BY <3>4, <4>1, LineTypes, PipesAnswered DEF Chatter
      <4>2. CASE stdout' = Append(stdout, [kind |-> "answer", id |-> 0])
        BY <3>4, <4>2, LineTypes, PipesAnswered DEF Chatter
      <4> QED BY <3>4, <4>1, <4>2 DEF Chatter
    <3> QED BY <1>5, <3>1, <3>2, <3>3, <3>4
  <2>2. call' = call
    BY <1>5, ServerBase DEF clientVars
  <2> QED BY <1>0, <2>1, <2>2, OwedKept DEF Owner
<1>6. CASE UNCHANGED vars
  BY <1>6 DEF vars, clientVars, serverVars, Unique, Owed, StaysSettled, Due
<1> QED BY <1>0, <1>1, <1>3, <1>4, <1>5, <1>6, ReadDelivers DEF Next, Advance

-----------------------------------------------------------------------------
(* How many strays a request has paid for. *)

LEMMA StraysFinite ==
  ASSUME NEW s \in Seq(Line)
  PROVE  IsFiniteSet(StraysIn(s)) /\ Cardinality(StraysIn(s)) \in Nat
<1>1. Len(s) \in Nat /\ StraysIn(s) \subseteq 1 .. Len(s)
  BY DEF StraysIn, Answers
<1>2. IsFiniteSet(1 .. Len(s))
  BY <1>1, FS_Interval
<1> QED BY <1>1, <1>2, FS_Subset, FS_CardinalityType

LEMMA StraysAppend ==
  ASSUME NEW s \in Seq(Line), NEW line \in Line
  PROVE  Cardinality(StraysIn(Append(s, line))) <=
           Cardinality(StraysIn(s)) + (IF line.kind = "answer" /\ line.id = 0 THEN 1 ELSE 0)
<1> DEFINE t == Append(s, line)
<1>1. /\ t \in Seq(Line) /\ Len(t) = Len(s) + 1 /\ t[Len(s) + 1] = line
      /\ Len(s) \in Nat /\ \A i \in 1 .. Len(s) : t[i] = s[i]
  OBVIOUS
<1> HIDE DEF t
<1>2. StraysIn(t) \subseteq StraysIn(s) \cup {Len(s) + 1}
  BY <1>1 DEF StraysIn, Answers
<1>3. /\ Cardinality(StraysIn(s) \cup {Len(s) + 1}) <= Cardinality(StraysIn(s)) + 1
      /\ IsFiniteSet(StraysIn(s) \cup {Len(s) + 1})
  BY StraysFinite, FS_AddElement
<1>4. CASE line.kind = "answer" /\ line.id = 0
  <2>1. Cardinality(StraysIn(t)) <= Cardinality(StraysIn(s) \cup {Len(s) + 1})
    BY <1>2, <1>3, FS_Subset
  <2>2. /\ Cardinality(StraysIn(s) \cup {Len(s) + 1}) \in Nat
        /\ Cardinality(StraysIn(t)) \in Nat /\ Cardinality(StraysIn(s)) \in Nat
    BY <1>1, <1>3, FS_CardinalityType, StraysFinite
  <2>3. Cardinality(StraysIn(t)) <= Cardinality(StraysIn(s)) + 1
    BY <1>3, <2>1, <2>2
  <2> QED BY <1>4, <2>3 DEF t
<1>5. CASE ~(line.kind = "answer" /\ line.id = 0)
  <2>1. StraysIn(t) = StraysIn(s)
    BY <1>1, <1>5 DEF StraysIn, Answers
  <2> QED BY <1>5, <2>1, StraysFinite DEF t
<1> QED BY <1>4, <1>5

LEMMA StraysTail ==
  ASSUME NEW s \in Seq(Line), s # <<>>
  PROVE  Cardinality(StraysIn(Tail(s))) =
           Cardinality(StraysIn(s)) - (IF s[1].kind = "answer" /\ s[1].id = 0 THEN 1 ELSE 0)
<1> DEFINE t == Tail(s)
           rest == StraysIn(s) \ {1}
           up == [i \in StraysIn(t) |-> i + 1]
<1>1. /\ t \in Seq(Line) /\ Len(t) = Len(s) - 1 /\ Len(s) \in Nat \ {0}
      /\ \A i \in 1 .. Len(t) : t[i] = s[i + 1]
  OBVIOUS
<1> HIDE DEF t
<1>2. \A i \in StraysIn(t) : i \in Nat /\ i + 1 \in rest
  BY <1>1 DEF StraysIn, Answers
<1>3. \A j \in rest : j - 1 \in StraysIn(t) /\ j = (j - 1) + 1
  <2>1. \A j \in rest : j - 1 \in 1 .. Len(t) /\ t[j - 1] = s[j]
    BY <1>1 DEF StraysIn, Answers
  <2> QED BY <1>1, <2>1 DEF StraysIn, Answers
<1>4. up \in Bijection(StraysIn(t), rest)
  BY <1>2, <1>3 DEF Bijection, Injection, Surjection, IsInjective
<1>5. Cardinality(rest) = Cardinality(StraysIn(t))
  BY <1>1, <1>4, StraysFinite, FS_Bijection DEF ExistsBijection
<1>6. Cardinality(rest) = IF 1 \in StraysIn(s) THEN Cardinality(StraysIn(s)) - 1 ELSE Cardinality(StraysIn(s))
  BY StraysFinite, FS_RemoveElement
<1>7. 1 \in StraysIn(s) <=> s[1].kind = "answer" /\ s[1].id = 0
  BY <1>1 DEF StraysIn, Answers
<1> QED BY <1>5, <1>6, <1>7, StraysFinite DEF t

\* A line comes or goes: no stray is there that was not sent.
LEMMA StraysStep ==
  ASSUME Base, [Next]_vars
  PROVE  /\ strays <= strays'
         /\ Cardinality(StraysIn(stdout')) + strays <= Cardinality(StraysIn(stdout)) + strays'
<1>0. stdout \in Seq(Line) /\ strays \in Nat /\ Cardinality(StraysIn(stdout)) \in Nat
  BY LimitAssumption, StraysFinite DEF Base, TypeOK
<1>1. CASE stdout' = stdout /\ strays' = strays
  BY <1>0, <1>1
<1>2. CASE \E c \in Call : Read(c)
  <2>1. stdout # <<>> /\ stdout' = Tail(stdout) /\ strays' = strays
    BY <1>2 DEF Read, serverVars
  <2> QED BY <1>0, <2>1, StraysTail
<1>3. CASE MayTear /\ strays' = strays
  <2>1. CASE stdout' = <<[kind |-> "junk"]>>
    <3>1. StraysIn(stdout') = {}
      BY <2>1 DEF StraysIn, Answers
    <3> QED BY <1>0, <1>3, <3>1, FS_EmptySet
  <2> QED BY <1>1, <1>3, <2>1 DEF MayTear
<1>4. ASSUME NEW line \in Line, stdout' = Append(stdout, line),
             strays' = strays + (IF line.kind = "answer" /\ line.id = 0 THEN 1 ELSE 0)
      PROVE  /\ strays <= strays'
             /\ Cardinality(StraysIn(stdout')) + strays <= Cardinality(StraysIn(stdout)) + strays'
  <2>0. Append(stdout, line) \in Seq(Line)
    BY <1>0
  <2>1. /\ Append(stdout, line) \in Seq(Line)
        /\ Cardinality(StraysIn(Append(stdout, line))) \in Nat
    BY <2>0, StraysFinite
  <2>2. Cardinality(StraysIn(Append(stdout, line))) <=
          Cardinality(StraysIn(stdout)) + (IF line.kind = "answer" /\ line.id = 0 THEN 1 ELSE 0)
    BY <1>0, StraysAppend
  <2> QED BY <1>0, <1>4, <2>1, <2>2
<1>5. ASSUME NEW id \in pending, Answer(id)
      PROVE  /\ strays <= strays'
             /\ Cardinality(StraysIn(stdout')) + strays <= Cardinality(StraysIn(stdout)) + strays'
  <2>1. id \in Ids /\ [kind |-> "answer", id |-> id] \in Line
    BY LineTypes DEF Base, TypeOK, Ids
  <2>2. stdout' = Append(stdout, [kind |-> "answer", id |-> id]) /\ strays' = strays
    BY <1>5 DEF Answer
  <2> QED BY <1>0, <1>4, <2>1, <2>2 DEF Ids
<1>6. CASE Chatter
  <2>1. ASSUME NEW kind \in {"note", "junk", "other"}, stdout' = Append(stdout, [kind |-> kind]),
               strays' = strays
        PROVE  /\ strays <= strays'
               /\ Cardinality(StraysIn(stdout')) + strays <= Cardinality(StraysIn(stdout)) + strays'
    BY <1>0, <1>4, <2>1, LineTypes
  <2>2. CASE stdout' = Append(stdout, [kind |-> "answer", id |-> 0]) /\ strays' = strays + 1
    BY <1>0, <1>4, <2>2, LineTypes
  <2> QED BY <1>6, <2>1, <2>2 DEF Chatter
<1>7. ASSUME NEW c \in Call, EndOfFile(c) \/ Timeout(c) \/ Abandon(c)
      PROVE  MayTear /\ strays' = strays
  BY <1>7, GivesUpSteps DEF Base, GivesUp, serverVars
<1> QED BY <1>1, <1>2, <1>3, <1>5, <1>6, <1>7
        DEF Next, Advance, Ask, Acquire, Write, Accept, Exit, vars, clientVars, serverVars

\* The answer at the head of the pipe is another's.
Another(c) == stdout # <<>> /\ Head(stdout).kind = "answer" /\ ~Mine(c, Head(stdout))

\* What a step makes of a request.
Starts(c) ==
  /\ call[c].at \in {"idle", "waiting"} /\ call'[c].at \in {"waiting", "write"}
  /\ call'[c].mismatched = call[c].mismatched /\ call'[c].out = call[c].out
Begins(c) ==
  /\ call[c].at = "write" /\ call'[c].at = "read" /\ call'[c].mismatched = call[c].mismatched
  /\ call'[c].out = call[c].out
Stays(c) ==
  /\ call'[c].at = call[c].at /\ call'[c].mismatched = call[c].mismatched
  /\ call'[c].out = call[c].out /\ call'[c].id = call[c].id
Stops(c) ==
  /\ call[c].at # "ended" /\ call'[c].at = "ended" /\ call'[c].out # "mismatched"
Stumbles(c) ==
  /\ Read(c) /\ Another(c) /\ call'[c].id = call[c].id
  /\ \/ /\ call'[c].at = "read" /\ call'[c].mismatched = call[c].mismatched + 1
        /\ call'[c].out = call[c].out
     \/ /\ call'[c].at = "ended" /\ call[c].mismatched + 1 > MaxMismatched

LEMMA RequestStep ==
  ASSUME Base, [Next]_vars, NEW b \in Call
  PROVE  Starts(b) \/ Begins(b) \/ Stays(b) \/ Stops(b) \/ Stumbles(b)
<1>0. /\ call \in [Call -> Request] /\ call[b] \in Request
      /\ \A e \in Call : call[e].out = "none" <=> call[e].at # "ended"
  BY DEF Base, TypeOK, Request, Numbered
<1>1. CASE call'[b] = call[b]
  BY <1>1 DEF Stays
<1>2. ASSUME NEW c \in Call, NEW out \in {"answered"} \cup Failure, NEW got \in Nat,
             EndWith(c, out, got), call[c].at # "ended", call'[b] # call[b]
      PROVE  b = c /\ call'[b].at = "ended" /\ call'[b].out = out /\ call'[b].id = call[b].id
  <2>1. call' = [call EXCEPT ![c].at = "ended", ![c].out = out, ![c].got = got]
    BY <1>2 DEF EndWith
  <2>2. b = c
    BY <1>0, <1>2, <2>1
  <2> QED BY <1>0, <2>1, <2>2 DEF Request
<1>3. ASSUME NEW c \in Call, Ask(c) \/ Acquire(c), call'[b] # call[b] PROVE Starts(b)
  <2>1. b = c
    BY <1>0, <1>3 DEF Ask, Acquire, Request
  <2> QED BY <1>0, <1>3, <2>1 DEF Ask, Acquire, Starts, Request
<1>4. ASSUME NEW c \in Call, Write(c), call'[b] # call[b] PROVE Begins(b) \/ Stops(b)
  <2>1. CASE EndWith(c, "closed", 0)
    <3>0. "closed" \in {"answered"} \cup Failure /\ 0 \in Nat /\ call[c].at # "ended"
      BY <1>4 DEF Write, Failure
    <3>1. b = c /\ call'[b].at = "ended" /\ call'[b].out = "closed"
      BY <1>2, <1>4, <2>1, <3>0
    <3> QED BY <1>4, <3>1 DEF Stops, Write
  <2>2. CASE call' = [call EXCEPT ![c].at = "read"]
    <3>1. b = c
      BY <1>0, <1>4, <2>2 DEF Request
    <3> QED BY <1>0, <1>4, <2>2, <3>1 DEF Write, Begins, Request
  <2> QED BY <1>4, <2>1, <2>2 DEF Write
<1>5. ASSUME NEW c \in Call, Read(c), call'[b] # call[b] PROVE Stays(b) \/ Stops(b) \/ Stumbles(b)
  <2>0. call[c].at = "read" /\ stdout # <<>> /\ call[c] \in Request
    BY <1>0, <1>5 DEF Read
  <2>1. ASSUME NEW r \in Request, GoesOn(c, r) PROVE Stays(b) \/ Stumbles(b)
    <3>1. b = c /\ call'[c] = r
      BY <1>0, <1>5, <2>1 DEF GoesOn
    <3> QED BY <1>5, <2>0, <2>1, <3>1 DEF GoesOn, Stays, Stumbles, Another
  <2>2. ASSUME NEW out \in {"answered"} \cup Failure, NEW got \in Nat, EndsSo(c, out, got)
        PROVE  Stops(b) \/ Stumbles(b)
    <3>1. b = c /\ call'[b].at = "ended" /\ call'[b].out = out /\ call'[b].id = call[b].id
      BY <1>2, <1>5, <2>0, <2>2 DEF EndsSo
    <3> QED BY <1>5, <2>0, <2>2, <3>1 DEF EndsSo, Stops, Stumbles, Another
  <2> QED BY <1>5, <2>1, <2>2, ReadOutcome
<1>6. ASSUME NEW c \in Call, EndOfFile(c) \/ Timeout(c) \/ Abandon(c), call'[b] # call[b]
      PROVE  Stops(b)
  <2>1. PICK out \in Failure : GivesUp(c, out)
    BY <1>6, GivesUpSteps DEF Base
  <2>2. out # "mismatched" /\ EndWith(c, out, 0) /\ call[c].at # "ended"
    BY <2>1 DEF GivesUp
  <2>3. b = c /\ call'[b].at = "ended" /\ call'[b].out = out
    BY <1>2, <1>6, <2>2
  <2> QED BY <2>2, <2>3 DEF Stops
<1>7. CASE (\E id \in pending : Answer(id)) \/ Accept \/ Chatter \/ Exit \/ UNCHANGED vars
  BY <1>1, <1>7, ServerBase DEF clientVars, vars
<1> QED BY <1>1, <1>3, <1>4, <1>5, <1>6, <1>7 DEF Next, Advance

\* The requests given up before another are finitely many, however many there are.
LEMMA Before ==
  ASSUME NEW r \in [Call -> Request], NEW n \in Nat,
         \A d, e \in Call : r[d].id = r[e].id /\ r[d].id > 0 => d = e
  PROVE  IsFiniteSet({d \in Call : r[d].out \in Failure /\ r[d].id \in 1 .. n - 1})
<1> DEFINE S == {d \in Call : r[d].out \in Failure /\ r[d].id \in 1 .. n - 1}
           number == [d \in S |-> r[d].id]
<1>1. IsFiniteSet(1 .. n - 1)
  BY FS_Interval
<1>2. number \in Injection(S, 1 .. n - 1)
  BY DEF Injection, IsInjective
<1> QED BY <1>1, <1>2, FS_Injection

LEMMA GivenUpFinite ==
  ASSUME NEW c \in Call
  PROVE  /\ Base => IsFiniteSet(GivenUp(c)) /\ IsFiniteSet(Settled(c))
         /\ Base' => IsFiniteSet(GivenUp(c)') /\ IsFiniteSet(Settled(c)')
<1>1. ASSUME Base PROVE IsFiniteSet(GivenUp(c)) /\ IsFiniteSet(Settled(c))
  <2>1. /\ call \in [Call -> Request] /\ call[c].id \in Nat
        /\ \A d, e \in Call : call[d].id = call[e].id /\ call[d].id > 0 => d = e
    BY <1>1 DEF Base, TypeOK, Request, Numbered
  <2>2. IsFiniteSet(GivenUp(c))
    BY <2>1, Before DEF GivenUp
  <2> QED BY <2>2, FS_Subset DEF Settled
<1>2. ASSUME Base' PROVE IsFiniteSet(GivenUp(c)') /\ IsFiniteSet(Settled(c)')
  <2>1. /\ call' \in [Call -> Request] /\ call'[c].id \in Nat
        /\ \A d, e \in Call : call'[d].id = call'[e].id /\ call'[d].id > 0 => d = e
    BY <1>2 DEF Base, TypeOK, Request, Numbered
  <2>2. IsFiniteSet(GivenUp(c)')
    BY <2>1, Before DEF GivenUp
  <2> QED BY <2>2, FS_Subset DEF Settled
<1> QED BY <1>1, <1>2

\* A request that failed stays as it is.
LEMMA FailedStays ==
  ASSUME Base, [Next]_vars, NEW d \in Call, call[d].out \in Failure
  PROVE  call'[d].out = call[d].out /\ call'[d].id = call[d].id
<1>1. call[d].at = "ended"
  BY DEF Base, Numbered, Failure
<1> QED BY <1>1, RequestStep DEF Starts, Begins, Stays, Stops, Stumbles, Read

\* What was given up or settled before a request stays so while its id does.
LEMMA SettledGrows ==
  ASSUME Base, Base', [Next]_vars, StaysSettled, NEW c \in Call, call'[c].id = call[c].id
  PROVE  /\ GivenUp(c) \subseteq GivenUp(c)' /\ Settled(c) \subseteq Settled(c)'
         /\ Cardinality(GivenUp(c)) <= Cardinality(GivenUp(c)')
         /\ Cardinality(Settled(c)) <= Cardinality(Settled(c)')
<1>1. GivenUp(c) \subseteq GivenUp(c)'
  BY FailedStays DEF GivenUp
<1>2. Settled(c) \subseteq Settled(c)'
  BY <1>1, FailedStays DEF Settled, GivenUp, StaysSettled
<1>3. IsFiniteSet(GivenUp(c)') /\ IsFiniteSet(Settled(c)')
  BY GivenUpFinite
<1> QED BY <1>1, <1>2, <1>3, FS_Subset

\* Whose answer a request reads in place of its own: nobody's, or that of a
\* request before it that was given up and is settled with it.
LEMMA StumbleIsPaid ==
  ASSUME Base, Base', Unique, Owed, Paid, [Next]_vars, StaysSettled, NEW c \in Call, Stumbles(c)
  PROVE  call[c].mismatched + 1 + Cardinality(StraysIn(stdout')) <= Cardinality(Settled(c)') + strays'
<1>0. /\ stdout \in Seq(Line) /\ stdout # <<>> /\ stdout' = Tail(stdout) /\ strays' = strays
      /\ Head(stdout) = stdout[1] /\ stdout[1] \in Line /\ stdout[1].kind = "answer"
      /\ stdout[1].id # call[c].id /\ call[c].at = "read" /\ call'[c].id = call[c].id
      /\ stdin' = stdin /\ pending' = pending
  <2>1. /\ stdout # <<>> /\ Head(stdout).kind = "answer" /\ Head(stdout).id # call[c].id
        /\ call'[c].id = call[c].id /\ Read(c)
    BY DEF Stumbles, Another, Mine
  <2>2. stdout' = Tail(stdout) /\ call[c].at = "read" /\ UNCHANGED <<stdin, pending, strays>>
    BY <2>1 DEF Read, serverVars
  <2>3. stdout \in Seq(Line) /\ Head(stdout) = stdout[1] /\ stdout[1] \in Line
    BY <2>1 DEF Base, TypeOK
  <2> QED BY <2>1, <2>2, <2>3
<1>1. /\ stdout[1].id = 0 => Cardinality(StraysIn(stdout')) = Cardinality(StraysIn(stdout)) - 1
      /\ stdout[1].id # 0 => Cardinality(StraysIn(stdout')) = Cardinality(StraysIn(stdout))
  <2>1. Cardinality(StraysIn(Tail(stdout))) =
          Cardinality(StraysIn(stdout)) - (IF stdout[1].kind = "answer" /\ stdout[1].id = 0 THEN 1 ELSE 0)
    BY <1>0, StraysTail
  <2>2. Cardinality(StraysIn(stdout)) \in Nat
    BY <1>0, StraysFinite
  <2> QED BY <1>0, <2>1, <2>2
<1>2. /\ IsFiniteSet(Settled(c)) /\ IsFiniteSet(Settled(c)')
      /\ Settled(c) \subseteq Settled(c)' /\ Cardinality(Settled(c)) <= Cardinality(Settled(c)')
  BY <1>0, GivenUpFinite, SettledGrows
<1>3. /\ Cardinality(StraysIn(stdout)) \in Nat /\ strays \in Nat /\ call[c].mismatched \in Nat
      /\ Cardinality(Settled(c)) \in Nat /\ Cardinality(Settled(c)') \in Nat
  <2>1. strays \in Nat /\ call[c].mismatched \in Nat
    BY LimitAssumption DEF Base, TypeOK
  <2> QED BY <1>0, <1>2, <2>1, StraysFinite, FS_CardinalityType
<1>4. call[c].mismatched + Cardinality(StraysIn(stdout)) <= Cardinality(Settled(c)) + strays
  BY <1>0 DEF Paid
<1>5. CASE stdout[1].id = 0
  <2>1. strays' = strays
    BY <1>0
  <2> QED BY <1>1, <1>2, <1>3, <1>4, <1>5, <2>1
<1>6. CASE stdout[1].id # 0
  <2>1. stdout[1].id \in Nat /\ stdout[1].id > 0
    BY <1>0, <1>6, LineTypes
  <2>2. stdout[1].id \in Due \ Due'
    BY <1>0, <2>1, PipesShrink
  <2>3. PICK d \in Call :
          call[d].id = stdout[1].id /\ (call[d].at = "read" \/ call[d].out \in Failure)
    BY <2>1, <2>2 DEF Owed
  <2>4. d # c
    BY <1>0, <2>3
  <2>5. call[d].at # "read"
    BY <1>0, <2>4 DEF Base, Mutual
  <2>6. call[d].id < nextId /\ call[c].id = nextId - 1 /\ nextId \in Nat /\ call[d].id # call[c].id
    BY <1>0, <2>3 DEF Base, Numbered, TypeOK, Ids
  <2>7. d \in GivenUp(c) /\ d \notin Settled(c)
    BY <2>1, <2>2, <2>3, <2>5, <2>6 DEF GivenUp, Settled
  <2>8. d \in Settled(c)'
    <3>1. d \in GivenUp(c)'
      BY <1>0, <2>7, SettledGrows
    <3>2. call'[d].id = stdout[1].id
      BY <2>3, <2>5, FailedStays
    <3> QED BY <2>2, <3>1, <3>2 DEF Settled
  <2>9. Cardinality(Settled(c) \cup {d}) = Cardinality(Settled(c)) + 1
    BY <1>2, <2>7, FS_AddElement
  <2>10. Cardinality(Settled(c) \cup {d}) <= Cardinality(Settled(c)')
    BY <1>2, <2>8, FS_Subset
  <2>11. strays' = strays
    BY <1>0
  <2> QED BY <1>1, <1>3, <1>4, <1>6, <2>9, <2>10, <2>11
<1> QED BY <1>5, <1>6

LEMMA PaidStep ==
  ASSUME Base, Base', Unique, Owed, Paid, StaysSettled, [Next]_vars
  PROVE  Paid'
<1>1. /\ strays <= strays'
      /\ Cardinality(StraysIn(stdout')) + strays <= Cardinality(StraysIn(stdout)) + strays'
  BY StraysStep
<1>2. /\ Cardinality(StraysIn(stdout)) \in Nat /\ Cardinality(StraysIn(stdout')) \in Nat
      /\ strays \in Nat /\ strays' \in Nat
  <2>1. stdout \in Seq(Line) /\ stdout' \in Seq(Line) /\ strays \in Nat /\ strays' \in Nat
    BY LimitAssumption DEF Base, TypeOK
  <2> QED BY <2>1, StraysFinite
<1>3. Cardinality(StraysIn(stdout)) <= strays /\ Cardinality(StraysIn(stdout')) <= strays'
  BY <1>1, <1>2 DEF Paid
<1>4. ASSUME NEW c \in Call
      PROVE  /\ call'[c].at \in {"idle", "waiting", "write"} => call'[c].mismatched = 0
             /\ call'[c].at = "read" =>
                  call'[c].mismatched + Cardinality(StraysIn(stdout')) <= Cardinality(Settled(c)') + strays'
  <2>0. /\ Cardinality(Settled(c)) \in Nat /\ Cardinality(Settled(c)') \in Nat
        /\ call[c].mismatched \in Nat
    <3>1. call[c].mismatched \in Nat
      BY LimitAssumption DEF Base, TypeOK
    <3> QED BY <3>1, GivenUpFinite, FS_CardinalityType
  <2>1. CASE Starts(c)
    BY <2>1 DEF Starts, Paid
  <2>2. CASE Begins(c)
    BY <1>2, <1>3, <2>0, <2>2 DEF Begins, Paid
  <2>3. CASE Stays(c)
    <3>1. Cardinality(Settled(c)) <= Cardinality(Settled(c)')
      BY <2>3, SettledGrows DEF Stays
    <3>2. call'[c].at = call[c].at /\ call'[c].mismatched = call[c].mismatched
      BY <2>3 DEF Stays
    <3>3. call[c].at = "read" =>
            call[c].mismatched + Cardinality(StraysIn(stdout)) <= Cardinality(Settled(c)) + strays
      BY DEF Paid
    <3>4. call[c].at \in {"idle", "waiting", "write"} => call[c].mismatched = 0
      BY DEF Paid
    <3> QED BY <1>1, <1>2, <2>0, <3>1, <3>2, <3>3, <3>4
  <2>4. CASE Stops(c)
    BY <2>4 DEF Stops
  <2>5. CASE Stumbles(c)
    <3>1. call[c].mismatched + 1 + Cardinality(StraysIn(stdout')) <= Cardinality(Settled(c)') + strays'
      BY <2>5, StumbleIsPaid
    <3> QED BY <2>5, <3>1 DEF Stumbles
  <2> QED BY <2>1, <2>2, <2>3, <2>4, <2>5, RequestStep
<1> QED BY <1>3, <1>4 DEF Paid

\* A request that its strays ended had more of them than the limit, all paid for.
LEMMA EarnedStep ==
  ASSUME Base, Base', Unique, Owed, Paid, StaysSettled, [Next]_vars, MismatchEarned
  PROVE  MismatchEarned'
<1>0. MaxMismatched \in Nat /\ strays \in Nat /\ strays' \in Nat /\ strays <= strays'
      /\ Cardinality(StraysIn(stdout')) \in Nat
  <2>1. /\ MaxMismatched \in Nat /\ strays \in Nat /\ strays' \in Nat /\ stdout' \in Seq(Line)
    BY LimitAssumption DEF Base, TypeOK
  <2> QED BY <2>1, StraysStep, StraysFinite
<1>1. ASSUME NEW c \in Call, call'[c].out = "mismatched"
      PROVE  Cardinality(GivenUp(c)') + strays' > MaxMismatched
  <2>0. /\ Cardinality(GivenUp(c)) \in Nat /\ Cardinality(GivenUp(c)') \in Nat
        /\ Cardinality(Settled(c)') \in Nat /\ call[c].mismatched \in Nat
        /\ Cardinality(Settled(c)') <= Cardinality(GivenUp(c)')
    <3>1. call[c].mismatched \in Nat
      BY LimitAssumption DEF Base, TypeOK
    <3>2. Settled(c)' \subseteq GivenUp(c)'
      BY DEF Settled
    <3> QED BY <3>1, <3>2, GivenUpFinite, FS_CardinalityType, FS_Subset
  <2>1. CASE call[c].out = "mismatched" /\ call'[c].id = call[c].id
    <3>1. Cardinality(GivenUp(c)) + strays > MaxMismatched
      BY <2>1 DEF MismatchEarned, GivenUp
    <3>2. Cardinality(GivenUp(c)) <= Cardinality(GivenUp(c)')
      BY <2>1, SettledGrows
    <3> QED BY <1>0, <2>0, <3>1, <3>2
  <2>2. CASE Stumbles(c)
    <3>1. call[c].mismatched + 1 + Cardinality(StraysIn(stdout')) <= Cardinality(Settled(c)') + strays'
      BY <2>2, StumbleIsPaid
    <3>2. call[c].mismatched + 1 > MaxMismatched
      <4>1. call[c].out = "none" /\ call'[c].at = "ended"
        BY <1>1, <2>2 DEF Stumbles, Read, Base, Numbered
      <4> QED BY <2>2, <4>1 DEF Stumbles
    <3> QED BY <1>0, <2>0, <3>1, <3>2
  <2>3. CASE ~Stumbles(c)
    <3>1. Starts(c) \/ Begins(c) \/ Stays(c) \/ Stops(c)
      BY <2>3, RequestStep
    <3>2. Stays(c)
      BY <1>1, <3>1 DEF Starts, Begins, Stops, Base, Numbered
    <3> QED BY <1>1, <2>1, <3>2 DEF Stays
  <2> QED BY <2>2, <2>3
<1> QED BY <1>1 DEF MismatchEarned, GivenUp

\* Only the request that holds the lock waits for an answer.
LEMMA NotStolen ==
  ASSUME Base PROVE NoAnswerStolen
BY DEF NoAnswerStolen, Read, Base, Mutual, Numbered, TypeOK

LEMMA ClientStart == Init => ClientInv
<1> SUFFICES ASSUME Init PROVE ClientInv
  OBVIOUS
<1>1. Base
  BY BaseStart
<1>2. Answers(stdout) = {} /\ StraysIn(stdout) = {} /\ Due = {}
  BY DEF Init, Answers, StraysIn, Due
<1>3. Unique /\ Owed
  BY <1>2 DEF Init, Unique, Owed
<1>4. Paid
  BY <1>2, FS_EmptySet DEF Init, Paid
<1>5. MismatchEarned
  BY DEF Init, MismatchEarned
<1> QED BY <1>1, <1>3, <1>4, <1>5 DEF ClientInv

\* An answer is thrown away only when its request has ended, and a request that
\* fails for its strays had every one of them from the server unasked or from a
\* request before it that was given up.
THEOREM OnlyStraysDroppedHolds == Spec => OnlyStraysDropped
<1>1. Init => ClientInv
  BY ClientStart
<1>2. ClientInv /\ [Next]_vars => ClientInv'
  BY BaseStep, DeliveryStep, PaidStep, EarnedStep DEF ClientInv
<1>3. ClientInv /\ [Next]_vars /\ ClientInv' => [NoAnswerStolen /\ MismatchEarned']_vars
  BY NotStolen DEF ClientInv
<1> QED BY <1>1, <1>2, <1>3, PTL DEF Spec, OnlyStraysDropped
=============================================================================
