------------------------- MODULE OAuthClientTransport -------------------------
(***************************************************************************)
(* OAuthClientTransport (src/src/auth/oauth.cpp): a transport that answers *)
(* 401 and 403 refusals of a write by renewing or obtaining authorization  *)
(* and writing again, and that replays a request whose answer is the       *)
(* legacy unauthorized error.                                              *)
(*                                                                         *)
(* Every op is one run_write(): one per writer, and the replay of the      *)
(* single reader.  The wrapped transport and the authenticator are seen    *)
(* through their results; an attempt is one call of try_refresh_token() or *)
(* try_handle_challenge(), registered with the authenticator when called.  *)
(***************************************************************************)
EXTENDS Naturals, Sequences

CONSTANTS Writers, Reader,
          Sizes,        \* retained bytes of a request: wire and two keys
          MaxRequests,  \* max_pending_requests
          MaxBytes,     \* max_pending_request_bytes
          NoKey

MaxChallenges == 3      \* g_max_authorization_challenges

VARIABLES
    transport,  \* http: inner is the HTTP transport; closed; swept: close()
                \* has called cancel_pending(); innerClosed
    pending,    \* retry table in insertion order: key, gen, size, late
    bytes,      \* pending_bytes
    generation, \* next_generation
    ops,        \* the write operations
    attempts,   \* per op: its attempt is "none", "running" or "cancelled"
    reader,     \* pc of read_message(), the key it replays
    wired,      \* keys on the wire and not answered
    sends       \* history: how often each op wrote
vars == <<transport, pending, bytes, generation, ops, attempts, reader,
          wired, sends>>

Ops == Writers \cup {Reader}
Entry == [key : Writers, gen : Nat, size : Sizes, late : BOOLEAN]
Idle == [pc |-> "idle", key |-> NoKey, size |-> 0, gen |-> 0, attempts |-> 0,
         refreshed |-> FALSE, authorized401 |-> FALSE, refreshAllowed |-> FALSE,
         challenge |-> FALSE, cutOff |-> FALSE, result |-> "none"]

TypeOK ==
    /\ transport \in [http : BOOLEAN, closed : BOOLEAN, swept : BOOLEAN,
                      innerClosed : BOOLEAN]
    /\ \A i \in DOMAIN pending : pending[i] \in Entry
    /\ bytes \in 0..MaxBytes /\ generation \in Nat
    /\ \A o \in Ops :
          /\ ops[o].pc \in {"idle", "send", "refresh", "challenge",
                            "callRefresh", "callChallenge",
                            "refreshing", "challenging",
                            "awaitRefresh", "awaitChallenge", "done"}
          /\ ops[o].attempts \in 0..MaxChallenges
          /\ ops[o].result \in {"none", "ok", "failed"}
    /\ attempts \in [Ops -> {"none", "running", "cancelled"}]
    /\ reader.pc \in {"read", "refreshing", "replay", "reread", "failed"}
    /\ wired \subseteq Writers

Init ==
    /\ \E h \in BOOLEAN :
          transport = [http |-> h, closed |-> FALSE, swept |-> FALSE,
                       innerClosed |-> FALSE]
    /\ pending = <<>> /\ bytes = 0 /\ generation = 0
    /\ ops = [o \in Ops |-> Idle]
    /\ attempts = [o \in Ops |-> "none"]
    /\ reader = [pc |-> "read", key |-> NoKey, size |-> 0]
    /\ wired = {}
    /\ sends = [o \in Ops |-> 0]

-----------------------------------------------------------------------------
(* The retry table.                                                        *)

SizeOf(p) ==
    LET size[n \in 0..Len(p)] == IF n = 0 THEN 0 ELSE size[n - 1] + p[n].size
    IN  size[Len(p)]

\* The entries of p that are in S, in their order.
Kept(p, S) ==
    LET kept[n \in 0..Len(p)] ==
            IF n = 0 THEN <<>>
            ELSE IF p[n] \in S THEN Append(kept[n - 1], p[n]) ELSE kept[n - 1]
    IN  kept[Len(p)]
Fresh(p) == Kept(p, {e \in Entry : ~e.late})
Without(p, key) == Kept(p, {e \in Entry : e.key # key})
\* Mutant: the bytes are not counted.
FitsByCount(p, used, size) == Len(p) < MaxRequests

\* evict_oldest_locked() until one more request of that size fits.
Fits(p, used, size) == Len(p) < MaxRequests /\ size <= MaxBytes - used
Evict(p, used, size) ==
    LET Rest(n) == SubSeq(p, n + 1, Len(p))
        Used(n) == used - SizeOf(SubSeq(p, 1, n))
        enough == {n \in 0..Len(p) : Fits(Rest(n), Used(n), size)}
    IN  Rest(CHOOSE n \in enough : \A k \in enough : n <= k)

\* remember_request(): the table and its generation after it.
Retainable(size) == ~transport.closed /\ MaxRequests > 0 /\ size <= MaxBytes
Remember(key, size) ==
    LET pruned == Fresh(pending)
        left == bytes - (SizeOf(pending) - SizeOf(pruned))
        others == Without(pruned, key)
        used == left - (SizeOf(pruned) - SizeOf(others))
        room == Evict(others, used, size)
    IN  IF Retainable(size)
        THEN /\ generation' = generation + 1
             /\ pending' = Append(room, [key |-> key, gen |-> generation + 1,
                                         size |-> size, late |-> FALSE])
             /\ bytes' = used - (SizeOf(others) - SizeOf(room)) + size
        ELSE /\ UNCHANGED generation
             /\ pending' = pruned
             /\ bytes' = left

\* Mutant: whatever is stored under the key is erased.
MineByKey(o, e) == e.key = ops[o].key

\* erase_pending(): the entry of this operation, not one that replaced it.
Mine(o, e) == e.key = ops[o].key /\ e.gen = ops[o].gen
Erase(o) ==
    /\ pending' = Kept(pending, {e \in Entry : ~Mine(o, e)})
    /\ bytes' = bytes - (SizeOf(pending) - SizeOf(pending'))

\* The deadline of the oldest request passes; all have the same lifetime.
TimePasses ==
    /\ \E i \in DOMAIN pending :
          /\ ~pending[i].late /\ \A j \in 1..(i - 1) : pending[j].late
          /\ pending' = [pending EXCEPT ![i].late = TRUE]
    /\ UNCHANGED <<transport, bytes, generation, ops, attempts, reader, wired,
                   sends>>

-----------------------------------------------------------------------------
(* Writing.                                                                *)

\* prepare_write() and the first write_message() of the wrapped transport.
Begin(o, key, size) ==
    /\ Remember(key, size)
    /\ ops' = [ops EXCEPT ![o] = [Idle EXCEPT
                   !.pc = "send", !.key = key, !.size = size,
                   !.gen = IF Retainable(size) THEN generation + 1 ELSE 0]]
    /\ wired' = wired \cup {key}
    /\ sends' = [sends EXCEPT ![o] = 1]

StartWrite(w) ==
    /\ ops[w].pc = "idle"
    /\ \E size \in Sizes : Begin(w, w, size)
    /\ UNCHANGED <<transport, attempts, reader>>

Accepted(o) ==
    /\ ops[o].pc = "send" /\ ~transport.innerClosed
    /\ ops' = [ops EXCEPT ![o].pc = "done", ![o].result = "ok"]
    /\ UNCHANGED <<transport, pending, bytes, generation, attempts, reader,
                   wired, sends>>

Fail(o) ==
    /\ ops' = [ops EXCEPT ![o].pc = "done", ![o].result = "failed"]
    /\ Erase(o)

\* The refusals run_write() tells apart: 401 with or without a challenge, 403
\* that asks for more scope, anything else.
Refusals == [status : {"unauthorized"}, challenge : BOOLEAN]
            \cup [status : {"insufficient", "other"}, challenge : {TRUE}]
\* Mutant: nobody counts the challenges.
HonouredAlways(o, r) ==
    /\ transport.http /\ r.status # "other"
    /\ ~(r.status = "unauthorized" /\ ops[o].authorized401)

\* The refusal may be answered by an authorization attempt.
Honoured(o, r) ==
    /\ transport.http /\ r.status # "other"
    /\ ops[o].attempts < MaxChallenges
    /\ ~(r.status = "unauthorized" /\ ops[o].authorized401)

Refused(o) ==
    /\ ops[o].pc = "send"
    /\ \E r \in Refusals :
          LET op == [ops[o] EXCEPT !.attempts = @ + 1,
                         !.refreshAllowed = r.status = "unauthorized",
                         !.challenge = r.challenge]
          IN  IF ~Honoured(o, r) THEN Fail(o)
              ELSE IF op.refreshAllowed /\ ~op.refreshed
              THEN /\ ops' = [ops EXCEPT ![o] = [op EXCEPT !.pc = "refresh",
                                                          !.refreshed = TRUE]]
                   /\ UNCHANGED <<pending, bytes>>
              ELSE IF op.challenge
              THEN /\ ops' = [ops EXCEPT ![o] = [op EXCEPT !.pc = "challenge"]]
                   /\ UNCHANGED <<pending, bytes>>
              ELSE Fail(o)
    /\ UNCHANGED <<transport, generation, attempts, reader, wired, sends>>

\* throw_if_closed()
CheckOpen(o, before, after) ==
    /\ ops[o].pc = before
    /\ IF transport.closed THEN Fail(o)
       ELSE /\ ops' = [ops EXCEPT ![o].pc = after, ![o].authorized401 =
                           @ \/ (before = "challenge" /\ ops[o].refreshAllowed)]
            /\ UNCHANGED <<pending, bytes>>
    /\ UNCHANGED <<transport, generation, attempts, reader, wired, sends>>
TryRefresh(o) == CheckOpen(o, "refresh", "callRefresh")
TryChallenge(o) == CheckOpen(o, "challenge", "callChallenge")

\* The authenticator is called and registers the attempt.
Register(o) ==
    /\ ops[o].pc \in {"callRefresh", "callChallenge"}
    /\ ops' = [ops EXCEPT
          ![o].pc = IF @ = "callRefresh" THEN "refreshing" ELSE "challenging"]
    /\ attempts' = [attempts EXCEPT ![o] = "running"]
    /\ UNCHANGED <<transport, pending, bytes, generation, reader, wired, sends>>

\* Mutant: close() leaves the authenticator alone.
CancelNothing == UNCHANGED attempts

\* cancel_pending() of the authenticator, which ends every attempt that runs.
CancelAttempts ==
    attempts' = [o \in Ops |-> IF attempts[o] = "running" THEN "cancelled"
                                                         ELSE attempts[o]]

\* Mutant: the write does not look again whether the transport was closed.
NotClosed == FALSE

\* close() has come since the write looked.
ClosedMeanwhile == transport.closed

\* await_unless_closed(): a close() that came between the check and the call
\* found nothing to cancel, so the write cancels what it started.
Recheck(o) ==
    /\ ops[o].pc \in {"refreshing", "challenging"}
    /\ ops' = [ops EXCEPT ![o].cutOff = ClosedMeanwhile,
          ![o].pc = IF @ = "refreshing" THEN "awaitRefresh" ELSE "awaitChallenge"]
    /\ IF ClosedMeanwhile THEN CancelAttempts ELSE UNCHANGED attempts
    /\ UNCHANGED <<transport, pending, bytes, generation, reader, wired, sends>>

\* The attempt ends: it authorized, it did not, or it threw.
AttemptEnds(o) ==
    /\ ops[o].pc \in {"awaitRefresh", "awaitChallenge"}
    /\ attempts' = [attempts EXCEPT ![o] = "none"]
    /\ \/ /\ ~ops[o].cutOff
          /\ ops' = [ops EXCEPT ![o].pc = "send"]
          /\ wired' = wired \cup {ops[o].key}
          /\ sends' = [sends EXCEPT ![o] = @ + 1]
          /\ UNCHANGED <<pending, bytes>>
       \/ /\ ~ops[o].cutOff
          /\ ops[o].pc = "awaitRefresh" /\ ops[o].challenge
          /\ ops' = [ops EXCEPT ![o].pc = "challenge"]
          /\ UNCHANGED <<pending, bytes, wired, sends>>
       \/ Fail(o) /\ UNCHANGED <<wired, sends>>
    /\ UNCHANGED <<transport, generation, reader>>

-----------------------------------------------------------------------------
(* Reading.                                                                *)

\* take_retry_wire(): any answer ends the entry of its request, and the
\* unauthorized error hands back the request to replay.
Take(key) ==
    LET live == Fresh(pending)
    IN  /\ pending' = Without(live, key)
        /\ bytes' = bytes - (SizeOf(pending) - SizeOf(pending'))

Read ==
    /\ reader.pc = "read" /\ ~transport.innerClosed
    /\ \E k \in wired, unauthorized \in BOOLEAN :
          LET live == Fresh(pending)
              found == {e \in {live[i] : i \in DOMAIN live} : e.key = k}
          IN  /\ Take(k)
              /\ wired' = wired \ {k}
              /\ IF unauthorized /\ found # {}
                 THEN /\ \E e \in found :
                            reader' = [pc |-> "refreshing", key |-> k, size |-> e.size]
                      /\ attempts' = [attempts EXCEPT ![Reader] = "running"]
                 ELSE UNCHANGED <<reader, attempts>>
    /\ UNCHANGED <<transport, generation, ops, sends>>

\* The refresh of the reader ends; a false result returns the error answer.
ReaderRefreshed ==
    /\ reader.pc = "refreshing"
    /\ attempts' = [attempts EXCEPT ![Reader] = "none"]
    /\ \/ /\ reader' = [reader EXCEPT !.pc = "replay"]
          /\ Begin(Reader, reader.key, reader.size)
       \/ /\ \E pc \in {"read", "failed"} : reader' = [reader EXCEPT !.pc = pc]
          /\ UNCHANGED <<pending, bytes, generation, ops, wired, sends>>
    /\ UNCHANGED transport

ReplayWritten ==
    /\ reader.pc = "replay" /\ ops[Reader].pc = "done"
    /\ reader' = [reader EXCEPT !.pc = IF ops[Reader].result = "ok"
                                       THEN "reread" ELSE "failed"]
    /\ UNCHANGED <<transport, pending, bytes, generation, ops, attempts, wired,
                   sends>>

\* The message after the replay is returned whatever it is.
Reread ==
    /\ reader.pc = "reread" /\ ~transport.innerClosed
    /\ \E k \in wired :
          /\ Take(k)
          /\ wired' = wired \ {k}
    /\ reader' = [reader EXCEPT !.pc = "read"]
    /\ ops' = [ops EXCEPT ![Reader] = Idle]
    /\ UNCHANGED <<transport, generation, attempts, sends>>

ReadFails ==
    /\ reader.pc \in {"read", "reread"} /\ transport.innerClosed
    /\ reader' = [reader EXCEPT !.pc = "failed"]
    /\ UNCHANGED <<transport, pending, bytes, generation, ops, attempts, wired,
                   sends>>

-----------------------------------------------------------------------------
(* close(): the table first, then the authenticator, then the transport.   *)

Close ==
    /\ ~transport.closed
    /\ transport' = [transport EXCEPT !.closed = TRUE]
    /\ pending' = <<>> /\ bytes' = 0
    /\ UNCHANGED <<generation, ops, attempts, reader, wired, sends>>

CloseCancels ==
    /\ transport.closed /\ ~transport.swept
    /\ transport' = [transport EXCEPT !.swept = TRUE]
    /\ CancelAttempts
    /\ UNCHANGED <<pending, bytes, generation, ops, reader, wired, sends>>

CloseInner ==
    /\ transport.swept /\ ~transport.innerClosed
    /\ transport' = [transport EXCEPT !.innerClosed = TRUE]
    /\ UNCHANGED <<pending, bytes, generation, ops, attempts, reader, wired,
                   sends>>

-----------------------------------------------------------------------------
Next ==
    \/ \E w \in Writers : StartWrite(w)
    \/ \E o \in Ops : Accepted(o) \/ Refused(o) \/ TryRefresh(o)
                      \/ TryChallenge(o) \/ Register(o) \/ Recheck(o) \/ AttemptEnds(o)
    \/ Read \/ ReaderRefreshed \/ ReplayWritten \/ Reread \/ ReadFails
    \/ TimePasses \/ Close \/ CloseCancels \/ CloseInner

\* The wrapped transport answers a write, a cancelled attempt ends (the
\* contract of cancel_pending()), and close() runs to its end.  The user and
\* the network owe an uncancelled attempt nothing.
Owed ==
    \/ \E o \in Ops :
          \/ Accepted(o) \/ Refused(o) \/ TryRefresh(o) \/ TryChallenge(o)
          \/ Register(o) \/ Recheck(o)
          \/ attempts[o] = "cancelled" /\ AttemptEnds(o)
    \/ attempts[Reader] = "cancelled" /\ ReaderRefreshed
    \/ ReplayWritten \/ ReadFails \/ CloseCancels \/ CloseInner
Fairness == WF_vars(Owed)

Spec == Init /\ [][Next]_vars
FairSpec == Spec /\ Fairness

-----------------------------------------------------------------------------
(* Properties.                                                             *)

EntryOf(o, e) == e.key = ops[o].key /\ e.gen = ops[o].gen

\* The retry table keeps within both of its bounds, its byte count is what it
\* holds, and a closed transport or a failed write leaves no request in it.
TableBounded ==
    /\ Len(pending) <= MaxRequests /\ bytes <= MaxBytes
    /\ bytes = SizeOf(pending)
    /\ \A i, j \in DOMAIN pending : pending[i].key = pending[j].key => i = j
    /\ transport.closed => pending = <<>>
    /\ \A o \in Ops, i \in DOMAIN pending :
          ops[o].result = "failed" => ~EntryOf(o, pending[i])

\* A server that keeps refusing drives at most three attempts, and with them
\* three more writes, of which at most one follows a refresh.
AttemptsBounded ==
    \A o \in Ops : sends[o] <= 1 + MaxChallenges

\* Once close() has swept the authenticator, every attempt a write awaits is
\* cancelled: no refresh or authorization outlives the transport it is for.
NoAttemptOutlivesClose ==
    transport.swept =>
        \A o \in Ops :
            ops[o].pc \in {"awaitRefresh", "awaitChallenge"} =>
                attempts[o] = "cancelled"

\* A write that fails takes no other request out of the retry table.
FailureKeepsOthers ==
    [][\A o \in Ops, i \in DOMAIN pending :
          /\ ops[o].result = "none" /\ ops'[o].result = "failed"
          /\ ~EntryOf(o, pending[i])
          => \E j \in DOMAIN pending' : pending'[j] = pending[i]]_vars

\* After close() every write returns and the reader stops.
CloseEndsWrites ==
    []<>(transport.closed =>
            /\ reader.pc = "failed"
            /\ \A o \in Ops : ops[o].pc \in {"idle", "done"})
=============================================================================
