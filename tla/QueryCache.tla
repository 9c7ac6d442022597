----------------------------- MODULE QueryCache -----------------------------
(* How the web application reads from and writes to the API: the request     *)
(* function and its errors (lib/api-client.ts), the two hooks (lib/hooks.ts) *)
(* and the client's defaults (lib/query-client.tsx), for one key of the      *)
(* cache.  The cache itself is the library's (@tanstack/react-query) and is  *)
(* modelled from what the hooks ask of it.  What the server holds is a       *)
(* version number.                                                           *)
EXTENDS Naturals

CONSTANTS
    MaxVersion,     \* the server's last version (bound)
    None            \* no data

ASSUME QueryAssumption == MaxVersion \in Nat /\ None \notin Nat

VARIABLES
    server,     \* the version the server holds
    cache,      \* the key's entry: data, isInvalidated, younger than staleTime
    mounted,    \* a component that calls useApiQuery with the key is mounted
    fetch,      \* the fetch in flight: phase, version read, failureCount
    write,      \* the mutation in flight: phase and version made
    acked,      \* history: the version of the last write answered with success
    raced,      \* history: the last success could not cancel a fetch, and
                \* no fetch was started since
    sends       \* history: the requests of the last fetch, the first included

cacheVars == <<server, cache, mounted, fetch, write, acked, raced, sends>>

Idle == [phase |-> "idle", version |-> 0, failures |-> 0]
NoWrite == [phase |-> "idle", version |-> 0]
Empty == [data |-> None, invalidated |-> FALSE, fresh |-> FALSE]

CacheInit ==
    /\ server = 0 /\ cache = Empty /\ mounted = FALSE
    /\ fetch = Idle /\ write = NoWrite
    /\ acked = 0 /\ raced = FALSE /\ sends = 0

\* ------------------------------------------------------------- reading
\* retry of the client's defaults: an ApiError below 500 is final.
Retries(failureCount, status) ==
    IF status = "4xx" THEN FALSE ELSE failureCount < 2

Stale == cache.data = None \/ cache.invalidated \/ ~cache.fresh

\* useQuery mounts: stale data is fetched again, unless a fetch is under way.
MountQuery ==
    /\ ~mounted
    /\ mounted' = TRUE
    /\ IF Stale /\ fetch.phase = "idle"
         THEN /\ fetch' = [Idle EXCEPT !.phase = "sent"]
              /\ sends' = 1
              /\ raced' = FALSE
         ELSE UNCHANGED <<fetch, sends, raced>>
    /\ UNCHANGED <<server, cache, write, acked>>

\* The fetch goes on without the component: api.get takes no abort signal.
UnmountQuery ==
    /\ mounted
    /\ mounted' = FALSE
    /\ UNCHANGED <<server, cache, fetch, write, acked, raced, sends>>

ServerReads ==
    /\ fetch.phase = "sent"
    /\ fetch' = [fetch EXCEPT !.phase = "read", !.version = server]
    /\ UNCHANGED <<server, cache, mounted, write, acked, raced, sends>>

\* The answer: data of the version read, valid and fresh.
AnswerArrives ==
    /\ fetch.phase = "read"
    /\ cache' = [data |-> fetch.version, invalidated |-> FALSE, fresh |-> TRUE]
    /\ fetch' = Idle
    /\ UNCHANGED <<server, mounted, write, acked, raced, sends>>

\* Mutant of FetchFails: every error is worth another request (whose count
\* starts again, to keep the states few).
FetchFailsForever ==
    /\ fetch.phase # "idle"
    /\ fetch' = [fetch EXCEPT !.phase = "sent"]
    /\ sends' = (sends % 3) + 1
    /\ UNCHANGED <<server, cache, mounted, write, acked, raced>>

\* An error, from the server or the network: request throws, and the client
\* sends again or gives up; data there is stays, marked as invalidated.
FetchFails ==
    /\ fetch.phase # "idle"
    /\ \E status \in {"4xx", "5xx"} :
         IF Retries(fetch.failures, status)
           THEN /\ fetch' = [phase |-> "sent", version |-> 0,
                             failures |-> fetch.failures + 1]
                /\ sends' = sends + 1
                /\ UNCHANGED cache
           ELSE /\ fetch' = Idle
                /\ cache' = [cache EXCEPT !.invalidated = TRUE]
                /\ UNCHANGED sends
    /\ UNCHANGED <<server, mounted, write, acked, raced>>

\* staleTime, thirty seconds, goes by.
GoesStale ==
    /\ cache.fresh
    /\ cache' = [cache EXCEPT !.fresh = FALSE]
    /\ UNCHANGED <<server, mounted, fetch, write, acked, raced, sends>>

\* An entry nobody uses is dropped.
Collected ==
    /\ ~mounted /\ fetch.phase = "idle"
    /\ cache # Empty
    /\ cache' = Empty
    /\ UNCHANGED <<server, mounted, fetch, write, acked, raced, sends>>

\* ------------------------------------------------------------- writing
SendWrite ==
    /\ write.phase = "idle"
    /\ server < MaxVersion
    /\ write' = [NoWrite EXCEPT !.phase = "sent"]
    /\ UNCHANGED <<server, cache, mounted, fetch, acked, raced, sends>>

ServerWrites ==
    /\ write.phase = "sent"
    /\ server < MaxVersion
    /\ server' = server + 1
    /\ write' = [phase |-> "made", version |-> server + 1]
    /\ UNCHANGED <<cache, mounted, fetch, acked, raced, sends>>

\* Somebody else's write.
OthersWrite ==
    /\ server < MaxVersion
    /\ server' = server + 1
    /\ UNCHANGED <<cache, mounted, fetch, write, acked, raced, sends>>

\* Mutant of WriteSucceeds: the caller forgets its invalidateKeys.
SucceedsUnnoticed ==
    /\ write.phase = "made"
    /\ write' = NoWrite
    /\ acked' = write.version
    /\ UNCHANGED <<server, cache, mounted, fetch, raced, sends>>

\* onSuccess: the key is invalidated.  If it is in use it is fetched again, and
\* a fetch under way is cancelled for that if there is data; without data, or
\* if the key is not in use, a fetch under way goes on.
WriteSucceeds ==
    LET inFlight == fetch.phase # "idle"
        again == mounted /\ (inFlight => cache.data # None)
    IN /\ write.phase = "made"
       /\ write' = NoWrite
       /\ acked' = write.version
       /\ cache' = [cache EXCEPT !.invalidated = cache # Empty \/ inFlight]
       /\ IF again
            THEN /\ fetch' = [Idle EXCEPT !.phase = "sent"]
                 /\ sends' = 1
            ELSE UNCHANGED <<fetch, sends>>
       /\ raced' = (inFlight /\ ~again)
       /\ UNCHANGED <<server, mounted>>

\* An error: mutations are not sent again, and nothing is invalidated, also if
\* the write was made and only its answer was lost.
WriteFails ==
    /\ write.phase # "idle"
    /\ write' = NoWrite
    /\ UNCHANGED <<server, cache, mounted, fetch, acked, raced, sends>>

\* The document goes and its memory with it; a write on its way may be made
\* all the same, as somebody else's.
ForgetAll ==
    /\ cache' = Empty /\ mounted' = FALSE /\ fetch' = Idle /\ write' = NoWrite
    /\ raced' = FALSE /\ sends' = 0
    /\ UNCHANGED <<server, acked>>

Write == SendWrite \/ ServerWrites \/ WriteSucceeds \/ WriteFails
Read ==
    \/ MountQuery \/ UnmountQuery \/ ServerReads \/ AnswerArrives
    \/ FetchFails \/ GoesStale \/ Collected

CacheNext == Read \/ Write \/ OthersWrite

CacheTypeOK ==
    /\ server \in 0 .. MaxVersion
    /\ cache.data \in {None} \cup 0 .. MaxVersion
    /\ mounted \in BOOLEAN
    /\ fetch.phase \in {"idle", "sent", "read"}
    /\ write.phase \in {"idle", "sent", "made"}
    /\ acked \in 0 .. server

\* What this client wrote and had confirmed is on the screen, or being fetched,
\* or known to be out of date; the one way around it is a success that finds a
\* fetch under way which it cannot cancel (the first one of a key, or one whose
\* component has gone): that fetch may bring back what the write replaced and
\* passes for fresh.
OwnWritesNotForgotten ==
    cache.data # None /\ ~cache.invalidated /\ fetch.phase = "idle" /\ ~raced
        => cache.data >= acked

\* No fetch asks the server more than three times.
AtMostThreeRequests == sends <= 3

\* Every fetch ends, with an answer or with an error, whatever fails: a page
\* does not show its spinner for good.
FetchesEnd == fetch.phase # "idle" ~> fetch.phase = "idle"
=============================================================================
