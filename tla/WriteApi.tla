------------------------------ MODULE WriteApi ------------------------------
(***************************************************************************)
(* The write requests, PUT of one value and POST of a batch, behind        *)
(* withIdempotency.  A request reserves its Idempotency-Key under the      *)
(* mutex of the cache, runs outside of it, and records its answer; another *)
(* request of the key gets that answer, waits for it, or is refused.  An   *)
(* entry is forgotten ten minutes after its answer, or sooner when the     *)
(* cache is full; the waiter of a forgotten entry runs again.              *)
(*                                                                         *)
(* An entry is named by the request that made it, a fingerprint by its     *)
(* body.  How each write of a body ends changes nothing here, success or   *)
(* failure is recorded and replayed alike, so a write is only counted.     *)
(***************************************************************************)
EXTENDS Naturals, FiniteSets, Sequences, Functions

CONSTANTS Req, Key, Body, None,
          KeyOf,       \* [Req -> Key \cup {None}], None: no header
          BodyOf,      \* [Req -> Body]
          Writes,      \* [Body -> Nat], the values a body asks to write
          MaxEntries   \* maxIdempotencyEntries

ASSUME RequestsAssumption == /\ None \notin Req \cup Key \cup {"conflict"}
                             /\ "conflict" \notin Req
                             /\ KeyOf \in [Req -> Key \cup {None}]
                             /\ BodyOf \in [Req -> Body]
                             /\ Writes \in [Body -> Nat]

VARIABLES entries,    \* [Key -> request that made the entry, or None]
          finished,   \* the requests that recorded an answer, oldest first
          lapsed,     \* those of them whose ten minutes are over
          forgotten,  \* keys that had an entry evicted or lapsed (history)
          pc,         \* of each request
          waitsFor,   \* the entry whose channel a request waits on
          tried,      \* how many of its writes a request has tried
          answer      \* the request whose outcome was answered, or "conflict"

cacheVars == <<entries, finished, lapsed, forgotten>>
vars == <<cacheVars, pc, waitsFor, tried, answer>>

Pc == {"new", "waiting", "again", "run", "answered"}

TypeOK == /\ entries \in [Key -> Req \cup {None}]
          /\ finished \in Seq(Req)
          /\ lapsed \subseteq Req
          /\ forgotten \subseteq Key
          /\ pc \in [Req -> Pc]
          /\ waitsFor \in [Req -> Req \cup {None}]
          /\ tried \in [Req -> Nat]
          /\ answer \in [Req -> Req \cup {None, "conflict"}]

Init == /\ entries = [k \in Key |-> None]
        /\ finished = <<>> /\ lapsed = {} /\ forgotten = {}
        /\ pc = [r \in Req |-> "new"]
        /\ waitsFor = [r \in Req |-> None]
        /\ tried = [r \in Req |-> 0]
        /\ answer = [r \in Req |-> None]

-----------------------------------------------------------------------------
(* The cache.                                                              *)

Finished == Range(finished)

\* purgeExpiredLocked
Purged == [k \in Key |-> IF entries[k] \in lapsed THEN None ELSE entries[k]]

\* The finished entry that evictOldestLocked deletes, if there is one.
Oldest(cache) ==
  {k \in Key : \E i \in DOMAIN finished :
      /\ cache[k] = finished[i]
      /\ \A j \in 1..(i - 1) : finished[j] \notin Range(cache)}

Evicted(cache) ==
  IF Cardinality({k \in Key : cache[k] # None}) >= MaxEntries THEN Oldest(cache) ELSE {}

\* A new entry for the key of r, whatever is there.
Reserve(r, cache) ==
  LET gone == Evicted(cache) IN
  /\ entries' = [k \in Key |-> IF k = KeyOf[r] THEN r
                               ELSE IF k \in gone THEN None ELSE cache[k]]
  /\ forgotten' = forgotten \cup gone
  /\ pc' = [pc EXCEPT ![r] = "run"]

Answer(r, a) == pc' = [pc EXCEPT ![r] = "answered"] /\ answer' = [answer EXCEPT ![r] = a]

\* No header: the request runs without the cache.
Unkeyed(r) == /\ pc[r] = "new" /\ KeyOf[r] = None
              /\ pc' = [pc EXCEPT ![r] = "run"]
              /\ UNCHANGED <<cacheVars, waitsFor, tried, answer>>

\* The key is free, or its entry has just been purged.
LookupFree(r) ==
  /\ pc[r] = "new" /\ KeyOf[r] # None
  /\ Purged[KeyOf[r]] = None
  /\ Reserve(r, Purged)
  /\ UNCHANGED <<finished, lapsed, waitsFor, tried, answer>>

\* The entry is there: replay its answer, wait for it, or 409.
LookupFound(r) ==
  LET owner == Purged[KeyOf[r]] IN
  /\ pc[r] = "new" /\ KeyOf[r] # None
  /\ owner # None
  /\ entries' = Purged
  /\ \/ /\ BodyOf[owner] # BodyOf[r]
        /\ Answer(r, "conflict") /\ UNCHANGED waitsFor
     \/ /\ BodyOf[owner] = BodyOf[r] /\ owner \in Finished
        /\ Answer(r, owner) /\ UNCHANGED waitsFor
     \/ /\ BodyOf[owner] = BodyOf[r] /\ owner \notin Finished
        /\ pc' = [pc EXCEPT ![r] = "waiting"]
        /\ waitsFor' = [waitsFor EXCEPT ![r] = owner]
        /\ UNCHANGED answer
  /\ UNCHANGED <<finished, lapsed, forgotten, tried>>

\* Mutant: a woken request runs, as if its own entry had been lost.
ReplayableNever(r) == FALSE

\* Mutant: the woken request does not compare the fingerprint again.
ReplayableAnyBody(r) == entries[KeyOf[r]] \in Finished \ lapsed

\* The entry that r finds when it wakes can answer it.
Replayable(r) == LET owner == entries[KeyOf[r]] IN
  /\ owner \in Finished \ lapsed
  /\ BodyOf[owner] = BodyOf[r]

\* Mutant: a request whose entry is gone goes on waiting.
WakeToReplay(r) == /\ pc[r] = "waiting" /\ waitsFor[r] \in Finished
                   /\ Replayable(r) /\ Answer(r, entries[KeyOf[r]])
                   /\ UNCHANGED <<cacheVars, waitsFor, tried>>

\* close(ent.wait) wakes the request; it takes the lock again and looks.
Wake(r) == /\ pc[r] = "waiting" /\ waitsFor[r] \in Finished
           /\ waitsFor' = [waitsFor EXCEPT ![r] = None]
           /\ IF Replayable(r) THEN Answer(r, entries[KeyOf[r]])
                               ELSE pc' = [pc EXCEPT ![r] = "again"] /\ UNCHANGED answer
           /\ UNCHANGED <<cacheVars, tried>>

\* The lock was given back in between; what is there now is not looked at.
ReserveAgain(r) == /\ pc[r] = "again"
                   /\ Reserve(r, entries)
                   /\ UNCHANGED <<finished, lapsed, waitsFor, tried, answer>>

-----------------------------------------------------------------------------
(* The handlers.                                                           *)

\* Mutant: a request without a key records its answer too.
RecordAlways(r) == /\ Answer(r, r)
                   /\ finished' = Append(finished, r)
                   /\ UNCHANGED <<entries, lapsed, forgotten, waitsFor>>

\* The answer of a request that ran is recorded, whatever it is.
Record(r) == /\ Answer(r, r)
             /\ finished' = IF KeyOf[r] = None THEN finished ELSE Append(finished, r)
             /\ UNCHANGED <<entries, lapsed, forgotten, waitsFor>>

\* Writing is disabled or simulated, or the body is not valid.
Refuse(r) == pc[r] = "run" /\ tried[r] = 0 /\ Record(r) /\ UNCHANGED tried

\* One write of the body: rejected, refused by the server or taken by it.
TryWrite(r) ==
  /\ pc[r] = "run"
  /\ tried[r] < Writes[BodyOf[r]]
  /\ tried' = [tried EXCEPT ![r] = @ + 1]
  /\ UNCHANGED <<cacheVars, pc, waitsFor, answer>>

EndRun(r) == /\ pc[r] = "run" /\ tried[r] = Writes[BodyOf[r]]
             /\ Record(r)
             /\ UNCHANGED tried

\* Ten minutes after its answer, in the order of the answers.
Lapse == \E i \in DOMAIN finished :
  LET r == finished[i] IN
  /\ r \notin lapsed
  /\ \A j \in 1..(i - 1) : finished[j] \in lapsed
  /\ lapsed' = lapsed \cup {r}
  /\ forgotten' = forgotten \cup {KeyOf[r]}
  /\ UNCHANGED <<entries, finished, pc, waitsFor, tried, answer>>

Handle(r) == \/ Unkeyed(r) \/ LookupFree(r) \/ LookupFound(r) \/ Wake(r) \/ ReserveAgain(r)
             \/ Refuse(r) \/ TryWrite(r) \/ EndRun(r)

Next == Lapse \/ \E r \in Req : Handle(r)

\* A handler goes on by itself: the calls of a write have a timeout.
Spec == Init /\ [][Next]_vars /\ \A r \in Req : WF_vars(Handle(r))

-----------------------------------------------------------------------------
(* Properties.                                                             *)

Ran(r) == pc[r] = "run" \/ answer[r] = r

\* Of the requests with one key at most one runs, as long as no entry of the
\* key has been evicted or has lapsed: a retry, even one that comes while the
\* first request still runs, is answered without a second write.
CommandRunsOnce ==
  \A r, s \in Req :
     (r # s /\ KeyOf[r] = KeyOf[s] /\ KeyOf[r] \in Key \ forgotten) => ~(Ran(r) /\ Ran(s))

\* An answer tells how the writes of this very command ended: it comes from a
\* finished request with the same key and body, even when the entry the request
\* waited for was replaced; 409 is for another body under the key.
AnswersOwnCommand ==
  \A r \in Req : pc[r] = "answered" =>
     \E s \in Req :
        /\ Ran(s)
        /\ KeyOf[s] = KeyOf[r]
        /\ \/ answer[r] = "conflict" /\ BodyOf[s] # BodyOf[r]
           \/ /\ answer[r] = s /\ BodyOf[s] = BodyOf[r]
              /\ pc[s] = "answered"
              /\ tried[s] \in {0, Writes[BodyOf[r]]}

\* No request waits for ever, neither for a lock nor for the answer of another.
EveryRequestAnswered == \A r \in Req : <>(pc[r] = "answered")
=============================================================================
