--------------------------- MODULE WriteApiProofs ---------------------------
(***************************************************************************)
(* Proofs about WriteApi, for every set of requests, keys and bodies and   *)
(* every size of the cache: types, CommandRunsOnce and AnswersOwnCommand.  *)
(*                                                                         *)
(* CommandRunsOnce is not inductive.  It needs that a request that ran     *)
(* still holds the entry of its key until the key is forgotten (Held), and *)
(* that a request runs again only under a forgotten key (WaitersWait): if  *)
(* the key was not forgotten, the woken request finds the entry it waited  *)
(* for, finished, in time and with its own fingerprint.                    *)
(***************************************************************************)
EXTENDS WriteApi, TLAPS

Keyed(r) == KeyOf[r] \in Key

\* The types, with what they rest on: only requests with a key wait or are
\* recorded in the cache.
Types == /\ TypeOK
         /\ \A r \in Finished : Keyed(r)
         /\ \A r \in Req : pc[r] \in {"waiting", "again"} => Keyed(r)

Held == \A r \in Req : Ran(r) /\ KeyOf[r] \in Key \ forgotten => entries[KeyOf[r]] = r

LapsedForgotten == \A r \in lapsed : KeyOf[r] \in forgotten

WaitersWait ==
  \A r \in Req :
    /\ pc[r] = "waiting" => /\ waitsFor[r] \in Req
                            /\ Ran(waitsFor[r])
                            /\ KeyOf[waitsFor[r]] = KeyOf[r]
                            /\ BodyOf[waitsFor[r]] = BodyOf[r]
    /\ pc[r] = "again" => KeyOf[r] \in forgotten

EntriesRan == \A k \in Key : entries[k] # None => Ran(entries[k]) /\ KeyOf[entries[k]] = k

Recorded == \A r \in Finished : pc[r] = "answered" /\ answer[r] = r

Unanswered == \A r \in Req : /\ pc[r] # "answered" => answer[r] = None
                             /\ pc[r] = "answered" => answer[r] # None
                             /\ answer[r] = r => tried[r] \in {0, Writes[BodyOf[r]]}

Inv == /\ Types /\ Held /\ LapsedForgotten /\ WaitersWait
       /\ EntriesRan /\ Recorded /\ Unanswered /\ AnswersOwnCommand

-----------------------------------------------------------------------------
(* The cache operators.                                                    *)

\* purgeExpiredLocked leaves a function from keys to requests.
LEMMA PurgedType == ASSUME TypeOK PROVE Purged \in [Key -> Req \cup {None}]
BY DEF TypeOK, Purged

\* Eviction names keys of the cache.
LEMMA EvictedKeys == ASSUME NEW c PROVE Evicted(c) \subseteq Key
BY DEF Evicted, Oldest

\* The finished requests are requests.
LEMMA FinishedReq == ASSUME TypeOK PROVE Finished \subseteq Req
BY DEF TypeOK, Finished, Range

\* Recording an answer adds one request to them.
LEMMA FinishedGrows ==
  ASSUME TypeOK, NEW r \in Req
  PROVE Range(Append(finished, r)) = Finished \cup {r}
<1>1. finished \in Seq(Req) BY DEF TypeOK
<1>2. /\ DOMAIN Append(finished, r) = 1..(Len(finished) + 1)
      /\ \A i \in 1..Len(finished) : Append(finished, r)[i] = finished[i]
      /\ Append(finished, r)[Len(finished) + 1] = r
      /\ DOMAIN finished = 1..Len(finished)
      /\ Len(finished) \in Nat
  BY <1>1
<1>3. ASSUME NEW x \in Range(Append(finished, r)) PROVE x \in Finished \cup {r}
  BY <1>2, <1>3 DEF Range, Finished
<1>4. ASSUME NEW x \in Finished \cup {r} PROVE x \in Range(Append(finished, r))
  BY <1>2, <1>4 DEF Range, Finished
<1>5. QED BY <1>3, <1>4

-----------------------------------------------------------------------------
(* Types.                                                                  *)

\* Initially nothing has arrived.
LEMMA InitInv == Init => Inv
<1>1. SUFFICES ASSUME Init PROVE Inv OBVIOUS
<1>2. TypeOK BY RequestsAssumption, <1>1 DEF Init, TypeOK, Pc
<1>3. Finished = {} BY <1>1 DEF Init, Finished, Range
<1>4. \A r \in Req : ~Ran(r) BY <1>1, RequestsAssumption DEF Init, Ran
<1>5. Types BY <1>1, <1>2, <1>3 DEF Init, Types
<1>6. QED BY RequestsAssumption, <1>1, <1>3, <1>4, <1>5
          DEF Init, Inv, Held, LapsedForgotten, WaitersWait, EntriesRan, Recorded, Unanswered,
              AnswersOwnCommand

\* A new entry is an entry of a key of the cache.
LEMMA ReserveTypes ==
  ASSUME Types, NEW r \in Req, NEW c \in [Key -> Req \cup {None}], Reserve(r, c),
         UNCHANGED <<finished, lapsed, waitsFor, tried, answer>>
  PROVE  Types'
<1>1. Evicted(c) \subseteq Key BY EvictedKeys
<1>2. entries' \in [Key -> Req \cup {None}] BY DEF Reserve
<1>3. forgotten' \subseteq Key BY <1>1 DEF Reserve, Types, TypeOK
<1>4. pc' = [pc EXCEPT ![r] = "run"] BY DEF Reserve
<1>5. Finished' = Finished BY DEF Finished
<1>6. TypeOK' BY <1>2, <1>3, <1>4 DEF Types, TypeOK, Pc
<1>7. QED BY <1>4, <1>5, <1>6 DEF Types, TypeOK, Keyed

\* A recorded answer is that of a request with a key.
LEMMA RecordTypes ==
  ASSUME Types, NEW r \in Req, pc[r] = "run", Record(r), UNCHANGED tried
  PROVE  Types'
<1>1. /\ pc' = [pc EXCEPT ![r] = "answered"] /\ answer' = [answer EXCEPT ![r] = r]
      /\ UNCHANGED <<entries, lapsed, forgotten, waitsFor>>
  BY DEF Record, Answer
<1>2. finished' \in Seq(Req) BY DEF Record, Types, TypeOK
<1>3. TypeOK' BY <1>1, <1>2 DEF Types, TypeOK, Pc
<1>4. \A q \in Finished' : Keyed(q)
  <2>1. CASE KeyOf[r] = None BY <2>1 DEF Record, Types, Finished
  <2>2. CASE KeyOf[r] # None
    <3>1. Finished' = Finished \cup {r} BY <2>2, FinishedGrows DEF Record, Types, Finished
    <3>2. Keyed(r) BY <2>2, RequestsAssumption DEF Keyed
    <3>3. QED BY <3>1, <3>2 DEF Types
  <2>3. QED BY <2>1, <2>2
<1>5. QED BY <1>1, <1>3, <1>4 DEF Types, TypeOK, Keyed

\* A step of a handler keeps the types.
LEMMA HandleTypes == ASSUME Types, NEW r \in Req, Handle(r) PROVE Types'
<1>1. CASE Unkeyed(r)
  BY <1>1 DEF Unkeyed, cacheVars, Types, TypeOK, Pc, Finished, Keyed
<1>2. CASE LookupFree(r)
  BY <1>2, PurgedType, ReserveTypes DEF LookupFree, Types
<1>3. CASE LookupFound(r)
  <2>1. Keyed(r) BY <1>3, RequestsAssumption DEF LookupFound, Keyed
  <2>2. Purged \in [Key -> Req \cup {None}] BY PurgedType DEF Types
  <2>3. Purged[KeyOf[r]] \in Req BY <1>3, <2>1, <2>2 DEF LookupFound, Keyed
  <2>4. Finished' = Finished BY <1>3 DEF LookupFound, Finished
  <2>5. \/ /\ pc' = [pc EXCEPT ![r] = "answered"]
           /\ answer' \in [Req -> Req \cup {None, "conflict"}]
           /\ UNCHANGED waitsFor
        \/ /\ pc' = [pc EXCEPT ![r] = "waiting"]
           /\ waitsFor' \in [Req -> Req \cup {None}]
           /\ UNCHANGED answer
    BY <1>3, <2>3 DEF LookupFound, Answer, Types, TypeOK
  <2>6. /\ entries' \in [Key -> Req \cup {None}]
        /\ UNCHANGED <<finished, lapsed, forgotten, tried>>
    BY <1>3, <2>2 DEF LookupFound
  <2>7. TypeOK' BY <2>5, <2>6 DEF Types, TypeOK, Pc
  <2>8. \A q \in Req : pc'[q] \in {"waiting", "again"} => q = r \/ pc[q] \in {"waiting", "again"}
    BY <2>5 DEF Types, TypeOK
  <2>9. QED BY <2>1, <2>4, <2>7, <2>8 DEF Types, Keyed
<1>4. CASE Wake(r)
  <2>1. Keyed(r) BY <1>4 DEF Wake, Types
  <2>2. entries[KeyOf[r]] \in Req \cup {None} BY <2>1 DEF Keyed, Types, TypeOK
  <2>3. \/ /\ pc' = [pc EXCEPT ![r] = "answered"]
           /\ answer' = [answer EXCEPT ![r] = entries[KeyOf[r]]]
        \/ pc' = [pc EXCEPT ![r] = "again"] /\ UNCHANGED answer
    BY <1>4 DEF Wake, Answer
  <2>4. /\ waitsFor' = [waitsFor EXCEPT ![r] = None] /\ UNCHANGED <<cacheVars, tried>>
    BY <1>4 DEF Wake
  <2>5. TypeOK'
    <3>1. pc' \in [Req -> Pc] BY <2>3 DEF Types, TypeOK, Pc
    <3>2. answer' \in [Req -> Req \cup {None, "conflict"}] BY <2>2, <2>3 DEF Types, TypeOK
    <3>3. waitsFor' \in [Req -> Req \cup {None}] BY <2>4 DEF Types, TypeOK
    <3>4. QED BY <2>4, <3>1, <3>2, <3>3 DEF Types, TypeOK, cacheVars
  <2>6. Finished' = Finished BY <2>4 DEF Finished, cacheVars
  <2>7. \A q \in Req : pc'[q] \in {"waiting", "again"} => q = r \/ pc[q] \in {"waiting", "again"}
    BY <2>3 DEF Types, TypeOK
  <2>8. QED BY <2>1, <2>5, <2>6, <2>7 DEF Types, Keyed
<1>5. CASE ReserveAgain(r)
  BY <1>5, ReserveTypes DEF ReserveAgain, Types, TypeOK
<1>6. CASE Refuse(r) BY <1>6, RecordTypes DEF Refuse
<1>7. CASE TryWrite(r)
  BY <1>7 DEF TryWrite, cacheVars, Types, TypeOK, Finished, Keyed
<1>8. CASE EndRun(r) BY <1>8, RecordTypes DEF EndRun
<1>9. QED BY <1>1, <1>2, <1>3, <1>4, <1>5, <1>6, <1>7, <1>8 DEF Handle

\* An entry lapses: its key is one of the cache.
LEMMA LapseTypes == ASSUME Types, Lapse PROVE Types'
<1>1. PICK i \in DOMAIN finished :
        /\ lapsed' = lapsed \cup {finished[i]}
        /\ forgotten' = forgotten \cup {KeyOf[finished[i]]}
        /\ UNCHANGED <<entries, finished, pc, waitsFor, tried, answer>>
  BY DEF Lapse
<1>2. finished[i] \in Req /\ KeyOf[finished[i]] \in Key
  BY DEF Types, TypeOK, Keyed, Finished, Range
<1>3. QED BY <1>1, <1>2 DEF Types, TypeOK, Finished, Keyed

-----------------------------------------------------------------------------
(* The invariant.                                                          *)

\* A finished request ran, and its writes have all been tried or none.
LEMMA FinishedRan ==
  ASSUME Inv, NEW s \in Finished
  PROVE  s \in Req /\ Ran(s) /\ pc[s] = "answered" /\ tried[s] \in {0, Writes[BodyOf[s]]}
<1>1. s \in Req BY FinishedReq DEF Inv, Types
<1>2. QED BY <1>1 DEF Inv, Recorded, Ran, Unanswered

\* A cache without entries that have lapsed.
Pruned(c) == \A k \in Key : c[k] = entries[k] \/ (c[k] = None /\ entries[k] \in lapsed)

\* A request that has not run reserves its key, which is free or was forgotten.
LEMMA ReserveInv ==
  ASSUME Inv, NEW r \in Req, NEW c \in [Key -> Req \cup {None}], Pruned(c), Reserve(r, c),
         pc[r] \in {"new", "again"}, Keyed(r),
         c[KeyOf[r]] = None \/ KeyOf[r] \in forgotten,
         UNCHANGED <<finished, lapsed, waitsFor, tried, answer>>
  PROVE  Inv'
<1> DEFINE gone == Evicted(c)
<1>1. /\ \A k \in Key : entries'[k] = IF k = KeyOf[r] THEN r ELSE IF k \in gone THEN None ELSE c[k]
      /\ forgotten' = forgotten \cup gone
      /\ pc' = [pc EXCEPT ![r] = "run"]
  BY DEF Reserve
<1>2. Types' BY ReserveTypes DEF Inv
<1>3. answer[r] = None /\ r \notin Finished /\ ~Ran(r)
  BY RequestsAssumption DEF Inv, Unanswered, Recorded, Ran
<1>4. /\ Finished' = Finished
      /\ \A q \in Req : q # r => pc'[q] = pc[q] /\ Ran(q)' = Ran(q)
      /\ pc'[r] = "run" /\ Ran(r)'
  BY <1>1 DEF Finished, Ran, Inv, Types, TypeOK
<1>5. Held'
  <2>1. SUFFICES ASSUME NEW q \in Req, q # r, Ran(q), KeyOf[q] \in Key \ forgotten'
                 PROVE  entries'[KeyOf[q]] = q
    BY <1>1, <1>4 DEF Held, Keyed
  <2>2. entries[KeyOf[q]] = q BY <1>1, <2>1 DEF Inv, Held
  <2>3. q \notin lapsed BY <1>1, <2>1 DEF Inv, LapsedForgotten
  <2>4. c[KeyOf[q]] = q BY <2>1, <2>2, <2>3 DEF Pruned
  <2>5. KeyOf[q] # KeyOf[r] BY <1>1, <2>1, <2>4, RequestsAssumption
  <2>6. KeyOf[q] \notin gone BY <1>1, <2>1
  <2>7. QED BY <1>1, <2>1, <2>4, <2>5, <2>6
<1>6. LapsedForgotten' BY <1>1 DEF Inv, LapsedForgotten
<1>7. WaitersWait' BY <1>1, <1>4 DEF Inv, WaitersWait
<1>8. EntriesRan'
  <2>1. SUFFICES ASSUME NEW k \in Key, NEW e, e = entries'[k], e # None
                 PROVE  Ran(e)' /\ KeyOf[e] = k
    BY DEF EntriesRan, Ran
  <2>2. CASE k = KeyOf[r] BY <1>1, <1>4, <2>1, <2>2
  <2>3. CASE k # KeyOf[r]
    <3>1. e = entries[k] BY <1>1, <2>1, <2>3 DEF Pruned
    <3>2. e \in Req BY <2>1, <3>1 DEF Inv, Types, TypeOK
    <3>3. Ran(e) /\ KeyOf[e] = k BY <2>1, <3>1 DEF Inv, EntriesRan
    <3>4. QED BY <1>3, <1>4, <3>2, <3>3
  <2>4. QED BY <2>2, <2>3
<1>9. Recorded' BY <1>3, <1>4, FinishedReq DEF Inv, Types, Recorded
<1>10. Unanswered' BY <1>3, <1>4, RequestsAssumption DEF Inv, Unanswered
<1>11. AnswersOwnCommand'
  <2>1. SUFFICES ASSUME NEW q \in Req, q # r, pc[q] = "answered"
                 PROVE  \E s \in Req :
                          /\ Ran(s)' /\ KeyOf[s] = KeyOf[q]
                          /\ \/ answer[q] = "conflict" /\ BodyOf[s] # BodyOf[q]
                             \/ /\ answer[q] = s /\ BodyOf[s] = BodyOf[q]
                                /\ pc'[s] = "answered" /\ tried[s] \in {0, Writes[BodyOf[q]]}
    BY <1>4 DEF AnswersOwnCommand
  <2>2. PICK s \in Req :
          /\ Ran(s) /\ KeyOf[s] = KeyOf[q]
          /\ \/ answer[q] = "conflict" /\ BodyOf[s] # BodyOf[q]
             \/ /\ answer[q] = s /\ BodyOf[s] = BodyOf[q]
                /\ pc[s] = "answered" /\ tried[s] \in {0, Writes[BodyOf[q]]}
    BY <2>1 DEF Inv, AnswersOwnCommand
  <2>3. s # r BY <1>3, <2>2
  <2>4. QED BY <1>4, <2>2, <2>3
<1>12. QED BY <1>2, <1>5, <1>6, <1>7, <1>8, <1>9, <1>10, <1>11 DEF Inv

\* A request that did not run moves on without running: it is answered from the
\* cache, begins to wait, or wakes.  What it may become is stated by its own pc.
LEMMA CachedInv ==
  ASSUME Inv, Types', NEW r \in Req, pc[r] \in {"new", "waiting"},
         \A k \in Key : entries'[k] = entries[k] \/ (entries'[k] = None /\ entries[k] \in lapsed),
         UNCHANGED <<finished, lapsed, forgotten, tried>>,
         \A q \in Req : q # r => /\ pc'[q] = pc[q] /\ answer'[q] = answer[q]
                                /\ waitsFor'[q] = waitsFor[q],
         \/ /\ pc'[r] = "answered"
            /\ \/ /\ answer'[r] = "conflict"
                  /\ \E s \in Req : KeyOf[s] = KeyOf[r] /\ BodyOf[s] # BodyOf[r] /\ Ran(s)
               \/ /\ answer'[r] \in Finished
                  /\ KeyOf[answer'[r]] = KeyOf[r] /\ BodyOf[answer'[r]] = BodyOf[r]
         \/ /\ pc'[r] = "waiting" /\ answer'[r] = None
            /\ waitsFor'[r] \in Req /\ Ran(waitsFor'[r])
            /\ KeyOf[waitsFor'[r]] = KeyOf[r] /\ BodyOf[waitsFor'[r]] = BodyOf[r]
         \/ pc'[r] = "again" /\ answer'[r] = None /\ KeyOf[r] \in forgotten
  PROVE  Inv'
<1>1. answer[r] = None /\ r \notin Finished /\ ~Ran(r)
  BY RequestsAssumption DEF Inv, Unanswered, Recorded, Ran
<1>2. Finished' = Finished BY DEF Finished
<1>3. answer'[r] # r /\ pc'[r] # "run"
  BY <1>1, RequestsAssumption
<1>4. \A q \in Req : Ran(q)' = Ran(q) BY <1>1, <1>3 DEF Ran
<1>5. Held'
  <2>1. SUFFICES ASSUME NEW q \in Req, Ran(q), KeyOf[q] \in Key \ forgotten
                 PROVE  entries'[KeyOf[q]] = q
    BY <1>4 DEF Held
  <2>2. entries[KeyOf[q]] = q BY <2>1 DEF Inv, Held
  <2>3. QED BY <2>1, <2>2 DEF Inv, LapsedForgotten
<1>6. LapsedForgotten' BY DEF Inv, LapsedForgotten
<1>7. WaitersWait'
  <2>1. SUFFICES ASSUME NEW q \in Req
                 PROVE  /\ pc'[q] = "waiting" => /\ waitsFor'[q] \in Req
                                                 /\ Ran(waitsFor'[q])
                                                 /\ KeyOf[waitsFor'[q]] = KeyOf[q]
                                                 /\ BodyOf[waitsFor'[q]] = BodyOf[q]
                        /\ pc'[q] = "again" => KeyOf[q] \in forgotten
    <3>1. ASSUME NEW q \in Req, NEW o, o = waitsFor'[q], o \in Req, Ran(o)
          PROVE  Ran(o)'
      BY <1>4, <3>1
    <3>2. QED BY <2>1, <3>1 DEF WaitersWait, Ran
  <2>2. QED BY DEF Inv, WaitersWait
<1>8. EntriesRan'
  <2>1. SUFFICES ASSUME NEW k \in Key, NEW e, e = entries'[k], e # None
                 PROVE  Ran(e)' /\ KeyOf[e] = k
    BY DEF EntriesRan, Ran
  <2>2. e = entries[k] /\ e \in Req BY <2>1 DEF Inv, Types, TypeOK
  <2>3. Ran(e) /\ KeyOf[e] = k BY <2>1, <2>2 DEF Inv, EntriesRan
  <2>4. QED BY <1>4, <2>2, <2>3
<1>9. Recorded' BY <1>1, <1>2, FinishedReq DEF Inv, Types, Recorded
<1>10. Unanswered'
  <2>1. answer'[r] \in Req \cup {"conflict", None} BY FinishedReq DEF Inv, Types
  <2>2. pc'[r] = "answered" => answer'[r] # None
    BY FinishedReq, RequestsAssumption DEF Inv, Types
  <2>3. QED BY <1>1, <1>3, <2>1, <2>2 DEF Inv, Unanswered
<1>11. AnswersOwnCommand'
  <2>1. SUFFICES ASSUME NEW q \in Req, pc'[q] = "answered"
                 PROVE  \E s \in Req :
                          /\ Ran(s) /\ KeyOf[s] = KeyOf[q]
                          /\ \/ answer'[q] = "conflict" /\ BodyOf[s] # BodyOf[q]
                             \/ /\ answer'[q] = s /\ BodyOf[s] = BodyOf[q]
                                /\ pc'[s] = "answered" /\ tried[s] \in {0, Writes[BodyOf[q]]}
    BY <1>4 DEF AnswersOwnCommand
  <2>2. \A s \in Req : pc[s] = "answered" => pc'[s] = "answered" OBVIOUS
  <2>3. CASE q = r
    <3>1. CASE answer'[r] = "conflict"
      <4>1. "conflict" \notin Finished BY FinishedReq, RequestsAssumption DEF Inv, Types
      <4>2. \E s \in Req : KeyOf[s] = KeyOf[r] /\ BodyOf[s] # BodyOf[r] /\ Ran(s)
        BY <2>1, <2>3, <3>1, <4>1
      <4>3. QED BY <2>3, <3>1, <4>2
    <3>2. CASE answer'[r] \in Finished
      <4>1. /\ answer'[r] \in Req /\ Ran(answer'[r]) /\ pc[answer'[r]] = "answered"
            /\ tried[answer'[r]] \in {0, Writes[BodyOf[answer'[r]]]}
        BY <3>2, FinishedRan
      <4>2. KeyOf[answer'[r]] = KeyOf[r] /\ BodyOf[answer'[r]] = BodyOf[r]
        BY <2>1, <2>3, <3>2, <4>1, RequestsAssumption
      <4>3. QED BY <2>2, <2>3, <4>1, <4>2
    <3>3. QED BY <2>1, <2>3, <3>1, <3>2
  <2>4. CASE q # r
    <3>1. pc[q] = "answered" /\ answer'[q] = answer[q] BY <2>1, <2>4
    <3>2. PICK s \in Req :
            /\ Ran(s) /\ KeyOf[s] = KeyOf[q]
            /\ \/ answer[q] = "conflict" /\ BodyOf[s] # BodyOf[q]
               \/ /\ answer[q] = s /\ BodyOf[s] = BodyOf[q]
                  /\ pc[s] = "answered" /\ tried[s] \in {0, Writes[BodyOf[q]]}
      BY <3>1 DEF Inv, AnswersOwnCommand
    <3>3. QED BY <2>2, <3>1, <3>2
  <2>5. QED BY <2>3, <2>4
<1>12. QED BY <1>5, <1>6, <1>7, <1>8, <1>9, <1>10, <1>11 DEF Inv

\* A request that ran records its answer.
LEMMA RecordInv ==
  ASSUME Inv, NEW r \in Req, pc[r] = "run", Record(r), UNCHANGED tried,
         tried[r] \in {0, Writes[BodyOf[r]]}
  PROVE  Inv'
<1>1. Types' BY RecordTypes DEF Inv
<1>2. /\ pc' = [pc EXCEPT ![r] = "answered"] /\ answer' = [answer EXCEPT ![r] = r]
      /\ UNCHANGED <<entries, lapsed, forgotten, waitsFor>>
  BY DEF Record, Answer
<1>3. Finished \subseteq Finished' /\ Finished' \subseteq Finished \cup {r}
  BY FinishedGrows DEF Record, Inv, Types, Finished
<1>4. /\ pc'[r] = "answered" /\ answer'[r] = r
      /\ \A q \in Req : q # r => pc'[q] = pc[q] /\ answer'[q] = answer[q]
  BY <1>2 DEF Inv, Types, TypeOK
<1>5. \A q \in Req : Ran(q)' = Ran(q) BY <1>4 DEF Ran
<1>6. Held' BY <1>2, <1>5 DEF Inv, Held
<1>7. LapsedForgotten' BY <1>2 DEF Inv, LapsedForgotten
<1>8. WaitersWait' BY <1>2, <1>4, <1>5 DEF Inv, WaitersWait
<1>9. EntriesRan'
  <2>1. SUFFICES ASSUME NEW k \in Key, NEW e, e = entries[k], e # None
                 PROVE  Ran(e)' /\ KeyOf[e] = k
    BY <1>2 DEF EntriesRan, Ran
  <2>2. e \in Req /\ Ran(e) /\ KeyOf[e] = k BY <2>1 DEF Inv, EntriesRan, Types, TypeOK
  <2>3. QED BY <1>5, <2>2
<1>10. Recorded' BY <1>3, <1>4, FinishedReq DEF Inv, Types, Recorded
<1>11. Unanswered' BY <1>4, RequestsAssumption DEF Inv, Unanswered
<1>12. AnswersOwnCommand'
  <2>1. SUFFICES ASSUME NEW q \in Req, pc'[q] = "answered"
                 PROVE  \E s \in Req :
                          /\ Ran(s) /\ KeyOf[s] = KeyOf[q]
                          /\ \/ answer'[q] = "conflict" /\ BodyOf[s] # BodyOf[q]
                             \/ /\ answer'[q] = s /\ BodyOf[s] = BodyOf[q]
                                /\ pc'[s] = "answered" /\ tried[s] \in {0, Writes[BodyOf[q]]}
    BY <1>5 DEF AnswersOwnCommand
  <2>2. CASE q = r BY <1>4, <2>2 DEF Ran
  <2>3. CASE q # r
    <3>1. PICK s \in Req :
            /\ Ran(s) /\ KeyOf[s] = KeyOf[q]
            /\ \/ answer[q] = "conflict" /\ BodyOf[s] # BodyOf[q]
               \/ /\ answer[q] = s /\ BodyOf[s] = BodyOf[q]
                  /\ pc[s] = "answered" /\ tried[s] \in {0, Writes[BodyOf[q]]}
      BY <1>4, <2>1, <2>3 DEF Inv, AnswersOwnCommand
    <3>2. QED BY <1>4, <2>3, <3>1
  <2>4. QED BY <2>2, <2>3
<1>13. QED BY <1>1, <1>6, <1>7, <1>8, <1>9, <1>10, <1>11, <1>12 DEF Inv

\* A request without a key runs, or one that runs tries a write: no entry, no
\* answer and no other request changes.
LEMMA AloneInv ==
  ASSUME Inv, Types', NEW r \in Req, UNCHANGED <<cacheVars, waitsFor, answer>>,
         pc'[r] = "run", \A q \in Req : q # r => pc'[q] = pc[q] /\ tried'[q] = tried[q],
         pc[r] = "run" \/ (pc[r] = "new" /\ ~Keyed(r))
  PROVE  Inv'
<1>1. answer[r] = None /\ r \notin Finished
  BY RequestsAssumption DEF Inv, Unanswered, Recorded
<1>2. Finished' = Finished BY DEF Finished, cacheVars
<1>3. \A q \in Req : /\ q # r => Ran(q)' = Ran(q)
                     /\ Ran(q) => Ran(q)'
                     /\ Keyed(q) => Ran(q)' = Ran(q)
  BY DEF Ran
<1>4. Held' BY <1>3 DEF Inv, Held, Keyed, cacheVars
<1>5. LapsedForgotten' BY DEF Inv, LapsedForgotten, cacheVars
<1>6. WaitersWait' BY <1>3 DEF Inv, WaitersWait, cacheVars
<1>7. EntriesRan'
  <2>1. SUFFICES ASSUME NEW k \in Key, NEW e, e = entries[k], e # None
                 PROVE  Ran(e)' /\ KeyOf[e] = k
    BY DEF EntriesRan, Ran, cacheVars
  <2>2. e \in Req /\ Ran(e) /\ KeyOf[e] = k BY <2>1 DEF Inv, EntriesRan, Types, TypeOK
  <2>3. QED BY <1>3, <2>2
<1>8. Recorded' BY <1>1, <1>2, FinishedReq DEF Inv, Types, Recorded
<1>9. Unanswered' BY <1>1, RequestsAssumption DEF Inv, Unanswered
<1>10. AnswersOwnCommand'
  <2>1. SUFFICES ASSUME NEW q \in Req, q # r, pc[q] = "answered"
                 PROVE  \E s \in Req :
                          /\ Ran(s)' /\ KeyOf[s] = KeyOf[q]
                          /\ \/ answer[q] = "conflict" /\ BodyOf[s] # BodyOf[q]
                             \/ /\ answer[q] = s /\ BodyOf[s] = BodyOf[q]
                                /\ pc'[s] = "answered" /\ tried'[s] \in {0, Writes[BodyOf[q]]}
    BY DEF AnswersOwnCommand
  <2>2. PICK s \in Req :
          /\ Ran(s) /\ KeyOf[s] = KeyOf[q]
          /\ \/ answer[q] = "conflict" /\ BodyOf[s] # BodyOf[q]
             \/ /\ answer[q] = s /\ BodyOf[s] = BodyOf[q]
                /\ pc[s] = "answered" /\ tried[s] \in {0, Writes[BodyOf[q]]}
    BY <2>1 DEF Inv, AnswersOwnCommand
  <2>3. QED BY <1>3, <2>2
<1>11. QED BY <1>4, <1>5, <1>6, <1>7, <1>8, <1>9, <1>10 DEF Inv

\* Every step of a handler keeps the invariant.
LEMMA HandleInv == ASSUME Inv, NEW r \in Req, Handle(r) PROVE Inv'
<1>1. Types' BY HandleTypes DEF Inv
<1>2. Types BY DEF Inv
<1>3. CASE Unkeyed(r)
  <2>1. ~Keyed(r) BY <1>3, RequestsAssumption DEF Unkeyed, Keyed
  <2>2. QED BY <1>1, <1>2, <1>3, <2>1, AloneInv DEF Unkeyed, Types, TypeOK
<1>4. CASE LookupFree(r)
  <2>1. Keyed(r) BY <1>4, RequestsAssumption DEF LookupFree, Keyed
  <2>2. Purged \in [Key -> Req \cup {None}] /\ Pruned(Purged)
    BY <1>2, PurgedType DEF Types, Pruned, Purged
  <2>3. QED BY <1>4, <2>1, <2>2, ReserveInv DEF LookupFree
<1>5. CASE LookupFound(r)
  <2> DEFINE owner == Purged[KeyOf[r]]
  <2>1. Keyed(r) BY <1>5, RequestsAssumption DEF LookupFound, Keyed
  <2>2. owner = entries[KeyOf[r]] /\ owner \in Req /\ Ran(owner) /\ KeyOf[owner] = KeyOf[r]
    BY <1>2, <1>5, <2>1, RequestsAssumption
    DEF LookupFound, Purged, Keyed, Types, TypeOK, Inv, EntriesRan
  <2>3. \A k \in Key : entries'[k] = entries[k] \/ (entries'[k] = None /\ entries[k] \in lapsed)
    BY <1>5 DEF LookupFound, Purged
  <2>4. answer[r] = None /\ pc[r] = "new" BY <1>5 DEF LookupFound, Inv, Unanswered
  <2>5. \A q \in Req : q # r => /\ pc'[q] = pc[q] /\ answer'[q] = answer[q]
                               /\ waitsFor'[q] = waitsFor[q]
    BY <1>2, <1>5 DEF LookupFound, Answer, Types, TypeOK
  <2>6. \/ /\ pc'[r] = "answered"
           /\ \/ answer'[r] = "conflict" /\ BodyOf[owner] # BodyOf[r]
              \/ answer'[r] = owner /\ owner \in Finished /\ BodyOf[owner] = BodyOf[r]
        \/ /\ pc'[r] = "waiting" /\ answer'[r] = None
           /\ waitsFor'[r] = owner /\ BodyOf[owner] = BodyOf[r]
    BY <1>2, <1>5, <2>4 DEF LookupFound, Answer, Types, TypeOK
  <2>7. UNCHANGED <<finished, lapsed, forgotten, tried>> BY <1>5 DEF LookupFound
  <2>8. QED BY <1>1, <2>2, <2>3, <2>4, <2>5, <2>6, <2>7, CachedInv
<1>6. CASE Wake(r)
  <2> DEFINE owner == entries[KeyOf[r]]
  <2>1. pc[r] = "waiting" /\ Keyed(r) /\ answer[r] = None
    BY <1>2, <1>6 DEF Wake, Types, Inv, Unanswered
  <2>2. \A q \in Req : q # r => /\ pc'[q] = pc[q] /\ answer'[q] = answer[q]
                               /\ waitsFor'[q] = waitsFor[q]
    BY <1>2, <1>6 DEF Wake, Answer, Types, TypeOK
  <2>3. UNCHANGED <<entries, finished, lapsed, forgotten, tried>> BY <1>6 DEF Wake, cacheVars
  <2>4. CASE Replayable(r)
    <3>1. owner \in Finished /\ BodyOf[owner] = BodyOf[r] BY <2>4 DEF Replayable
    <3>2. KeyOf[owner] = KeyOf[r]
      BY <1>2, <2>1, <3>1, FinishedReq, RequestsAssumption DEF Inv, EntriesRan, Keyed, Types
    <3>3. pc'[r] = "answered" /\ answer'[r] = owner
      BY <1>2, <1>6, <2>4 DEF Wake, Answer, Types, TypeOK
    <3>4. QED BY <1>1, <2>1, <2>2, <2>3, <3>1, <3>2, <3>3, CachedInv
  <2>5. CASE ~Replayable(r)
    <3>1. /\ waitsFor[r] \in Finished /\ waitsFor[r] \in Req /\ Ran(waitsFor[r])
          /\ KeyOf[waitsFor[r]] = KeyOf[r] /\ BodyOf[waitsFor[r]] = BodyOf[r]
      BY <1>6 DEF Wake, Inv, WaitersWait
    <3>2. KeyOf[r] \in forgotten
      <4>1. SUFFICES ASSUME KeyOf[r] \notin forgotten PROVE FALSE OBVIOUS
      <4>2. owner = waitsFor[r] BY <2>1, <3>1, <4>1 DEF Inv, Held, Keyed
      <4>3. waitsFor[r] \notin lapsed BY <3>1, <4>1 DEF Inv, LapsedForgotten
      <4>4. QED BY <2>5, <3>1, <4>2, <4>3 DEF Replayable
    <3>3. pc'[r] = "again" /\ answer'[r] = None
      BY <1>2, <1>6, <2>1, <2>5 DEF Wake, Types, TypeOK
    <3>4. QED BY <1>1, <2>1, <2>2, <2>3, <3>2, <3>3, CachedInv
  <2>6. QED BY <2>4, <2>5
<1>7. CASE ReserveAgain(r)
  <2>1. Keyed(r) /\ KeyOf[r] \in forgotten BY <1>7 DEF ReserveAgain, Inv, Types, WaitersWait
  <2>2. entries \in [Key -> Req \cup {None}] /\ Pruned(entries)
    BY <1>2 DEF Types, TypeOK, Pruned
  <2>3. QED BY <1>7, <2>1, <2>2, ReserveInv DEF ReserveAgain
<1>8. CASE Refuse(r) BY <1>8, RecordInv DEF Refuse
<1>9. CASE TryWrite(r)
  <2>1. UNCHANGED <<cacheVars, pc, waitsFor, answer>> /\ pc[r] = "run" BY <1>9 DEF TryWrite
  <2>2. \A q \in Req : q # r => tried'[q] = tried[q] BY <1>2, <1>9 DEF TryWrite, Types, TypeOK
  <2>3. QED BY <1>1, <2>1, <2>2, AloneInv
<1>10. CASE EndRun(r) BY <1>10, RecordInv DEF EndRun
<1>11. QED BY <1>3, <1>4, <1>5, <1>6, <1>7, <1>8, <1>9, <1>10 DEF Handle

\* When an entry lapses its key counts as forgotten.
LEMMA LapseInv == ASSUME Inv, Lapse PROVE Inv'
<1>1. PICK i \in DOMAIN finished :
        /\ lapsed' = lapsed \cup {finished[i]}
        /\ forgotten' = forgotten \cup {KeyOf[finished[i]]}
        /\ UNCHANGED <<entries, finished, pc, waitsFor, tried, answer>>
  BY DEF Lapse
<1>2. Types' BY LapseTypes DEF Inv
<1>3. Finished' = Finished BY <1>1 DEF Finished
<1>4. \A q \in Req : Ran(q)' = Ran(q) BY <1>1 DEF Ran
<1>5. Held' BY <1>1, <1>4 DEF Inv, Held
<1>6. LapsedForgotten' BY <1>1 DEF Inv, LapsedForgotten
<1>7. WaitersWait' BY <1>1, <1>4 DEF Inv, WaitersWait
<1>8. EntriesRan' BY <1>1, <1>4 DEF Inv, EntriesRan, Ran
<1>9. Recorded' /\ Unanswered' BY <1>1, <1>3 DEF Inv, Recorded, Unanswered
<1>10. AnswersOwnCommand' BY <1>1, <1>4 DEF Inv, AnswersOwnCommand
<1>11. QED BY <1>2, <1>5, <1>6, <1>7, <1>8, <1>9, <1>10 DEF Inv

\* The invariant holds in every state.
LEMMA Invariance == Spec => []Inv
<1>1. Inv /\ [Next]_vars => Inv'
  <2>1. SUFFICES ASSUME Inv, [Next]_vars PROVE Inv' OBVIOUS
  <2>2. CASE UNCHANGED vars
    <3>1. UNCHANGED <<entries, finished, lapsed, forgotten, pc, waitsFor, tried, answer>>
      BY <2>2 DEF vars, cacheVars
    <3>2. Finished' = Finished BY <3>1 DEF Finished
    <3>3. \A q \in Req : Ran(q)' = Ran(q) BY <3>1 DEF Ran
    <3>4. Types' BY <2>1, <3>1, <3>2 DEF Inv, Types, TypeOK, Keyed
    <3>5. QED BY <2>1, <3>1, <3>2, <3>3, <3>4
              DEF Inv, Held, LapsedForgotten, WaitersWait, EntriesRan, Ran, Recorded, Unanswered,
                  AnswersOwnCommand
  <2>3. CASE Lapse BY <2>1, <2>3, LapseInv
  <2>4. ASSUME NEW r \in Req, Handle(r) PROVE Inv' BY <2>1, <2>4, HandleInv
  <2>5. QED BY <2>1, <2>2, <2>3, <2>4 DEF Next
<1>2. QED BY InitInv, <1>1, PTL DEF Spec

-----------------------------------------------------------------------------

\* Every variable keeps its type.
THEOREM TypeCorrect == Spec => []TypeOK
<1>1. Inv => TypeOK BY DEF Inv, Types
<1>2. QED BY Invariance, <1>1, PTL

\* Two requests with one key both run only if an entry of the key was evicted or
\* lapsed: withIdempotency executes a command at most once while it remembers it.
THEOREM RunsOnce == Spec => []CommandRunsOnce
<1>1. Inv => CommandRunsOnce BY DEF Inv, Held, CommandRunsOnce
<1>2. QED BY Invariance, <1>1, PTL

\* The answer of every request is that of a finished request with its key and
\* body, or a 409 for which there is another body under the key.
THEOREM AnswersOwn == Spec => []AnswersOwnCommand
<1>1. Inv => AnswersOwnCommand BY DEF Inv
<1>2. QED BY Invariance, <1>1, PTL
=============================================================================
