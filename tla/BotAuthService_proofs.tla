------------------------ MODULE BotAuthService_proofs ------------------------
(***************************************************************************)
(* Proofs about BotAuthService: the type invariant, that a registered bot  *)
(* is never registered over, and that the cache serves outdated bots only  *)
(* for the two reasons that CacheIsCurrent excuses, for every number of    *)
(* bots, keys and calls.                                                   *)
(***************************************************************************)
EXTENDS BotAuthService, TLAPS

(* What is known of a call k when the database is d: it is about a bot, it *)
(* has the key it is going to store, it saves only if its operation does,  *)
(* and it has no document of a bot that is not stored.                     *)
Coherent(k, d) ==
  /\ k.step # "idle" => k.bot \in Bots
  /\ k.step # "idle" /\ k.op \in {"register", "regenerate"} => k.key \in Keys
  /\ k.step \in {"saving", "saved"} => k.op \in Update \cup {"register"}
  /\ k.step = "saving" /\ k.op \in Update => k.doc # NoBot
  /\ k.doc # NoBot => k.bot \in Bots /\ d[k.bot] # NoBot

AllCoherent == \A c \in Calls : Coherent(calls[c], db)

(* CacheIsCurrent without the calls that register a bot: their bot was     *)
(* not cached when they saved it.                                          *)
ClearPending(b) ==
  \E c \in Calls : /\ calls[c].bot = b /\ calls[c].step = "saved"
                   /\ calls[c].op # "register"

CacheInv ==
  /\ cache \in [Bots -> Document \cup {NoBot}]
  /\ expired \subseteq Bots /\ excused \subseteq Bots
  /\ \A b \in Bots : cache[b] # NoBot => db[b] # NoBot
  /\ \A b \in Bots : cache[b] \notin {NoBot, db[b]} => b \in excused \/ ClearPending(b)

DbInv == db \in [Bots -> Document \cup {NoBot}]
CallsInv == calls \in [Calls -> Call] /\ AllCoherent
AuthInv == DbInv /\ CallsInv /\ CacheInv

(* A step moves one call; bots are never deleted. *)
LEMMA OneCallMoves ==
  ASSUME CallsInv, NEW c \in Calls, NEW k \in Call, Coherent(k, db'),
         calls' = [calls EXCEPT ![c] = k],
         \A b \in Bots : db[b] # NoBot => db'[b] # NoBot
  PROVE  CallsInv'
  <1>1. calls' \in [Calls -> Call]
    BY DEF CallsInv
  <1>2. ASSUME NEW d \in Calls PROVE Coherent(calls'[d], db')
    <2>1. CASE d = c
      BY <2>1 DEF CallsInv
    <2>2. CASE d # c
      <3>1. calls'[d] = calls[d] /\ Coherent(calls[d], db)
        BY <2>2 DEF CallsInv, AllCoherent
      <3> QED BY <3>1 DEF Coherent
    <2> QED BY <2>1, <2>2
  <1> QED BY <1>1, <1>2 DEF CallsInv, AllCoherent

(* A call that leaves database and cache alone, and is not the one that is *)
(* about to clear an entry.                                                *)
LEMMA QuietMove ==
  ASSUME CallsInv, CacheInv, NEW c \in Calls, NEW k,
         calls' = [calls EXCEPT ![c] = k],
         calls[c].step # "saved" \/ calls[c].op = "register",
         CacheUnchanged, UNCHANGED db
  PROVE  CacheInv'
  <1>1. \A d \in Calls : d # c => calls'[d] = calls[d]
    BY DEF CallsInv
  <1>2. \A b \in Bots : ClearPending(b) => ClearPending(b)'
    BY <1>1 DEF ClearPending
  <1> QED BY <1>2 DEF CacheInv, CacheUnchanged

(* A call that clears an entry, its own if it has saved. *)
LEMMA ClearingMove ==
  ASSUME CallsInv, CacheInv, NEW c \in Calls, NEW k,
         calls' = [calls EXCEPT ![c] = k], NEW b \in Bots,
         calls[c].step # "saved" \/ calls[c].bot = b,
         clearCache(b), UNCHANGED db
  PROVE  CacheInv'
  <1>1. \A d \in Calls : d # c => calls'[d] = calls[d]
    BY DEF CallsInv
  <1>2. \A x \in Bots : x # b /\ ClearPending(x) => ClearPending(x)'
    BY <1>1 DEF ClearPending
  <1>3. \A x \in Bots : cache'[x] = IF x = b THEN NoBot ELSE cache[x]
    BY DEF clearCache, CacheInv
  <1>4. cache' \in [Bots -> Document \cup {NoBot}]
    BY DEF clearCache, CacheInv
  <1>5. /\ expired' \subseteq Bots /\ excused' \subseteq Bots
        /\ \A x \in Bots : x # b /\ x \in excused => x \in excused'
    BY DEF clearCache, CacheInv
  <1> QED BY <1>2, <1>3, <1>4, <1>5 DEF CacheInv

(* What a call is when it begins. *)
LEMMA Begun ==
  ASSUME NEW op \in Operation, NEW b \in Bots, NEW k \in Keys \cup {NoKey},
         NEW step \in {"idle", "finding", "accepted"}, NEW d,
         op \in {"register", "regenerate"} => k \in Keys,
         NEW call,
         call = IF step = "idle" THEN Idle
                ELSE [op |-> op, bot |-> b, key |-> k, doc |-> NoBot, step |-> step]
  PROVE  call \in Call /\ Coherent(call, d)
  <1>1. CASE step = "idle"
    BY <1>1 DEF Idle, Call, Operation, Step, Coherent
  <1>2. CASE step # "idle"
    BY <1>2 DEF Call, Step, Coherent
  <1> QED BY <1>1, <1>2

(* validateBot() and getBot() up to the first await. *)
LEMMA LookupStep ==
  ASSUME AuthInv, NEW c \in Calls, NEW op \in {"validate", "get"}, NEW b \in Bots,
         NEW k \in Keys \cup {NoKey}, Lookup(c, op, b, k), UNCHANGED db,
         calls[c].step # "saved"
  PROVE  AuthInv'
  <1>1. PICK step \in {"idle", "finding", "accepted"} :
          /\ Begin(c, op, b, k, step)
          /\ clearCache(b) \/ CacheUnchanged
    BY DEF Lookup, Answer
  <1> DEFINE call == IF step = "idle" THEN Idle
                     ELSE [op |-> op, bot |-> b, key |-> k, doc |-> NoBot,
                           step |-> step]
  <1>2. calls' = [calls EXCEPT ![c] = call]
    BY <1>1 DEF Begin
  <1>3. call \in Call /\ Coherent(call, db')
    BY Begun DEF Operation
  <1> HIDE DEF call
  <1>4. CallsInv'
    BY <1>2, <1>3, OneCallMoves DEF AuthInv
  <1>5. CacheInv'
    BY <1>1, <1>2, QuietMove, ClearingMove DEF AuthInv
  <1> QED BY <1>4, <1>5 DEF AuthInv, DbInv

(* The other operations up to the first await. *)
LEMMA RequestStep ==
  ASSUME AuthInv, NEW c \in Calls, NEW op \in Update \cup {"register"},
         NEW b \in Bots, Request(c, op, b)
  PROVE  AuthInv'
  <1>1. PICK k \in Keys \cup {NoKey} :
          /\ op \in {"register", "regenerate"} => k \in Keys
          /\ Begin(c, op, b, k, "finding")
    BY DEF Request, FreshKeys
  <1> DEFINE call == [op |-> op, bot |-> b, key |-> k, doc |-> NoBot,
                      step |-> "finding"]
  <1>2. calls' = [calls EXCEPT ![c] = call]
    BY <1>1 DEF Begin
  <1>3. call \in Call /\ Coherent(call, db')
    BY <1>1, Begun DEF Operation
  <1> HIDE DEF call
  <1>4. /\ calls[c].step # "saved" /\ CacheUnchanged /\ UNCHANGED db
    BY DEF Request
  <1>5. CallsInv'
    BY <1>2, <1>3, <1>4, OneCallMoves DEF AuthInv
  <1>6. CacheInv'
    BY <1>2, <1>4, QuietMove DEF AuthInv
  <1> QED BY <1>4, <1>5, <1>6 DEF AuthInv, DbInv

(* What a call is after Goto(). *)
LEMMA Gone ==
  ASSUME NEW k \in Call, NEW d, NEW step \in Step, Coherent(k, d),
         k.step # "idle",
         step \in {"saving", "saved"} => k.op \in Update \cup {"register"},
         step = "saving" /\ k.op \in Update => k.doc # NoBot,
         NEW call, call = IF step = "idle" THEN Idle ELSE [k EXCEPT !.step = step]
  PROVE  call \in Call /\ Coherent(call, d)
  <1>1. CASE step = "idle"
    BY <1>1 DEF Idle, Call, Operation, Step, Coherent
  <1>2. CASE step # "idle"
    <2>1. call \in Call
      BY <1>2 DEF Call
    <2>2. /\ call.op = k.op /\ call.bot = k.bot /\ call.key = k.key
          /\ call.doc = k.doc /\ call.step = step
      BY <1>2 DEF Call
    <2> QED BY <2>1, <2>2 DEF Coherent
  <1> QED BY <1>1, <1>2

(* A call goes on, and the database stays as it is. *)
LEMMA GotoCalls ==
  ASSUME CallsInv, NEW c \in Calls, NEW step \in Step, Goto(c, step), UNCHANGED db,
         calls[c].step # "idle",
         step \in {"saving", "saved"} => calls[c].op \in Update \cup {"register"},
         step = "saving" /\ calls[c].op \in Update => calls[c].doc # NoBot
  PROVE  /\ CallsInv'
         /\ \E k : calls' = [calls EXCEPT ![c] = k]
  <1> DEFINE call == IF step = "idle" THEN Idle ELSE [calls[c] EXCEPT !.step = step]
  <1>1. calls' = [calls EXCEPT ![c] = call]
    BY DEF Goto
  <1>2. calls[c] \in Call /\ Coherent(calls[c], db)
    BY DEF CallsInv, AllCoherent
  <1>3. call \in Call /\ Coherent(call, db)
    BY <1>2, Gone
  <1> HIDE DEF call
  <1> QED BY <1>1, <1>3, OneCallMoves

-----------------------------------------------------------------------------
(* The steps of a call that is under way *)

LEMMA FindStep ==
  ASSUME AuthInv, NEW c \in Calls, Find(c)
  PROVE  AuthInv'
  <1> DEFINE k == calls[c]
             doc == db[k.bot]
             call == [k EXCEPT !.step = "found", !.doc = doc]
  <1>1. k \in Call /\ Coherent(k, db) /\ k.step = "finding"
    BY DEF AuthInv, CallsInv, AllCoherent, Find
  <1>2. k.bot \in Bots /\ doc \in Document \cup {NoBot}
    BY <1>1 DEF Coherent, AuthInv, DbInv
  <1>3. calls' = [calls EXCEPT ![c] = call] /\ UNCHANGED db /\ CacheUnchanged
    BY DEF Find
  <1> HIDE DEF k, doc
  <1>4. call \in Call
    BY <1>1, <1>2 DEF Call, Step
  <1>5. /\ call.op = k.op /\ call.bot = k.bot /\ call.key = k.key
        /\ call.doc = doc /\ call.step = "found"
    BY <1>1 DEF Call
  <1>6. Coherent(call, db)
    BY <1>1, <1>2, <1>5 DEF Coherent, doc
  <1> HIDE DEF call
  <1>7. CallsInv'
    BY <1>3, <1>4, <1>6, OneCallMoves DEF AuthInv
  <1>8. CacheInv'
    BY <1>1, <1>3, QuietMove DEF AuthInv, k
  <1> QED BY <1>3, <1>7, <1>8 DEF AuthInv, DbInv

(* What was found is put in the cache: it is excused if it is not what is  *)
(* stored by now.                                                          *)
LEMMA CachingMove ==
  ASSUME CallsInv, CacheInv, NEW c \in Calls, NEW k,
         calls' = [calls EXCEPT ![c] = k], calls[c].step # "saved",
         NEW b \in Bots, db[b] # NoBot, NEW doc \in Document,
         cacheBot(b, doc), UNCHANGED db
  PROVE  CacheInv'
  <1>1. \A d \in Calls : d # c => calls'[d] = calls[d]
    BY DEF CallsInv
  <1>2. \A x \in Bots : ClearPending(x) => ClearPending(x)'
    BY <1>1 DEF ClearPending
  <1>3. \A x \in Bots : cache'[x] = IF x = b THEN doc ELSE cache[x]
    BY DEF cacheBot, CacheInv
  <1>4. cache' \in [Bots -> Document \cup {NoBot}]
    BY DEF cacheBot, CacheInv
  <1>5. /\ expired' \subseteq Bots /\ excused' \subseteq Bots
        /\ \A x \in Bots : x # b /\ x \in excused => x \in excused'
        /\ doc # db[b] => b \in excused'
    BY DEF cacheBot, CacheInv
  <1> QED BY <1>2, <1>3, <1>4, <1>5 DEF CacheInv

LEMMA LookedUpStep ==
  ASSUME AuthInv, NEW c \in Calls, LookedUp(c)
  PROVE  AuthInv'
  <1>1. calls[c] \in Call /\ Coherent(calls[c], db) /\ calls[c].step = "found"
    BY DEF AuthInv, CallsInv, AllCoherent, LookedUp
  <1>2. UNCHANGED db
    BY DEF LookedUp
  <1>3. PICK step \in {"idle", "accepted"} :
          /\ Goto(c, step)
          /\ \/ calls[c].doc = NoBot /\ CacheUnchanged
             \/ calls[c].doc # NoBot /\ cacheBot(calls[c].bot, calls[c].doc)
    BY DEF LookedUp, Answer
  <1>4. CallsInv' /\ \E k : calls' = [calls EXCEPT ![c] = k]
    BY <1>1, <1>2, <1>3, GotoCalls DEF AuthInv, Step
  <1>5. CacheInv'
    <2>1. CASE calls[c].doc = NoBot
      BY <1>1, <1>2, <1>3, <1>4, <2>1, QuietMove DEF AuthInv
    <2>2. CASE calls[c].doc # NoBot
      <3>1. /\ calls[c].bot \in Bots /\ db[calls[c].bot] # NoBot
            /\ calls[c].doc \in Document
        BY <1>1, <2>2 DEF Coherent, Call
      <3> QED BY <1>1, <1>2, <1>3, <1>4, <2>2, <3>1, CachingMove DEF AuthInv
    <2> QED BY <2>1, <2>2
  <1> QED BY <1>2, <1>4, <1>5 DEF AuthInv, DbInv

LEMMA EditStep ==
  ASSUME AuthInv, NEW c \in Calls, Edit(c)
  PROVE  AuthInv'
  <1>1. /\ calls[c].step = "found" /\ calls[c].op \in Update \cup {"register"}
        /\ UNCHANGED db /\ CacheUnchanged
    BY DEF Edit
  <1>2. PICK step \in {"idle", "saving"} :
          /\ Goto(c, step)
          /\ step = "saving" /\ calls[c].op \in Update => calls[c].doc # NoBot
    BY DEF Edit, Refuses
  <1>3. CallsInv' /\ \E k : calls' = [calls EXCEPT ![c] = k]
    BY <1>1, <1>2, GotoCalls DEF AuthInv, Step
  <1>4. CacheInv'
    BY <1>1, <1>3, QuietMove DEF AuthInv
  <1> QED BY <1>1, <1>3, <1>4 DEF AuthInv, DbInv

LEMMA FailStep ==
  ASSUME AuthInv, NEW c \in Calls, Fail(c)
  PROVE  AuthInv'
  <1>1. /\ calls[c].step \notin {"idle", "saved"}
        /\ Goto(c, "idle") /\ UNCHANGED db /\ CacheUnchanged
    BY DEF Fail
  <1>2. CallsInv' /\ \E k : calls' = [calls EXCEPT ![c] = k]
    BY <1>1, GotoCalls DEF AuthInv, Step
  <1>3. CacheInv'
    BY <1>1, <1>2, QuietMove DEF AuthInv
  <1> QED BY <1>1, <1>2, <1>3 DEF AuthInv, DbInv

LEMMA LoseAnswerStep ==
  ASSUME AuthInv, NEW c \in Calls, LoseAnswer(c)
  PROVE  AuthInv'
  <1>1. /\ calls[c].step = "saved" /\ Goto(c, "idle")
        /\ UNCHANGED <<db, cache, expired>>
        /\ excused' = excused \cup {b \in {calls[c].bot} : cache[b] # NoBot}
    BY DEF LoseAnswer
  <1>2. CallsInv' /\ \E k : calls' = [calls EXCEPT ![c] = k]
    BY <1>1, GotoCalls DEF AuthInv, Step
  <1>3. calls[c].bot \in Bots
    BY <1>1 DEF AuthInv, CallsInv, AllCoherent, Coherent
  <1>4. \A d \in Calls : d # c => calls'[d] = calls[d]
    BY <1>2 DEF AuthInv, CallsInv
  <1>5. \A b \in Bots : b # calls[c].bot /\ ClearPending(b) => ClearPending(b)'
    BY <1>4 DEF ClearPending
  <1>6. excused' \subseteq Bots /\ excused \subseteq excused'
        /\ (cache[calls[c].bot] # NoBot => calls[c].bot \in excused')
    BY <1>1, <1>3 DEF AuthInv, CacheInv
  <1>7. CacheInv'
    BY <1>1, <1>5, <1>6 DEF AuthInv, CacheInv
  <1> QED BY <1>1, <1>2, <1>7 DEF AuthInv, DbInv

LEMMA SavedStep ==
  ASSUME AuthInv, NEW c \in Calls, Saved(c)
  PROVE  AuthInv'
  <1>1. /\ calls[c].step = "saved" /\ Goto(c, "idle") /\ UNCHANGED db
        /\ \/ calls[c].op = "register" /\ CacheUnchanged
           \/ clearCache(calls[c].bot)
    BY DEF Saved
  <1>2. CallsInv' /\ \E k : calls' = [calls EXCEPT ![c] = k]
    BY <1>1, GotoCalls DEF AuthInv, Step
  <1>3. calls[c].bot \in Bots
    BY <1>1 DEF AuthInv, CallsInv, AllCoherent, Coherent
  <1>4. CacheInv'
    BY <1>1, <1>2, <1>3, QuietMove, ClearingMove DEF AuthInv
  <1> QED BY <1>1, <1>2, <1>4 DEF AuthInv, DbInv

LEMMA LoggedInStep ==
  ASSUME AuthInv, NEW c \in Calls, LoggedIn(c)
  PROVE  AuthInv'
  <1>1. calls[c].step = "accepted" /\ calls[c].bot \in Bots
    BY DEF AuthInv, CallsInv, AllCoherent, Coherent, LoggedIn
  <1> QED BY <1>1, LookupStep DEF LoggedIn

-----------------------------------------------------------------------------
(* The database executes save() *)

(* What save() stores: a document, over one that is there or that is new,  *)
(* whose key is the old one unless the call is regenerateApiKey().         *)
LEMMA StoredDocument ==
  ASSUME AuthInv, NEW c \in Calls, calls[c].step = "saving", ~Duplicate(c)
  PROVE  /\ calls[c].bot \in Bots /\ Stored(c) \in Document
         /\ calls[c].op = "register" => db[calls[c].bot] = NoBot
         /\ calls[c].op # "register" =>
              /\ db[calls[c].bot] # NoBot
              /\ Stored(c).apiKey = db[calls[c].bot].apiKey
                 \/ (calls[c].op = "regenerate" /\ Stored(c).apiKey = calls[c].key)
  <1> DEFINE k == calls[c]
             old == k.doc
             now == db[k.bot]
             new == Edited(k.op, old, k.key)
  <1>1. k \in Call /\ Coherent(k, db) /\ k.step = "saving"
    BY DEF AuthInv, CallsInv, AllCoherent
  <1>2. k.bot \in Bots /\ k.op \in Update \cup {"register"}
    BY <1>1 DEF Coherent
  <1>3. CASE k.op = "register"
    <2>1. now = NoBot
      BY <1>3 DEF Duplicate
    <2>2. k.key \in Keys
      BY <1>1, <1>3 DEF Coherent
    <2>3. Stored(c) = [status |-> "active", apiKey |-> k.key]
      BY <1>3 DEF Stored, Edited
    <2> QED BY <1>2, <1>3, <2>1, <2>2, <2>3 DEF Document, BotStatus
  <1>4. CASE k.op \in Update
    <2>1. old \in Document /\ now \in Document /\ k.op # "register"
      BY <1>1, <1>2, <1>4 DEF Coherent, Call, AuthInv, DbInv, Update
    <2>2. Stored(c) =
            [status |-> IF new.status # old.status THEN new.status ELSE now.status,
             apiKey |-> IF new.apiKey # old.apiKey THEN new.apiKey ELSE now.apiKey]
      BY <2>1 DEF Stored
    <2>3. /\ new \in Document
          /\ new.apiKey = old.apiKey \/ (k.op = "regenerate" /\ new.apiKey = k.key)
      <3>1. k.op = "regenerate" => k.key \in Keys
        BY <1>1 DEF Coherent
      <3> HIDE DEF k, old
      <3> QED BY <1>4, <2>1, <3>1 DEF Edited, Update, Document, BotStatus
    <2> HIDE DEF new, old, now
    <2>4. Stored(c) \in Document
      BY <2>1, <2>2, <2>3 DEF Document
    <2>5. Stored(c).apiKey = now.apiKey
          \/ (k.op = "regenerate" /\ Stored(c).apiKey = k.key)
      BY <2>2, <2>3
    <2> QED BY <1>2, <2>1, <2>4, <2>5, NoBotAssumption DEF now
  <1> QED BY <1>2, <1>3, <1>4

LEMMA SaveStep ==
  ASSUME AuthInv, NEW c \in Calls, Save(c)
  PROVE  AuthInv'
  <1> DEFINE b == calls[c].bot
             doc == Stored(c)
             call == [calls[c] EXCEPT !.step = "saved"]
  <1>1. calls[c] \in Call /\ Coherent(calls[c], db) /\ calls[c].step = "saving"
    BY DEF AuthInv, CallsInv, AllCoherent, Save
  <1>2. /\ b \in Bots /\ doc \in Document
        /\ calls[c].op = "register" => db[b] = NoBot
    BY <1>1, StoredDocument DEF Save
  <1>3. /\ db' = [db EXCEPT ![b] = doc] /\ calls' = [calls EXCEPT ![c] = call]
        /\ CacheUnchanged
    BY DEF Save, Goto
  <1> HIDE DEF doc
  <1>4. \A x \in Bots : db'[x] = IF x = b THEN doc ELSE db[x]
    BY <1>3 DEF AuthInv, DbInv
  <1>5. DbInv'
    BY <1>2, <1>3 DEF AuthInv, DbInv
  <1>6. /\ call \in Call /\ call.op = calls[c].op /\ call.bot = b
        /\ call.key = calls[c].key /\ call.doc = calls[c].doc
        /\ call.step = "saved"
    BY <1>1 DEF Call, Step
  <1>7. doc # NoBot
    BY <1>2, NoBotAssumption
  <1>8. Coherent(call, db')
    BY <1>1, <1>2, <1>4, <1>6, <1>7 DEF Coherent
  <1> HIDE DEF call, b
  <1>9. CallsInv'
    BY <1>3, <1>4, <1>6, <1>7, <1>8, OneCallMoves DEF AuthInv
  <1>10. CacheInv'
    <2>1. /\ calls'[c] = call
          /\ \A d \in Calls : d # c => calls'[d] = calls[d]
      BY <1>3 DEF AuthInv, CallsInv
    <2>2. \A x \in Bots : ClearPending(x) => ClearPending(x)'
      BY <1>1, <2>1 DEF ClearPending
    <2>3. \A x \in Bots : x = b /\ calls[c].op # "register" => ClearPending(x)'
      BY <1>6, <2>1 DEF ClearPending
    <2>4. calls[c].op = "register" => cache[b] = NoBot
      BY <1>2 DEF AuthInv, CacheInv
    <2>5. UNCHANGED <<cache, expired, excused>>
      BY <1>3 DEF CacheUnchanged
    <2> QED BY <1>4, <1>7, <2>2, <2>3, <2>4, <2>5 DEF AuthInv, CacheInv
  <1> QED BY <1>5, <1>9, <1>10 DEF AuthInv

-----------------------------------------------------------------------------
(* The theorems *)

LEMMA ExpireStep ==
  ASSUME AuthInv, NEW b \in Bots, Expire(b)
  PROVE  AuthInv'
  BY DEF Expire, AuthInv, DbInv, CallsInv, AllCoherent, CacheInv, ClearPending

(* The steps of the calls, from the request to the answer. *)
LEMMA NextStep ==
  ASSUME AuthInv, Next
  PROVE  AuthInv'
  <1>1. ASSUME NEW c \in Calls, NEW b \in Bots,
               \/ \E op \in Update \cup {"register"} : Request(c, op, b)
               \/ \E k \in Keys : Validate(c, b, k)
               \/ GetBot(c, b)
        PROVE  AuthInv'
    BY <1>1, RequestStep, LookupStep DEF Validate, GetBot
  <1>2. ASSUME NEW c \in Calls, Proceed(c) PROVE AuthInv'
    BY <1>2, FindStep, SaveStep, FailStep, LoseAnswerStep, LookedUpStep, EditStep,
       SavedStep, LoggedInStep DEF Proceed
  <1> QED BY <1>1, <1>2, ExpireStep DEF Next

(* The invariant that the theorems rest on. *)
LEMMA Invariant == Spec => []AuthInv
  <1>1. Init => AuthInv
    <2> SUFFICES ASSUME Init PROVE AuthInv
      OBVIOUS
    <2>1. Idle \in Call /\ Coherent(Idle, db)
      BY DEF Idle, Call, Operation, Step, Coherent
    <2>2. CallsInv
      BY <2>1 DEF Init, CallsInv, AllCoherent
    <2> QED BY <2>2 DEF Init, AuthInv, DbInv, CacheInv
  <1>2. AuthInv /\ [Next]_vars => AuthInv'
    <2> SUFFICES ASSUME AuthInv, [Next]_vars PROVE AuthInv'
      OBVIOUS
    <2>1. CASE UNCHANGED vars
      BY <2>1 DEF vars, AuthInv, DbInv, CallsInv, AllCoherent, CacheInv, ClearPending
    <2> QED BY <2>1, NextStep
  <1> QED BY <1>1, <1>2, PTL DEF Spec

(* The type invariant: no call ever stores anything but a document. *)
THEOREM TypeCorrect == Spec => []TypeOK
  <1>1. AuthInv => TypeOK
    BY DEF AuthInv, DbInv, CallsInv, CacheInv, TypeOK
  <1> QED BY <1>1, Invariant, PTL

(* What is cached is what is stored, except between a save and the         *)
(* clearCache() that follows it, when a document is cached that was read   *)
(* before a save, and when the answer to a save was lost.                  *)
THEOREM CacheStaysCurrent == Spec => []CacheIsCurrent
  <1>1. AuthInv => CacheIsCurrent
    BY DEF AuthInv, CacheInv, ClearPending, CacheIsCurrent
  <1> QED BY <1>1, Invariant, PTL

(* The step that KeysAreKept speaks of. *)
KeepsKeys ==
  \A b \in Bots :
    (db[b] # NoBot /\ db'[b].apiKey # db[b].apiKey) =>
      \E c \in Calls : /\ calls[c].op = "regenerate"
                       /\ calls[c].bot = b
                       /\ calls[c].step = "saving"
                       /\ db'[b].apiKey = calls[c].key

LEMMA KeepsKeysStep ==
  AuthInv /\ [Next]_vars => KeepsKeys
  <1> SUFFICES ASSUME AuthInv, [Next]_vars PROVE KeepsKeys
    OBVIOUS
  <1>1. ASSUME NEW c \in Calls, Save(c) PROVE KeepsKeys
    <2> DEFINE doc == Stored(c)
    <2>1. calls[c].step = "saving" /\ ~Duplicate(c)
      BY <1>1 DEF Save
    <2>2. /\ calls[c].bot \in Bots
          /\ calls[c].op = "register" => db[calls[c].bot] = NoBot
          /\ calls[c].op # "register" =>
               doc.apiKey = db[calls[c].bot].apiKey
               \/ (calls[c].op = "regenerate" /\ doc.apiKey = calls[c].key)
      BY <2>1, StoredDocument
    <2>3. \A x \in Bots : db'[x] = IF x = calls[c].bot THEN doc ELSE db[x]
      BY <1>1 DEF Save, AuthInv, DbInv
    <2> HIDE DEF doc
    <2> QED BY <2>1, <2>2, <2>3 DEF KeepsKeys
  <1>2. UNCHANGED db \/ \E c \in Calls : Save(c)
    BY DEF Next, vars, Proceed, Request, Validate, GetBot, LoggedIn, Find, LookedUp,
           Edit, Fail, LoseAnswer, Saved, Expire
  <1> QED BY <1>1, <1>2 DEF KeepsKeys

(* While a bot is stored its key changes only by regenerateApiKey(), to    *)
(* the key that call returns: two registrations of one identifier that     *)
(* both found nobody do not both succeed, however many calls there are.    *)
THEOREM KeysStay == Spec => KeysAreKept
  <1>1. AuthInv /\ [Next]_vars => [KeepsKeys]_vars
    BY KeepsKeysStep
  <1> QED BY <1>1, Invariant, PTL DEF Spec, KeysAreKept, KeepsKeys

=============================================================================
