--------------------------- MODULE BotAuthService ---------------------------
(***************************************************************************)
(* The credentials of the bots: application/services/BotAuthService.ts and *)
(* persistence/models/Bot.ts.                                              *)
(*                                                                         *)
(* Every operation waits for the database once or twice; between its steps *)
(* other operations run.  A call is cut where the code awaits: the request *)
(* is sent, the database executes it, and the call resumes with the        *)
(* answer.  A document is what findOne() returned: a copy, out of date as  *)
(* soon as another call saves.  save() writes only the fields that were    *)
(* changed since the document was read, and writes nothing when there are  *)
(* none.                                                                   *)
(*                                                                         *)
(* Keys stand for their hashes.  lastUsed and the statistics are left out: *)
(* no decision depends on them, and no code calls updateBotStats().        *)
(***************************************************************************)
EXTENDS Naturals, FiniteSets

CONSTANTS
  Bots, Keys,
  Calls,      \* bound: calls of the service in progress at a time
  NoBot,      \* no document
  NoKey

ASSUME AuthAssumption == NoBot \notin Bots /\ NoKey \notin Keys

VARIABLES
  db,       \* the collection of bots
  cache,    \* botCache
  expired,  \* the bots whose entry in cacheTimestamps is older than CACHE_TTL
  calls,
  excused   \* history: entries that were out of date when they were cached,
            \* or whose update failed after the database had executed it

vars == <<db, cache, expired, calls, excused>>

BotStatus == {"active", "suspended", "revoked"}
Document == [status : BotStatus, apiKey : Keys]

ASSUME NoBotAssumption == NoBot \notin Document

Update == {"revoke", "suspend", "reactivate", "regenerate"}
Operation == Update \cup {"register", "validate", "get"}

(* Where a call is: nowhere, waiting for findOne() to be executed, about   *)
(* to resume with its document, waiting for save(), about to resume after  *)
(* it, or answered with true.                                              *)
Step == {"idle", "finding", "found", "saving", "saved", "accepted"}

Call == [op : Operation, bot : Bots \cup {NoBot}, key : Keys \cup {NoKey},
         doc : Document \cup {NoBot}, step : Step]

Idle == [op |-> "get", bot |-> NoBot, key |-> NoKey, doc |-> NoBot,
         step |-> "idle"]

TypeOK ==
  /\ db \in [Bots -> Document \cup {NoBot}]
  /\ cache \in [Bots -> Document \cup {NoBot}]
  /\ expired \subseteq Bots
  /\ calls \in [Calls -> Call]
  /\ excused \subseteq Bots

Init ==
  /\ db = [b \in Bots |-> NoBot]
  /\ cache = [b \in Bots |-> NoBot]
  /\ expired = {}
  /\ calls = [c \in Calls |-> Idle]
  /\ excused = {}

-----------------------------------------------------------------------------
(* The cache. *)

(* A bug this code could have: the age of the entry is not looked at.      *)
getCachedBotForEver(b) == cache[b]

(* getCachedBot(): an expired entry is as good as none. *)
getCachedBot(b) == IF b \in expired THEN NoBot ELSE cache[b]

(* clearCache(); also what getCachedBot() does to an expired entry.        *)
clearCache(b) ==
  /\ cache' = [cache EXCEPT ![b] = NoBot]
  /\ expired' = expired \ {b}
  /\ excused' = excused \ {b}

cacheBot(b, doc) ==
  /\ cache' = [cache EXCEPT ![b] = doc]
  /\ expired' = expired \ {b}
  /\ excused' = IF doc = db[b] THEN excused \ {b} ELSE excused \cup {b}

CacheUnchanged == UNCHANGED <<cache, expired, excused>>

validateApiKey(doc, k) == doc.status = "active" /\ doc.apiKey = k

-----------------------------------------------------------------------------
(* How a call goes on. *)

Goto(c, step) ==
  calls' = [calls EXCEPT ![c] =
              IF step = "idle" THEN Idle ELSE [@ EXCEPT !.step = step]]
Answer(valid) == IF valid THEN "accepted" ELSE "idle"

(* A random key: one that is in use nowhere. *)
FreshKeys ==
  Keys \ ({db[b].apiKey : b \in {x \in Bots : db[x] # NoBot}}
            \cup {cache[b].apiKey : b \in {x \in Bots : cache[x] # NoBot}}
            \cup {calls[c].key : c \in Calls}
            \cup {calls[c].doc.apiKey : c \in {x \in Calls : calls[x].doc # NoBot}})

Begin(c, op, b, k, step) ==
  calls' = [calls EXCEPT ![c] =
              IF step = "idle" THEN Idle
              ELSE [op |-> op, bot |-> b, key |-> k, doc |-> NoBot, step |-> step]]

(* The part of validateBot() and getBot() up to the first await.           *)
Lookup(c, op, b, k) ==
  LET hit == getCachedBot(b)
  IN  IF hit # NoBot
      THEN /\ Begin(c, op, b, k,
                    Answer(op = "validate" /\ validateApiKey(hit, k)))
           /\ CacheUnchanged
      ELSE /\ Begin(c, op, b, k, "finding")
           /\ IF cache[b] # NoBot THEN clearCache(b) ELSE CacheUnchanged

(* The part of the other operations up to the first await: registerBot()   *)
(* and regenerateApiKey() draw a key, which regenerateApiKey() does a step *)
(* later than here, where nobody sees it.                                  *)
Request(c, op, b) ==
  /\ calls[c].step = "idle"
  /\ \E k \in IF op \in {"register", "regenerate"} THEN FreshKeys ELSE {NoKey} :
       Begin(c, op, b, k, "finding")
  /\ CacheUnchanged
  /\ UNCHANGED db

Validate(c, b, k) ==
  calls[c].step = "idle" /\ Lookup(c, "validate", b, k) /\ UNCHANGED db

GetBot(c, b) ==
  calls[c].step = "idle" /\ Lookup(c, "get", b, NoKey) /\ UNCHANGED db

(* handleAuthentication() after validateBot() said true: the bot is looked *)
(* up once more for its name.                                              *)
LoggedIn(c) ==
  /\ calls[c].step = "accepted"
  /\ Lookup(c, "get", calls[c].bot, NoKey)
  /\ UNCHANGED db

(* The database executes findOne(). *)
Find(c) ==
  /\ calls[c].step = "finding"
  /\ calls' = [calls EXCEPT ![c].step = "found", ![c].doc = db[calls[c].bot]]
  /\ CacheUnchanged
  /\ UNCHANGED db

(* The rest of validateBot() and getBot(). *)
LookedUp(c) ==
  LET doc == calls[c].doc
  IN  /\ calls[c].step = "found"
      /\ calls[c].op \in {"validate", "get"}
      /\ IF doc = NoBot
         THEN Goto(c, "idle") /\ CacheUnchanged
         ELSE /\ cacheBot(calls[c].bot, doc)
              /\ Goto(c, Answer(/\ calls[c].op = "validate"
                                /\ validateApiKey(doc, calls[c].key)))
      /\ UNCHANGED db

(* Whether an operation throws when it sees the document it asked for: a   *)
(* bot that is not there, that is there already, or that is revoked.       *)
Refuses(op, doc) ==
  \/ op = "register" /\ doc # NoBot
  \/ op \in Update /\ doc = NoBot
  \/ op = "reactivate" /\ doc # NoBot /\ doc.status = "revoked"

(* What an operation makes of the document. *)
Edited(op, doc, k) ==
  CASE op = "register"   -> [status |-> "active", apiKey |-> k]
    [] op = "revoke"     -> [doc EXCEPT !.status = "revoked"]
    [] op = "suspend"    -> [doc EXCEPT !.status = "suspended"]
    [] op = "reactivate" -> [doc EXCEPT !.status = "active"]
    [] op = "regenerate" -> [doc EXCEPT !.apiKey = k]

(* The operation between its two awaits: it throws, or it edits the        *)
(* document and sends it.                                                  *)
Edit(c) ==
  /\ calls[c].step = "found"
  /\ calls[c].op \in Update \cup {"register"}
  /\ Goto(c, IF Refuses(calls[c].op, calls[c].doc) THEN "idle" ELSE "saving")
  /\ CacheUnchanged
  /\ UNCHANGED db

(* A bug this code could have: no unique index on botId.                   *)
NeverDuplicate(c) == FALSE

(* The unique index refuses a new document with a botId it knows.          *)
Duplicate(c) == calls[c].op = "register" /\ db[calls[c].bot] # NoBot

(* save(): the changed fields of the document, over what is stored now.    *)
Stored(c) ==
  LET old == calls[c].doc
      now == db[calls[c].bot]
      new == Edited(calls[c].op, old, calls[c].key)
  IN  IF calls[c].op = "register" THEN new
      ELSE [status |-> IF new.status # old.status THEN new.status ELSE now.status,
            apiKey |-> IF new.apiKey # old.apiKey THEN new.apiKey ELSE now.apiKey]

(* The database executes save(). *)
Save(c) ==
  /\ calls[c].step = "saving"
  /\ ~Duplicate(c)
  /\ db' = [db EXCEPT ![calls[c].bot] = Stored(c)]
  /\ Goto(c, "saved")
  /\ CacheUnchanged

(* The call fails while it waits: nothing was executed.                    *)
Fail(c) ==
  /\ calls[c].step \in {"finding", "saving"}
  /\ Goto(c, "idle")
  /\ CacheUnchanged
  /\ UNCHANGED db

(* save() was executed and the answer is lost: the call throws, and the    *)
(* cache is not cleared.                                                   *)
LoseAnswer(c) ==
  /\ calls[c].step = "saved"
  /\ Goto(c, "idle")
  /\ excused' = excused \cup {b \in {calls[c].bot} : cache[b] # NoBot}
  /\ UNCHANGED <<db, cache, expired>>

(* A bug this code could have: the entry is cleared only for a revocation. *)
SavedUncleared(c) ==
  /\ calls[c].step = "saved"
  /\ Goto(c, "idle")
  /\ IF calls[c].op = "revoke" THEN clearCache(calls[c].bot) ELSE CacheUnchanged
  /\ UNCHANGED db

(* The end of an operation that changes a bot: clearCache().               *)
Saved(c) ==
  /\ calls[c].step = "saved"
  /\ Goto(c, "idle")
  /\ IF calls[c].op = "register" THEN CacheUnchanged ELSE clearCache(calls[c].bot)
  /\ UNCHANGED db

(* CACHE_TTL passes. *)
Expire(b) ==
  /\ cache[b] # NoBot
  /\ b \notin expired
  /\ expired' = expired \cup {b}
  /\ UNCHANGED <<db, cache, calls, excused>>

(* What a call does once its request has been sent, the database included. *)
Proceed(c) ==
  \/ Find(c) \/ Save(c) \/ Fail(c) \/ LoseAnswer(c)
  \/ LookedUp(c) \/ Edit(c) \/ Saved(c) \/ LoggedIn(c)

Next ==
  \/ \E c \in Calls, b \in Bots :
       \/ \E op \in Update \cup {"register"} : Request(c, op, b)
       \/ \E k \in Keys : Validate(c, b, k)
       \/ GetBot(c, b)
  \/ \E c \in Calls : Proceed(c)
  \/ \E b \in Bots : Expire(b)

Spec == Init /\ [][Next]_vars

(* Requests are answered, by the database or by an error, the event loop   *)
(* resumes them, and time passes.                                          *)
FairSpec ==
  /\ Spec
  /\ \A c \in Calls : WF_vars(Proceed(c))
  /\ \A b \in Bots : WF_vars(Expire(b))

-----------------------------------------------------------------------------
StatusOf(b) == IF db[b] = NoBot THEN "none" ELSE db[b].status

(* What is cached is what is stored, unless an operation has saved and is  *)
(* about to clear the entry, the entry was read before a save and cached   *)
(* after it, or the answer to a save was lost: the order save(),           *)
(* clearCache() of revokeBot(), suspendBot(), reactivateBot() and          *)
(* regenerateApiKey() leaves no other way to serve an outdated bot.        *)
CacheIsCurrent ==
  \A b \in Bots :
    cache[b] \notin {NoBot, db[b]} =>
      \/ b \in excused
      \/ \E c \in Calls : calls[c].bot = b /\ calls[c].step = "saved"

(* Nobody registers over a registered bot, although registerBot() checks   *)
(* for the identifier and saves in two steps: while a bot is stored its    *)
(* key changes only by regenerateApiKey(), to the key that call returns.   *)
KeysAreKept ==
  [][\A b \in Bots :
       (db[b] # NoBot /\ db'[b].apiKey # db[b].apiKey) =>
         \E c \in Calls : /\ calls[c].op = "regenerate"
                          /\ calls[c].bot = b
                          /\ calls[c].step = "saving"
                          /\ db'[b].apiKey = calls[c].key]_vars

(* A bot that is suspended or revoked for good is in the end refused for   *)
(* good, although logins that began earlier may have cached it: nothing    *)
(* keeps an outdated entry alive longer than its five minutes.             *)
RevocationTakesEffect ==
  \A b \in Bots :
    <>[](StatusOf(b) # "active") =>
      <>[](\A c \in Calls : calls[c].bot = b => calls[c].step # "accepted")

=============================================================================
